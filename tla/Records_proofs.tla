--------------------------- MODULE Records_proofs ---------------------------
(***************************************************************************)
(* For any number of records and of requests at a time: the properties of  *)
(* webhook events, partner papers, documents and the portal.  They speak   *)
(* of requests that are not disturbed, so that each invariant says what a  *)
(* handler still knows as long as no row it has read was written since.    *)
(***************************************************************************)
EXTENDS Handlers_proofs, Webhooks, PartnerDocuments, PortalAccess, FiniteSetTheorems

-----------------------------------------------------------------------------
(* Webhook events                                                           *)

EventRow == [status : {"ABSENT", "RECEIVED", "REJECTED", "PROCESSED"}, valid : BOOLEAN]

\* A delivery that is to correct an event found it without a valid signature.
DeliveryHeld(r) ==
  LET e == Args(r)[1]
  IN  /\ serving[r].step \in {"event.create", "event.upgrade", "event.processed"} => e \in Events
      /\ At(r, "event.create") => Args(r)[2] \in BOOLEAN
      /\ At(r, "event.upgrade") =>
           /\ e \in serving[r].on /\ e \in forged
           /\ ~serving[r].stale => ~events[e].valid
      /\ At(r, "event.processed") => events[e].status # "ABSENT"

EventInv ==
  /\ Shape
  /\ undisturbed \in BOOLEAN
  /\ events \in [Events -> EventRow]
  /\ news \in [Events -> {"never", "once", "again"}]
  /\ forged \subseteq Events
  /\ \A e \in Events :
       /\ events[e].valid => events[e].status # "ABSENT"
       /\ news[e] # "never" => events[e].valid
       /\ events[e].status # "ABSENT" /\ ~events[e].valid => e \in forged
       /\ e \in forged => events[e].status # "ABSENT"
       /\ news[e] = "again" => e \in forged /\ ~undisturbed
  /\ \A r \in Slots : DeliveryHeld(r)

\* No event is known at first.
LEMMA EventStart == WebhookInit => EventInv
BY HandlersInitShape DEF WebhookInit, EventInv, EventRow, NoEvent, DeliveryHeld, Idle, At

\* Another slot goes on holding what it held, when the events it knows of were not
\* written, or it is stale from here on.
LEMMA DeliveryKept ==
  ASSUME NEW q \in Slots, DeliveryHeld(q), Keeps(q), forged \subseteq forged',
         serving[q].stale => serving'[q].stale,
         \A e \in Events : events[e].status # "ABSENT" => events'[e].status # "ABSENT",
         \A e \in Events : ~serving'[q].stale /\ e \in serving[q].on => events'[e] = events[e]
  PROVE  DeliveryHeld(q)'
BY DEF DeliveryHeld, Keeps, Args, At

LEMMA DeliverySame ==
  ASSUME NEW q \in Slots, DeliveryHeld(q), serving'[q] = serving[q], UNCHANGED <<events, forged>>
  PROVE  DeliveryHeld(q)'
BY DEF DeliveryHeld, Args, At

LEMMA DeliveryIdle == ASSUME NEW q \in Slots, serving'[q] = Idle PROVE DeliveryHeld(q)'
BY DEF DeliveryHeld, Idle, At

\* A write of one event keeps the invariant when the new row and the new slot fit.
LEMMA EventWritten ==
  ASSUME EventInv, NEW r \in Slots, NEW e \in Events, NEW next, Slot(next), Write(r, {e}, next),
         NEW row \in EventRow, row.status # "ABSENT",
         events' = [events EXCEPT ![e] = row],
         NEW n \in {"never", "once", "again"}, news' = [news EXCEPT ![e] = n],
         forged' \in {forged, forged \cup {e}},
         n # "never" => row.valid,
         ~row.valid => e \in forged',
         n = "again" => e \in forged /\ (news[e] = "again" \/ serving[r].stale),
         DeliveryHeld(r)'
  PROVE  EventInv'
<1>1. /\ Shape' /\ serving'[r] = next
      /\ \A q \in Slots \ {r} : Keeps(q) /\ serving'[q].stale = (serving[q].stale \/ serving[q].on \cap {e} # {})
      /\ undisturbed' = (undisturbed /\ ~serving[r].stale)
  BY WriteEffect DEF EventInv
<1>2. \A q \in Slots : DeliveryHeld(q)'
  <2> SUFFICES ASSUME NEW q \in Slots, q # r PROVE DeliveryHeld(q)'
    OBVIOUS
  <2>1. \A d \in Events : ~serving'[q].stale /\ d \in serving[q].on => events'[d] = events[d]
    BY <1>1 DEF EventInv
  <2>2. \A d \in Events : events[d].status # "ABSENT" => events'[d].status # "ABSENT"
    BY DEF EventInv
  <2> QED BY <1>1, <2>1, <2>2, DeliveryKept DEF EventInv
<1>3. undisturbed' \in BOOLEAN /\ (undisturbed' => undisturbed /\ ~serving[r].stale)
  BY <1>1 DEF EventInv
<1>4. /\ events' \in [Events -> EventRow]
      /\ news' \in [Events -> {"never", "once", "again"}]
      /\ forged' \subseteq Events
  BY DEF EventInv
<1>5. ASSUME NEW d \in Events
      PROVE  /\ events'[d].valid => events'[d].status # "ABSENT"
             /\ news'[d] # "never" => events'[d].valid
             /\ events'[d].status # "ABSENT" /\ ~events'[d].valid => d \in forged'
             /\ d \in forged' => events'[d].status # "ABSENT"
             /\ news'[d] = "again" => d \in forged' /\ ~undisturbed'
  BY <1>3 DEF EventInv
<1> QED BY <1>1, <1>2, <1>3, <1>4, <1>5 DEF EventInv

LEMMA EventStep == EventInv /\ [WebhookNext]_webhookVars => EventInv'
<1> SUFFICES ASSUME EventInv, [WebhookNext]_webhookVars PROVE EventInv'
  OBVIOUS
<1>0. Shape /\ \A q \in Slots : DeliveryHeld(q)
  BY DEF EventInv
<1>1. ASSUME NEW r \in Slots, NEW e \in Events, NEW valid \in BOOLEAN, Look(r, e, valid) PROVE EventInv'
  <2> DEFINE step == IF events[e].status = "ABSENT" THEN "event.create" ELSE "event.upgrade"
  <2>1. Continue(r, step, <<e, valid>>, {e}) /\ UNCHANGED webhookRows
    BY <1>1 DEF Look
  <2>2. /\ Shape' /\ serving'[r].step = step /\ serving'[r].args = <<e, valid>>
        /\ \A q \in Slots \ {r} : serving'[q] = serving[q]
        /\ undisturbed' = undisturbed /\ e \in serving'[r].on
    BY <1>0, <2>1, ContinueEffect, ContinueHolds
  <2>3. DeliveryHeld(r)'
    <3>1. step = "event.upgrade" => ~events[e].valid /\ e \in forged
      BY <1>1 DEF Look, EventInv
    <3> QED BY <2>1, <2>2, <3>1 DEF DeliveryHeld, At, Args, webhookRows
  <2>4. \A q \in Slots : DeliveryHeld(q)'
    BY <1>0, <2>1, <2>2, <2>3, DeliverySame DEF webhookRows
  <2> QED BY <2>1, <2>2, <2>4 DEF EventInv, webhookRows
<1>2. ASSUME NEW r \in Slots, EventCreate(r) PROVE EventInv'
  <2> DEFINE e == Args(r)[1]  valid == Args(r)[2]
             row == [status |-> IF valid THEN "RECEIVED" ELSE "REJECTED", valid |-> valid]
             next == IF valid THEN [Idle EXCEPT !.step = "event.processed", !.args = <<e>>] ELSE Idle
             n == IF valid THEN Once[news[e]] ELSE news[e]
  <2>1. At(r, "event.create") /\ e \in Events /\ valid \in BOOLEAN
    BY <1>0, <1>2 DEF EventCreate, DeliveryHeld, At
  <2>2. CASE events[e].status = "ABSENT"
    <3>1. /\ events' = [events EXCEPT ![e] = row]
          /\ forged' = forged \cup (IF valid THEN {} ELSE {e})
          /\ Write(r, {e}, next)
          /\ news' = IF valid THEN [news EXCEPT ![e] = Once[@]] ELSE news
      BY <1>2, <2>2 DEF EventCreate, New
    <3>2. news[e] = "never" /\ row \in EventRow /\ row.status # "ABSENT"
      BY <2>1, <2>2 DEF EventInv, EventRow
    <3>3. n \in {"never", "once"} /\ (n # "never" => valid)
      BY <2>1, <3>2 DEF Once
    <3>4. news' = [news EXCEPT ![e] = n]
      BY <2>1, <3>1 DEF EventInv
    <3>5. Slot(next)
      BY <2>1 DEF Slot, Idle
    <3>6. serving'[r] = next
      BY <1>0, <3>1, <3>5, WriteEffect
    <3>7. DeliveryHeld(r)'
      <4>1. events'[e].status # "ABSENT"
        BY <2>1, <3>1, <3>2 DEF EventInv
      <4>2. CASE valid
        <5>1. next.step = "event.processed" /\ next.args = <<e>>
          BY <4>2 DEF Idle
        <5> HIDE DEF next
        <5> QED BY <2>1, <3>6, <4>1, <5>1 DEF DeliveryHeld, At, Args
      <4>3. CASE ~valid
        BY <3>6, <4>3, DeliveryIdle
      <4> QED BY <4>2, <4>3
    <3>8. row.valid = valid /\ forged' \in {forged, forged \cup {e}} /\ (~valid => e \in forged')
      BY <3>1
    <3> HIDE DEF row, n, next, e, valid
    <3> QED BY <2>1, <3>1, <3>2, <3>3, <3>4, <3>5, <3>7, <3>8, EventWritten
  <2>3. CASE events[e].status # "ABSENT"
    <3>1. Return(r) /\ UNCHANGED webhookRows
      BY <1>2, <2>3 DEF EventCreate
    <3>2. Shape' /\ serving'[r] = Idle /\ undisturbed' = undisturbed /\ \A q \in Slots \ {r} : serving'[q] = serving[q]
      BY <1>0, <3>1, ReturnEffect
    <3>3. \A q \in Slots : DeliveryHeld(q)'
      BY <1>0, <3>1, <3>2, DeliverySame, DeliveryIdle DEF webhookRows
    <3> QED BY <3>1, <3>2, <3>3 DEF EventInv, webhookRows
  <2> QED BY <2>2, <2>3
<1>3. ASSUME NEW r \in Slots, EventUpgrade(r) PROVE EventInv'
  <2>1. PICK e \in Events : /\ e = Args(r)[1] /\ e \in forged
                            /\ ~serving[r].stale => ~events[e].valid
    BY <1>0, <1>3 DEF EventUpgrade, DeliveryHeld, At
  <2> DEFINE row == [status |-> "RECEIVED", valid |-> TRUE]
             next == [Idle EXCEPT !.step = "event.processed", !.args = <<e>>]
             n == Once[news[e]]
  <2>2. /\ events' = [events EXCEPT ![e] = row]
        /\ Write(r, {e}, next)
        /\ news' = [news EXCEPT ![e] = Once[@]]
        /\ forged' = forged
    BY <1>3, <2>1 DEF EventUpgrade, New
  <2>3. news[e] \in {"never", "once", "again"} /\ news \in [Events -> {"never", "once", "again"}]
    BY DEF EventInv
  <2>4. n \in {"once", "again"} /\ (n = "again" => news[e] # "never")
    BY <2>3 DEF Once
  <2>5. news[e] # "never" => serving[r].stale
    BY <2>1 DEF EventInv
  <2>6. news' = [news EXCEPT ![e] = n]
    BY <2>2, <2>3
  <2>7. Slot(next)
    BY IdleSlot, SlotAt
  <2>8. next.step = "event.processed" /\ next.args = <<e>>
    BY DEF Idle
  <2>9. serving'[r] = next
    BY <1>0, <2>2, <2>7, WriteEffect
  <2>10. row \in EventRow /\ row.status # "ABSENT" /\ row.valid
    BY DEF EventRow
  <2>11. DeliveryHeld(r)'
    <3>1. events'[e].status # "ABSENT"
      BY <2>2 DEF EventInv
    <3> HIDE DEF next
    <3> QED BY <2>8, <2>9, <3>1 DEF DeliveryHeld, At, Args
  <2> HIDE DEF row, n, next
  <2> QED BY <2>1, <2>2, <2>4, <2>5, <2>6, <2>7, <2>10, <2>11, EventWritten
<1>4. ASSUME NEW r \in Slots, EventProcessed(r) PROVE EventInv'
  <2> DEFINE e == Args(r)[1]
             row == [status |-> "PROCESSED", valid |-> events[e].valid]
  <2>1. e \in Events /\ events[e].status # "ABSENT" /\ events[e] \in EventRow
    BY <1>0, <1>4 DEF EventProcessed, DeliveryHeld, At, EventInv
  <2>2. /\ events' = [events EXCEPT ![e].status = "PROCESSED"]
        /\ Write(r, {e}, Idle) /\ UNCHANGED <<forged, news>>
    BY <1>4 DEF EventProcessed
  <2>3. events' = [events EXCEPT ![e] = row] /\ row \in EventRow
    <3>1. PICK s, v : events[e] = [status |-> s, valid |-> v] /\ v \in BOOLEAN
      BY <2>1 DEF EventRow
    <3>2. [events[e] EXCEPT !.status = "PROCESSED"] = row
      BY <3>1
    <3> HIDE DEF row
    <3>3. events' = [events EXCEPT ![e] = row]
      BY <2>2, <3>2
    <3> QED BY <3>1, <3>3 DEF EventRow, row
  <2>4. news' = [news EXCEPT ![e] = news[e]] /\ news[e] \in {"never", "once", "again"}
    BY <2>1, <2>2 DEF EventInv
  <2>5. DeliveryHeld(r)'
    BY <1>0, <2>2, WriteEffect, IdleSlot, DeliveryIdle
  <2>6. /\ news[e] # "never" => events[e].valid
        /\ ~events[e].valid => e \in forged
        /\ news[e] = "again" => e \in forged
    BY <2>1 DEF EventInv
  <2>7. row.status # "ABSENT" /\ row.valid = events[e].valid
    OBVIOUS
  <2> HIDE DEF row, e
  <2> QED BY <2>1, <2>2, <2>3, <2>4, <2>5, <2>6, <2>7, IdleSlot, EventWritten
<1>5. ASSUME NEW r \in Slots, Dies(r), UNCHANGED webhookRows PROVE EventInv'
  <2>1. Shape' /\ serving'[r] = Idle /\ undisturbed' = undisturbed /\ \A q \in Slots \ {r} : serving'[q] = serving[q]
    BY <1>0, <1>5, ReturnEffect DEF Dies
  <2>2. \A q \in Slots : DeliveryHeld(q)'
    BY <1>0, <1>5, <2>1, DeliverySame, DeliveryIdle DEF webhookRows
  <2> QED BY <1>5, <2>1, <2>2 DEF EventInv, webhookRows
<1>6. CASE UNCHANGED webhookVars
  BY <1>6 DEF webhookVars, webhookRows, handlerVars, EventInv, DeliveryHeld, Args, At, Shape, Slot
<1> QED BY <1>1, <1>2, <1>3, <1>4, <1>5, <1>6 DEF WebhookNext

\* recordEvent(): for any number of events and of overlapping deliveries, an event is
\* answered as new once, but for deliveries that correct it at the same time.
THEOREM EventsAreNewOnce == WebhookSpec => []NewOnce
<1>1. EventInv => NewOnce
  BY DEF EventInv, NewOnce
<1> QED BY <1>1, EventStart, EventStep, PTL DEF WebhookSpec

-----------------------------------------------------------------------------
(* The papers of a partner                                                  *)

PaperStatus == {"ABSENT", "DRAFT", "ACTIVE", "SUPERSEDED", "EXPIRED", "ARCHIVED"}

PaperRow(x) ==
  \E s \in PaperStatus : \E v, e : x = [status |-> s, version |-> v, edited |-> e]

\* The paper that a handler is about to write, as it read it; and, when it is to come into
\* force, all papers that are in force.
PaperHeld(r) ==
  LET p == Args(r)[1]
  IN  /\ serving[r].step \in {"paper.update", "paper.archive", "paper.supersede", "paper.activate", "paper.expire"} =>
           p \in Known /\ p \in serving[r].on
      /\ At(r, "paper.activate") => "in force" \in serving[r].on
      /\ ~serving[r].stale =>
           /\ serving[r].step \in {"paper.update", "paper.supersede", "paper.activate"} => papers[p].status = "DRAFT"
           /\ At(r, "paper.archive") => papers[p].status # "ARCHIVED"
           /\ At(r, "paper.expire") => papers[p].status = "ACTIVE"
           /\ At(r, "paper.activate") => InForce \subseteq Args(r)[2]

PapersMap == papers = [p \in Papers |-> papers[p]]

PaperInv ==
  /\ Shape
  /\ undisturbed \in BOOLEAN
  /\ PapersMap
  /\ \A p \in Papers : PaperRow(papers[p])
  /\ \A p, q \in Known : papers[p].version = papers[q].version => p = q
  /\ undisturbed => \A p, q \in InForce : p = q
  /\ \A r \in Slots : PaperHeld(r)

\* What a paper may become in a step.
Advances(p) ==
  /\ papers[p].status # "DRAFT" =>
       papers'[p].edited = papers[p].edited /\ papers'[p].status \notin {"ACTIVE", "DRAFT"} \ {papers[p].status}
  /\ papers[p].status = "ARCHIVED" => papers'[p] = papers[p]

PaperMove == undisturbed' => \A p \in Known : Advances(p)

LEMMA PaperStart == PapersInit => PaperInv
<1> SUFFICES ASSUME PapersInit PROVE PaperInv
  OBVIOUS
<1>1. Shape /\ undisturbed /\ \A q \in Slots : serving[q] = Idle
  BY HandlersInitShape DEF PapersInit
<1>2. ASSUME NEW r \in Slots PROVE PaperHeld(r)
  <2>1. serving[r] = Idle
    BY <1>1
  <2> QED BY <2>1 DEF PaperHeld, Idle, At
<1>3. PapersMap /\ \A p \in Papers : papers[p] = NoPaper
  BY DEF PapersInit, PapersMap
<1>4. PaperRow(NoPaper) /\ NoPaper.status = "ABSENT"
  BY DEF PaperRow, PaperStatus, NoPaper
<1>5. Known = {} /\ InForce = {}
  BY <1>3, <1>4 DEF Known, InForce
<1> QED BY <1>1, <1>2, <1>3, <1>4, <1>5 DEF PaperInv

\* The fields of a row, and what a change of one of them gives.
LEMMA PaperFields ==
  ASSUME NEW x, PaperRow(x)
  PROVE  /\ x.status \in PaperStatus
         /\ x = [status |-> x.status, version |-> x.version, edited |-> x.edited]
         /\ \A s : [x EXCEPT !.status = s] = [status |-> s, version |-> x.version, edited |-> x.edited]
         /\ \A e : [x EXCEPT !.edited = e] = [status |-> x.status, version |-> x.version, edited |-> e]
<1>1. PICK s \in PaperStatus : \E v, e : x = [status |-> s, version |-> v, edited |-> e]
  BY DEF PaperRow
<1>2. PICK v, e : x = [status |-> s, version |-> v, edited |-> e]
  BY <1>1
<1> QED BY <1>2

LEMMA PaperKept ==
  ASSUME NEW q \in Slots, PaperHeld(q), Keeps(q), Known \subseteq Known',
         serving[q].stale => serving'[q].stale,
         \A p \in Known : ~serving'[q].stale /\ p \in serving[q].on => papers'[p] = papers[p],
         ~serving'[q].stale /\ "in force" \in serving[q].on => InForce' \subseteq InForce
  PROVE  PaperHeld(q)'
BY DEF PaperHeld, Keeps, Args, At

LEMMA PaperSame ==
  ASSUME NEW q \in Slots, PaperHeld(q), serving'[q] = serving[q], UNCHANGED papers PROVE PaperHeld(q)'
BY DEF PaperHeld, Args, At, Known, InForce

LEMMA PaperIdle == ASSUME NEW q \in Slots, serving'[q] = Idle PROVE PaperHeld(q)'
BY DEF PaperHeld, Idle, At

LEMMA PaperMade ==
  ASSUME NEW s \in PaperStatus, NEW v, NEW e, NEW x, x = [status |-> s, version |-> v, edited |-> e]
  PROVE  PaperRow(x) /\ x.status = s /\ x.version = v /\ x.edited = e
BY DEF PaperRow

\* A handler that only reads, or ends, moves no paper.
LEMMA PaperReads ==
  ASSUME PaperInv, NEW r \in Slots, UNCHANGED <<papers, undisturbed>>, Shape',
         \A q \in Slots \ {r} : serving'[q] = serving[q], PaperHeld(r)'
  PROVE  PaperInv' /\ PaperMove
<1>1. \A q \in Slots : PaperHeld(q)'
  BY PaperSame DEF PaperInv
<1> QED BY <1>1 DEF PaperInv, PapersMap, PaperMove, Advances, Known, InForce, PaperRow

\* The other slots, in a step that writes some rows.
LEMMA PapersWritten ==
  ASSUME PaperInv, NEW r \in Slots, NEW rows, Write(r, rows, Idle) \/ Put(r, rows, Idle),
         Known \subseteq Known', \A p \in Papers \ rows : papers'[p] = papers[p],
         "in force" \in rows \/ InForce' \subseteq InForce
  PROVE  Shape' /\ \A q \in Slots : PaperHeld(q)'
<1>1. /\ Shape' /\ serving'[r] = Idle
      /\ \A q \in Slots \ {r} : Keeps(q) /\ serving'[q].stale = (serving[q].stale \/ serving[q].on \cap rows # {})
  BY EndsWriting DEF PaperInv
<1>2. ASSUME NEW q \in Slots, q # r PROVE PaperHeld(q)'
  <2>1. \A p \in Known : ~serving'[q].stale /\ p \in serving[q].on => papers'[p] = papers[p]
    BY <1>1, <1>2 DEF Known
  <2>2. ~serving'[q].stale /\ "in force" \in serving[q].on => InForce' \subseteq InForce
    BY <1>1, <1>2
  <2> QED BY <1>1, <1>2, <2>1, <2>2, PaperKept DEF PaperInv
<1> QED BY <1>1, <1>2, PaperIdle

\* A paper that is written by id.
LEMMA PaperSet ==
  ASSUME PaperInv, NEW r \in Slots, NEW p \in Papers, NEW row, PaperRow(row), row.status # "ABSENT",
         SetPaper(r, p, row), row.status = "ACTIVE" => papers[p].status = "ACTIVE",
         p \in Known => row.version = papers[p].version,
         p \notin Known => \A q \in Known : papers[q].version # row.version,
         ~serving[r].stale /\ p \in Known =>
           /\ papers[p].status # "DRAFT" =>
                row.edited = papers[p].edited /\ row.status \notin {"ACTIVE", "DRAFT"} \ {papers[p].status}
           /\ papers[p].status # "ARCHIVED"
  PROVE  PaperInv' /\ PaperMove
<1> DEFINE rows == {p} \cup (IF papers[p].status = "ABSENT" THEN {"versions"} ELSE {})
<1>1. /\ papers' = [papers EXCEPT ![p] = row] /\ Write(r, rows, Idle)
      /\ PapersMap
  BY DEF SetPaper, PaperInv
<1>2. papers'[p] = row /\ \A q \in Papers \ {p} : papers'[q] = papers[q]
  BY <1>1 DEF PapersMap
<1>3. PapersMap'
  BY <1>1 DEF PapersMap
<1>4. Known' = Known \cup {p} /\ InForce' \subseteq InForce
  BY <1>2 DEF Known, InForce
<1>5. Shape' /\ \A q \in Slots : PaperHeld(q)'
  <2>1. Known \subseteq Known' /\ \A q \in Papers \ rows : papers'[q] = papers[q]
    BY <1>2, <1>4
  <2> QED BY <1>1, <1>4, <2>1, PapersWritten
<1>6. undisturbed' = (undisturbed /\ ~serving[r].stale)
  BY <1>1, WriteEffect, IdleSlot DEF PaperInv
<1>7. \A q \in Papers : PaperRow(papers'[q])
  BY <1>2 DEF PaperInv
<1>8. \A q, t \in Known' : papers'[q].version = papers'[t].version => q = t
  BY <1>2, <1>4 DEF PaperInv, Known
<1>9. undisturbed' => \A q, t \in InForce' : q = t
  BY <1>4, <1>6 DEF PaperInv
<1>10. PaperMove
  BY <1>2, <1>6 DEF PaperMove, Advances, PaperInv, Known
<1> QED BY <1>3, <1>5, <1>6, <1>7, <1>8, <1>9, <1>10 DEF PaperInv, PaperRow

LEMMA PaperStep == PaperInv /\ [PapersNext]_paperVars => PaperInv' /\ PaperMove
<1> SUFFICES ASSUME PaperInv, [PapersNext]_paperVars PROVE PaperInv' /\ PaperMove
  OBVIOUS
<1>0. Shape /\ (\A q \in Slots : PaperHeld(q)) /\ \A p \in Papers : PaperRow(papers[p])
  BY DEF PaperInv
<1>1. ASSUME NEW r \in Slots, PaperCreateRead(r) PROVE PaperInv' /\ PaperMove
  <2>1. PICK args : Continue(r, "paper.create", args, {"versions"}) /\ UNCHANGED papers
    BY <1>1 DEF PaperCreateRead
  <2>2. PaperHeld(r)'
    BY <1>0, <2>1, ContinueEffect DEF PaperHeld, At
  <2> QED BY <1>0, <2>1, <2>2, ContinueEffect, PaperReads
<1>2. ASSUME NEW r \in Slots, NEW p \in Papers, PaperCreate(r, p) PROVE PaperInv' /\ PaperMove
  <2>1. PICK row : row = [status |-> "DRAFT", version |-> Args(r)[1], edited |-> FALSE]
    OBVIOUS
  <2>2. SetPaper(r, p, row) /\ p \notin Known /\ \A q \in Known : papers[q].version # row.version
    BY <1>2, <2>1 DEF PaperCreate
  <2>3. PaperRow(row) /\ row.status = "DRAFT"
    BY <2>1 DEF PaperRow, PaperStatus
  <2> QED BY <2>2, <2>3, PaperSet
<1>3. ASSUME NEW r \in Slots, NEW p \in Papers, NEW step \in {"paper.update", "paper.supersede", "paper.archive"},
             PaperRead(r, p, step)
      PROVE  PaperInv' /\ PaperMove
  <2>1. /\ Continue(r, step, <<p>>, {p}) /\ UNCHANGED papers /\ p \in Known
        /\ step = "paper.archive" => papers[p].status # "ARCHIVED"
        /\ step # "paper.archive" => papers[p].status = "DRAFT"
    BY <1>3 DEF PaperRead
  <2>2. /\ serving'[r].step = step /\ serving'[r].args = <<p>> /\ p \in serving'[r].on /\ Known' = Known
    BY <1>0, <2>1, ContinueEffect, ContinueHolds DEF Known
  <2>3. (p \in Known /\ p \in serving[r].on)' /\ papers'[p] = papers[p]
    BY <2>1, <2>2
  <2>4. serving'[r].args[1] = p
    BY <2>2
  <2>5. PaperHeld(r)'
    BY <2>1, <2>2, <2>3, <2>4 DEF PaperHeld, At, Args
  <2> QED BY <1>0, <2>1, <2>5, ContinueEffect, PaperReads
<1>4. ASSUME NEW r \in Slots, Supersede(r) PROVE PaperInv' /\ PaperMove
  <2>1. /\ Continue(r, "paper.activate", <<Args(r)[1], InForce>>, {"in force"}) /\ UNCHANGED papers
        /\ serving[r].step = "paper.supersede"
    BY <1>4 DEF Supersede, At
  <2>2. /\ serving'[r].step = "paper.activate" /\ serving'[r].args = <<Args(r)[1], InForce>>
        /\ serving'[r].on = serving[r].on \cup {"in force"} /\ serving'[r].stale = serving[r].stale
        /\ Known' = Known /\ InForce' = InForce
    BY <1>0, <2>1, ContinueEffect, ContinueHolds DEF Known, InForce
  <2>3. PICK p, S : p = Args(r)[1] /\ S = InForce
    OBVIOUS
  <2>4. serving'[r].args[1] = p /\ serving'[r].args[2] = S
    <3>1. serving'[r].args = <<p, S>>
      BY <2>2, <2>3
    <3> QED BY <3>1
  <2>5. p \in Known /\ p \in serving[r].on /\ (~serving[r].stale => papers[p].status = "DRAFT")
    BY <1>0, <2>1, <2>3 DEF PaperHeld
  <2>6. PaperHeld(r)'
    BY <2>1, <2>2, <2>3, <2>4, <2>5 DEF PaperHeld, At, Args
  <2> QED BY <1>0, <2>1, <2>6, ContinueEffect, PaperReads
<1>5. ASSUME NEW r \in Slots, PaperUpdate(r) PROVE PaperInv' /\ PaperMove
  <2>1. PICK p \in Papers : p = Args(r)[1] /\ p \in Known /\ (~serving[r].stale => papers[p].status = "DRAFT")
    BY <1>0, <1>5 DEF PaperUpdate, At, PaperHeld, Known
  <2>2. PICK row : row = [status |-> papers[p].status, version |-> papers[p].version, edited |-> TRUE]
    OBVIOUS
  <2>3. row = [papers[p] EXCEPT !.edited = TRUE]
    BY <1>0, <2>2, PaperFields
  <2>4. SetPaper(r, p, row)
    BY <1>5, <2>1, <2>3 DEF PaperUpdate
  <2>5. PaperRow(row) /\ row.status = papers[p].status /\ row.version = papers[p].version /\ row.status # "ABSENT"
    BY <1>0, <2>1, <2>2, PaperFields DEF PaperRow, Known
  <2> QED BY <2>1, <2>4, <2>5, PaperSet
<1>6. ASSUME NEW r \in Slots, PaperArchive(r) PROVE PaperInv' /\ PaperMove
  <2>1. PICK p \in Papers : p = Args(r)[1] /\ p \in Known /\ (~serving[r].stale => papers[p].status # "ARCHIVED")
    BY <1>0, <1>6 DEF PaperArchive, At, PaperHeld, Known
  <2>2. PICK row : row = [status |-> "ARCHIVED", version |-> papers[p].version, edited |-> papers[p].edited]
    OBVIOUS
  <2>3. row = [papers[p] EXCEPT !.status = "ARCHIVED"]
    BY <1>0, <2>2, PaperFields
  <2>4. SetPaper(r, p, row)
    BY <1>6, <2>1, <2>3 DEF PaperArchive
  <2>5. PaperRow(row) /\ row.status = "ARCHIVED" /\ row.version = papers[p].version /\ row.edited = papers[p].edited
    BY <2>2 DEF PaperRow, PaperStatus
  <2> QED BY <2>1, <2>4, <2>5, PaperSet
<1>7. ASSUME NEW r \in Slots, SyncWrite(r) PROVE PaperInv' /\ PaperMove
  <2>1. PICK p \in Papers : p = Args(r)[1] /\ p \in Known /\ (~serving[r].stale => papers[p].status = "ACTIVE")
    BY <1>0, <1>7 DEF SyncWrite, At, PaperHeld, Known
  <2>2. PICK row : row = [status |-> "EXPIRED", version |-> papers[p].version, edited |-> papers[p].edited]
    OBVIOUS
  <2>3. row = [papers[p] EXCEPT !.status = "EXPIRED"]
    BY <1>0, <2>2, PaperFields
  <2>4. SetPaper(r, p, row)
    BY <1>7, <2>1, <2>3 DEF SyncWrite
  <2>5. PaperRow(row) /\ row.status = "EXPIRED" /\ row.version = papers[p].version /\ row.edited = papers[p].edited
    BY <2>2 DEF PaperRow, PaperStatus
  <2> QED BY <2>1, <2>4, <2>5, PaperSet
<1>8. ASSUME NEW r \in Slots, NEW p \in Papers, SyncRead(r, p) PROVE PaperInv' /\ PaperMove
  <2>1. Continue(r, "paper.expire", <<p>>, {p}) /\ UNCHANGED papers /\ p \in Known /\ papers[p].status = "ACTIVE"
    BY <1>8 DEF SyncRead, InForce, Known
  <2>2. /\ serving'[r].step = "paper.expire" /\ serving'[r].args = <<p>> /\ p \in serving'[r].on /\ Known' = Known
    BY <1>0, <2>1, ContinueEffect, ContinueHolds DEF Known
  <2>3. PaperHeld(r)'
    BY <2>1, <2>2 DEF PaperHeld, At, Args
  <2> QED BY <1>0, <2>1, <2>3, ContinueEffect, PaperReads
<1>9. ASSUME NEW r \in Slots, NEW S \in SUBSET Papers, SweepPapers(r, S) PROVE PaperInv' /\ PaperMove
  <2>1. /\ S \subseteq InForce /\ Put(r, S, Idle)
        /\ papers' = [p \in Papers |-> IF p \in S THEN [papers[p] EXCEPT !.status = "EXPIRED"] ELSE papers[p]]
    BY <1>9 DEF SweepPapers
  <2>2. \A p \in S : papers'[p] = [status |-> "EXPIRED", version |-> papers[p].version, edited |-> papers[p].edited]
    BY <1>0, <2>1, PaperFields DEF InForce
  <2>3. \A p \in Papers \ S : papers'[p] = papers[p]
    BY <2>1
  <2>4. Known' = Known /\ InForce' \subseteq InForce
    BY <2>1, <2>2, <2>3 DEF Known, InForce
  <2>5. Shape' /\ \A q \in Slots : PaperHeld(q)'
    BY <2>1, <2>3, <2>4, PapersWritten
  <2>6. undisturbed' = undisturbed
    BY <1>0, <2>1, PutEffect, IdleSlot
  <2>7. \A p \in Papers : PaperRow(papers'[p]) /\ papers'[p].version = papers[p].version
    <3>1. ASSUME NEW p \in S PROVE PaperRow(papers'[p]) /\ papers'[p].version = papers[p].version
      <4>1. PICK v, e : v = papers[p].version /\ e = papers[p].edited
        OBVIOUS
      <4>2. papers'[p] = [status |-> "EXPIRED", version |-> v, edited |-> e] /\ "EXPIRED" \in PaperStatus
        BY <2>2, <4>1 DEF PaperStatus
      <4> QED BY <4>1, <4>2, PaperMade
    <3> QED BY <1>0, <2>3, <3>1
  <2>8. PaperMove
    BY <2>1, <2>2, <2>3 DEF PaperMove, Advances, InForce, Known
  <2>9. PapersMap'
    BY <2>1 DEF PapersMap
  <2>10. \A p, q \in Known' : papers'[p].version = papers'[q].version => p = q
    BY <2>4, <2>7 DEF PaperInv, Known
  <2>11. undisturbed' => \A p, q \in InForce' : p = q
    BY <2>4, <2>6 DEF PaperInv
  <2> QED BY <2>5, <2>6, <2>7, <2>8, <2>9, <2>10, <2>11 DEF PaperInv, PaperRow
<1>10. ASSUME NEW r \in Slots, Activate(r) PROVE PaperInv' /\ PaperMove
  <2>1. PICK p \in Papers : /\ p = Args(r)[1] /\ p \in Known
                            /\ ~serving[r].stale => papers[p].status = "DRAFT" /\ InForce \subseteq Args(r)[2]
    BY <1>0, <1>10 DEF Activate, At, PaperHeld, Known
  <2> DEFINE old == (Args(r)[2] \cap InForce) \ {p}
  <2>2. /\ Write(r, {p, "in force"} \cup old, Idle)
        /\ papers' = [q \in Papers |-> CASE q = p -> [papers[q] EXCEPT !.status = "ACTIVE"]
                                          [] q \in old -> [papers[q] EXCEPT !.status = "SUPERSEDED"]
                                          [] OTHER -> papers[q]]
    BY <1>10, <2>1 DEF Activate
  <2>3. papers'[p] = [status |-> "ACTIVE", version |-> papers[p].version, edited |-> papers[p].edited]
    BY <1>0, <2>2, PaperFields
  <2>4. ASSUME NEW q \in old
        PROVE  papers'[q] = [status |-> "SUPERSEDED", version |-> papers[q].version, edited |-> papers[q].edited]
    <3>1. q \in Papers /\ q # p
      BY DEF InForce
    <3>2. papers'[q] = [papers[q] EXCEPT !.status = "SUPERSEDED"]
      BY <2>2, <2>4, <3>1
    <3> QED BY <1>0, <3>1, <3>2, PaperFields
  <2>5. \A q \in Papers \ ({p} \cup old) : papers'[q] = papers[q]
    BY <2>2
  <2>6. old \subseteq InForce /\ p \notin old /\ old \subseteq Papers
    BY DEF InForce
  <2>7. PapersMap'
    BY <2>2 DEF PapersMap
  <2>8. undisturbed' = (undisturbed /\ ~serving[r].stale)
    BY <1>0, <2>2, WriteEffect, IdleSlot
  <2>9. ~serving[r].stale => papers[p].status = "DRAFT" /\ InForce \ {p} \subseteq old
    BY <2>1
  <2> HIDE DEF old
  <2>17. /\ PaperRow(papers'[p]) /\ papers'[p].status = "ACTIVE" /\ papers'[p].edited = papers[p].edited
         /\ papers'[p].version = papers[p].version
    BY <2>3, PaperMade DEF PaperStatus
  <2>18. ASSUME NEW q \in old
         PROVE  /\ PaperRow(papers'[q]) /\ papers'[q].status = "SUPERSEDED" /\ papers'[q].edited = papers[q].edited
                /\ papers'[q].version = papers[q].version /\ papers[q].status = "ACTIVE"
    <3>1. PICK v, e : v = papers[q].version /\ e = papers[q].edited
      OBVIOUS
    <3>2. papers'[q] = [status |-> "SUPERSEDED", version |-> v, edited |-> e] /\ "SUPERSEDED" \in PaperStatus
      BY <2>4, <2>18, <3>1 DEF PaperStatus
    <3>3. papers[q].status = "ACTIVE"
      BY <2>6, <2>18 DEF InForce
    <3> QED BY <3>1, <3>2, <3>3, PaperMade
  <2>10. Known' = Known
    <3>1. \A q \in Papers : papers'[q].status = "ABSENT" <=> papers[q].status = "ABSENT"
      BY <2>1, <2>5, <2>17, <2>18 DEF Known
    <3> QED BY <3>1 DEF Known
  <2>11. Shape' /\ \A q \in Slots : PaperHeld(q)'
    <3>1. PICK rows : rows = {p, "in force"} \cup old
      OBVIOUS
    <3>2. "in force" \in rows /\ \A q \in Papers \ rows : papers'[q] = papers[q]
      BY <2>5, <3>1
    <3> QED BY <2>2, <2>10, <3>1, <3>2, PapersWritten
  <2>12. \A q \in Papers : PaperRow(papers'[q]) /\ papers'[q].version = papers[q].version
    BY <1>0, <2>5, <2>17, <2>18
  <2>13. ~serving[r].stale => InForce' \subseteq {p}
    BY <2>5, <2>9, <2>18 DEF InForce
  <2>14. PaperMove
    <3> SUFFICES ASSUME ~serving[r].stale, NEW q \in Known PROVE Advances(q)
      BY <2>8 DEF PaperMove
    <3>1. CASE q = p
      BY <2>9, <3>1 DEF Advances
    <3>2. CASE q \in old
      BY <2>18, <3>2 DEF Advances
    <3>3. CASE q \notin {p} \cup old
      BY <2>5, <3>3 DEF Advances, Known
    <3> QED BY <3>1, <3>2, <3>3
  <2>15. \A q, t \in Known' : papers'[q].version = papers'[t].version => q = t
    BY <2>10, <2>12 DEF PaperInv, Known
  <2>16. undisturbed' => \A q, t \in InForce' : q = t
    BY <2>8, <2>13
  <2> QED BY <2>7, <2>8, <2>11, <2>12, <2>14, <2>15, <2>16 DEF PaperInv, PaperRow
<1>11. ASSUME NEW r \in Slots, Dies(r), UNCHANGED papers PROVE PaperInv' /\ PaperMove
  BY <1>0, <1>11, ReturnEffect, PaperIdle, PaperReads DEF Dies
<1>12. CASE UNCHANGED paperVars
  <2>1. UNCHANGED <<serving, undisturbed, papers>>
    BY <1>12 DEF paperVars, handlerVars
  <2>2. Shape' /\ \A q \in Slots : PaperHeld(q)'
    BY <1>0, <2>1, PaperSame, ShapeStays DEF handlerVars
  <2> QED BY <2>1, <2>2 DEF PaperInv, PapersMap, PaperRow, Known, InForce, PaperMove, Advances
<1> QED BY <1>1, <1>2, <1>3, <1>4, <1>5, <1>6, <1>7, <1>8, <1>9, <1>10, <1>11, <1>12 DEF PapersNext

\* PartnerDocumentsService: for any number of versions and of overlapping requests, what is
\* or was in force is kept as it is, and one paper at most is in force.
THEOREM PapersAreKept == PapersSpec => PapersHold
<1>1. PaperInv' => Cardinality(InForce') <= 1 \/ ~undisturbed'
  <2>0. 0 <= 1 /\ 1 <= 1
    OBVIOUS
  <2> SUFFICES ASSUME PaperInv', undisturbed' PROVE Cardinality(InForce') <= 1
    OBVIOUS
  <2>1. CASE InForce' = {}
    BY <2>0, <2>1, FS_EmptySet
  <2>2. ASSUME NEW p \in InForce' PROVE Cardinality(InForce') <= 1
    <3>1. InForce' = {p}
      BY <2>2 DEF PaperInv
    <3>2. Cardinality(InForce') = 1
      BY <3>1, FS_Singleton
    <3> QED BY <2>0, <3>2
  <2> QED BY <2>1, <2>2
<1>2. PaperInv /\ [PapersNext]_paperVars =>
        [/\ \A p, q \in Known' : papers'[p].version = papers'[q].version => p = q
         /\ undisturbed' =>
              /\ Cardinality(InForce') <= 1
              /\ \A p \in Known :
                   /\ papers[p].status # "DRAFT" =>
                        papers'[p].edited = papers[p].edited /\ papers'[p].status \notin {"ACTIVE", "DRAFT"} \ {papers[p].status}
                   /\ papers[p].status = "ARCHIVED" => papers'[p] = papers[p]]_paperVars
  BY <1>1, PaperStep DEF PaperMove, Advances, PaperInv
<1> QED BY <1>2, PaperStart, PaperStep, PTL DEF PapersSpec, PapersHold

-----------------------------------------------------------------------------
(* Documents, and the portal that opens them to contacts                    *)

DocumentRow == [status : {"ABSENT", "DRAFT", "ARCHIVED"}, scan : {"PENDING", "CLEAN", "INFECTED"},
                previous : Files \cup {NoFile}]
ContactRow  == [status : {"NONE", "INVITED", "ACTIVE", "REVOKED"}, linked : BOOLEAN]

Grants(f)   == {f} \X Readers \X Permissions
Replaces(f) == documents[f].previous # NoFile

\* Who is invited has an invitation to accept.
InvitedCanAccept == \A c \in Contacts : contacts[c].status = "INVITED" => \E i \in Numbers : invitations[c][i] = "OPEN"

PortalRowsOK ==
  /\ documents \in [Files -> DocumentRow]
  /\ \A f \in Files : ~Stored(f) => documents[f].previous = NoFile
  /\ granted \subseteq Files \X Readers \X Permissions
  /\ contacts \in [Contacts -> ContactRow]
  /\ invitations \in [Contacts -> [Numbers -> {"NONE", "OPEN", "USED"}]]
  /\ InvitedCanAccept

\* The grants that r has still to copy from the document that f replaces, as long as nobody
\* has touched these: todo are the ones to come.
Copies(r, f, todo) ==
  ~serving[r].stale /\ Replaces(f) =>
    /\ Grants(documents[f].previous) \subseteq serving[r].on
    /\ Carried(documents[f].previous, f) \subseteq granted \cup todo

OnStored == {"document.grant", "document.enqueue", "share", "archive", "document.archive", "version",
             "version.create", "download"}

\* What the handlers of a document hold.
FileKnown(r) ==
  LET f == Args(r)[1]  fresh == ~serving[r].stale
  IN  /\ serving[r].step \in OnStored => f \in Files /\ Stored(f)
      /\ serving[r].step = "share" => Args(r)[3][1] \in Readers /\ Args(r)[3][2] \subseteq Permissions
      /\ serving[r].step \in {"version", "version.create"} => Args(r)[3] \in Files
      /\ serving[r].step = "version.grants" =>
           f \in Files /\ Args(r)[3] \in Files /\ Stored(Args(r)[3]) /\ documents[Args(r)[3]].previous = f
      /\ serving[r].step = "document.grant" =>
           /\ Args(r)[2] # {} /\ Args(r)[2] \subseteq Grants(f) /\ Args(r)[3] \in {"idle", "document.enqueue"}
           /\ Args(r)[3] = "document.enqueue" => Copies(r, f, Args(r)[2])
      /\ serving[r].step = "document.enqueue" => Copies(r, f, {})

\* What those who serve one hold: it was clean, and the grant was there.
FileServed(r) ==
  LET f == Args(r)[1]  u == Args(r)[2]  fresh == ~serving[r].stale
  IN  /\ serving[r].step \in {"download.grant", "download.read"} => f \in Files
      /\ serving[r].step \in {"download.grant", "download.read"} /\ fresh =>
           f \in serving[r].on /\ documents[f].scan = "CLEAN"
      /\ serving[r].step = "download.read" /\ fresh =>
           u \in Globals \/ (<<f, u, "DOWNLOAD">> \in serving[r].on /\ Valid(f, u, "DOWNLOAD"))

\* What an invitation holds: a contact that was not active.
ContactKnown(r) ==
  serving[r].step = "invite.commit" =>
    /\ Args(r)[1] \in Contacts
    /\ ~serving[r].stale => Args(r)[1] \in serving[r].on /\ contacts[Args(r)[1]].status # "ACTIVE"

PortalHeld(r) == FileKnown(r) /\ FileServed(r) /\ ContactKnown(r)

PortalSteps == OnStored \cup {"version.grants", "download.grant", "download.read", "invite.commit"}

PortalInv == Shape /\ PortalRowsOK /\ \A r \in Slots : PortalHeld(r)

\* Documents that are stored stay, with the one they replace, and grants stay.
PortalGrows ==
  /\ \A f \in Files : Stored(f) => Stored(f)' /\ documents'[f].previous = documents[f].previous
  /\ \A x \in granted : x \in granted'

\* What else changes is announced to those who have looked at it.
PortalAnnounced(rows) ==
  /\ \A f \in Files : f \in rows \/ documents'[f].scan = documents[f].scan
  /\ \A x \in granted' : x \in granted \/ x \in rows
  /\ \A x \in expired' : x \in expired \/ x \in rows
  /\ \A c \in Contacts : c \in rows \/ contacts'[c].status = contacts[c].status

LEMMA PortalElsewhere ==
  ASSUME NEW r \in Slots, serving'[r].step \notin PortalSteps PROVE PortalHeld(r)'
BY DEF PortalHeld, FileKnown, FileServed, ContactKnown, PortalSteps, OnStored

LEMMA PortalFollows ==
  ASSUME PortalInv, NEW r \in Slots, NEW rows, Follow(r, rows), PortalGrows, PortalAnnounced(rows), NEW q \in Slots \ {r},
         PortalRowsOK'
  PROVE  PortalHeld(q)'
<1>1. /\ PortalHeld(q) /\ Args(q)' = Args(q) /\ serving'[q].step = serving[q].step
      /\ serving'[q].on = serving[q].on
      /\ ~serving'[q].stale => ~serving[q].stale /\ serving[q].on \cap rows = {}
  BY DEF PortalInv, Follow, Keeps, Args
<1>2. PICK on, args : on = serving[q].on /\ args = Args(q)
  OBVIOUS
<1>3. ASSUME NEW f \in Files, Stored(f), NEW todo, Copies(q, f, todo) PROVE Copies(q, f, todo)'
  <2>1. PICK p : p = documents[f].previous /\ documents'[f].previous = p
    BY <1>3 DEF PortalGrows
  <2>2. SUFFICES ASSUME ~serving'[q].stale, p # NoFile
                 PROVE  Grants(p) \subseteq on /\ Carried(p, f)' \subseteq granted' \cup todo
    BY <1>1, <1>2, <2>1 DEF Copies, Replaces, Grants, Carried
  <2>3. Grants(p) \subseteq on /\ Carried(p, f) \subseteq granted \cup todo /\ on \cap rows = {}
    BY <1>1, <1>2, <1>3, <2>1, <2>2 DEF Copies, Replaces
  <2>4. \A x \in granted' : x[1] = p => x \in granted
    <3>1. SUFFICES ASSUME NEW x \in granted', x[1] = p, x \notin granted PROVE FALSE
      OBVIOUS
    <3>2. x \in rows
      BY <3>1 DEF PortalAnnounced
    <3>3. x \in Grants(p)
      BY <3>1 DEF PortalRowsOK, Grants
    <3> QED BY <2>3, <3>2, <3>3
  <2>5. Carried(p, f)' \subseteq Carried(p, f)
    BY <2>4 DEF Carried
  <2> QED BY <2>3, <2>5 DEF PortalGrows
<1>4. FileKnown(q)'
  BY <1>1, <1>3 DEF PortalHeld, FileKnown, PortalGrows, OnStored
<1>5. FileServed(q)'
  <2>1. \A f \in Files : ~serving'[q].stale /\ f \in on => documents'[f].scan = documents[f].scan
    BY <1>1, <1>2 DEF PortalAnnounced
  <2>2. \A x : ~serving'[q].stale /\ x \in on /\ x \in granted \ expired => x \in granted' \ expired'
    BY <1>1, <1>2 DEF PortalAnnounced, PortalGrows
  <2> QED BY <1>1, <1>2, <2>1, <2>2 DEF PortalHeld, FileServed, Valid
<1>6. ContactKnown(q)'
  BY <1>1, <1>2 DEF PortalHeld, ContactKnown, PortalAnnounced
<1> QED BY <1>4, <1>5, <1>6 DEF PortalHeld

\* What the properties say of a step.
VersionMove ==
  undisturbed' => \A g \in scans' \ scans : documents[g].previous # NoFile =>
                    Carried(documents[g].previous, g) \subseteq granted
DeliveryMove ==
  undisturbed' => \A x \in delivered' \ delivered :
                    documents[x[1]].scan = "CLEAN" /\ (x[2] \in Globals \/ Valid(x[1], x[2], "DOWNLOAD"))
LinkMove ==
  undisturbed' => \A c \in Contacts : contacts[c].status = "ACTIVE" /\ contacts'[c].status # "ACTIVE" =>
                    /\ contacts'[c].status = "REVOKED"
                    /\ \A x \in granted' : x[2] = Account[c] => x \in expired'
PortalMoves == VersionMove /\ DeliveryMove /\ LinkMove

LEMMA PortalRests ==
  ASSUME PortalInv, NEW r \in Slots, NEW rows, Follow(r, rows), Shape', PortalGrows, PortalAnnounced(rows),
         PortalRowsOK', PortalHeld(r)'
  PROVE  PortalInv'
BY PortalFollows DEF PortalInv

\* A step that leaves the rows alone; it may take scans back.
LEMMA PortalReads ==
  ASSUME PortalInv, NEW r \in Slots, NEW rows, Follow(r, rows), Shape', PortalHeld(r)',
         UNCHANGED <<documents, granted, expired, delivered, contacts, invitations>>, scans' \subseteq scans
  PROVE  PortalInv' /\ PortalMoves
<1>1. PortalGrows /\ PortalAnnounced(rows) /\ PortalMoves
  BY DEF PortalGrows, PortalAnnounced, Stored, PortalMoves, VersionMove, DeliveryMove, LinkMove
<1>2. PortalRowsOK'
  BY DEF PortalInv, PortalRowsOK, Stored, InvitedCanAccept
<1> QED BY <1>1, <1>2, PortalRests

LEMMA PortalInitInv == PortalInit => PortalInv
<1> SUFFICES ASSUME PortalInit PROVE PortalInv
  OBVIOUS
<1>1. Shape /\ \A q \in Slots : serving[q] = Idle
  BY HandlersInitShape DEF PortalInit, DocumentInit
<1>2. PortalRowsOK
  <2>1. NoDocument \in DocumentRow
    BY DEF NoDocument, DocumentRow
  <2> QED BY <2>1 DEF PortalInit, DocumentInit, PortalRowsOK, NoDocument, ContactRow, Stored, InvitedCanAccept
<1>3. Idle.step \notin PortalSteps
  BY DEF Idle, PortalSteps, OnStored
<1> QED BY <1>1, <1>2, <1>3 DEF PortalInv, PortalHeld, FileKnown, FileServed, ContactKnown, PortalSteps, OnStored

\* What a handler is that has grants to upsert.
LEMMA GrantingEffect ==
  ASSUME NEW r \in Slots, Slot(serving[r]), NEW f, NEW todo, NEW next, NEW h, h = Granting(r, f, todo, next)
  PROVE  /\ Slot(h)
         /\ \/ h = Idle /\ next = "idle"
            \/ /\ h.step = IF todo = {} THEN next ELSE "document.grant"
               /\ h.args = <<f, todo, next>> /\ h.on = serving[r].on /\ h.stale = serving[r].stale
               /\ todo = {} => next # "idle"
<1>1. CASE todo = {} /\ next = "idle"
  BY <1>1, IdleSlot DEF Granting
<1>2. CASE ~(todo = {} /\ next = "idle")
  <2>1. PICK s : s = IF todo = {} THEN next ELSE "document.grant"
    OBVIOUS
  <2>2. h = [serving[r] EXCEPT !.step = s, !.args = <<f, todo, next>>]
    BY <1>2, <2>1 DEF Granting
  <2>3. PICK on, stale : on = serving[r].on /\ stale = serving[r].stale
    OBVIOUS
  <2>4. h = [step |-> s, args |-> <<f, todo, next>>, on |-> on, stale |-> stale]
    <3>1. PICK old, a, b : old = serving[r] /\ a = old.step /\ b = old.args
      OBVIOUS
    <3>2. old = [step |-> a, args |-> b, on |-> on, stale |-> stale]
      BY <2>3, <3>1 DEF Slot
    <3>3. h = [old EXCEPT !.step = s, !.args = <<f, todo, next>>]
      BY <2>2, <3>1
    <3> QED BY <3>2, <3>3
  <2> QED BY <1>2, <2>1, <2>3, <2>4 DEF Slot
<1> QED BY <1>1, <1>2

\* A handler that is left granting, its copies in place or to come.
LEMMA GrantingHeld ==
  ASSUME NEW r \in Slots, Slot(serving[r]), NEW f \in Files, NEW todo, NEW next \in {"idle", "document.enqueue"},
         serving'[r] = Granting(r, f, todo, next), Stored(f)', todo \subseteq Grants(f),
         next = "document.enqueue" => Copies(r, f, todo)'
  PROVE  PortalHeld(r)'
<1>1. \/ serving'[r] = Idle
      \/ serving'[r].step = (IF todo = {} THEN next ELSE "document.grant") /\ Args(r)' = <<f, todo, next>>
         /\ (todo = {} => next # "idle")
  BY GrantingEffect DEF Args
<1>2. CASE serving'[r] = Idle
  BY <1>2, PortalElsewhere DEF Idle, PortalSteps, OnStored
<1>3. CASE serving'[r].step = "document.grant" /\ Args(r)' = <<f, todo, next>> /\ todo # {}
  BY <1>3 DEF PortalHeld, FileKnown, FileServed, ContactKnown, OnStored, Grants
<1>4. CASE serving'[r].step = "document.enqueue" /\ Args(r)' = <<f, {}, next>> /\ next = "document.enqueue" /\ todo = {}
  BY <1>4 DEF PortalHeld, FileKnown, FileServed, ContactKnown, OnStored
<1> QED BY <1>1, <1>2, <1>3, <1>4

\* The requests that read and go on.
LEMMA PortalReadStep ==
  ASSUME PortalInv, NEW r \in Slots, UNCHANGED contactRows,
         \/ \E f \in Files, u \in Readers :
              \/ FollowLink(r, f, u)
              \/ \E op \in {"archive", "download"} : Check(r, u, op, f, NoFile)
              \/ \E g \in Files : Check(r, u, "version", f, g)
              \/ \E v \in Readers, P \in (SUBSET {"VIEW", "DOWNLOAD"}) \ {{}} : Check(r, u, "share", f, <<v, P>>)
         \/ \E f \in Files : RoleAccess(r, f) \/ ScanStart(r, f)
         \/ ArchiveRead(r) \/ VersionOf(r) \/ VersionGrants(r) \/ LinkGrant(r)
  PROVE  PortalInv' /\ PortalMoves
<1>0. Shape /\ PortalRowsOK /\ PortalHeld(r)
  BY DEF PortalInv
<1>1. Return(r) \/ \E step, args, rows : Continue(r, step, args, rows)
  BY DEF FollowLink, Check, RoleAccess, ScanStart, ArchiveRead, VersionOf, VersionGrants, LinkGrant
<1>2. Follow(r, {}) /\ Shape'
  BY <1>0, <1>1, ReadsFollow
<1>3. UNCHANGED <<documents, granted, expired, scans, delivered, contacts, invitations>>
  BY DEF FollowLink, Check, RoleAccess, ScanStart, ArchiveRead, VersionOf, VersionGrants, LinkGrant, documentRows, contactRows
<1>4. SUFFICES PortalHeld(r)'
  BY <1>2, <1>3, PortalReads
<1>5. ASSUME NEW step, NEW args, NEW rows, Continue(r, step, args, rows)
      PROVE  /\ serving'[r].step = step /\ Args(r)' = args /\ serving'[r].on = serving[r].on \cup rows
             /\ serving'[r].stale = serving[r].stale
  BY <1>0, <1>5, ContinueEffect, ContinueHolds DEF Args
<1>6. \A f : Stored(f)' <=> Stored(f)
  BY <1>3 DEF Stored
<1>7. ASSUME NEW f \in Files, NEW u \in Readers, FollowLink(r, f, u) PROVE PortalHeld(r)'
  <2>1. /\ serving'[r].step = "download.grant" /\ Args(r)' = <<f, u>> /\ f \in serving'[r].on
        /\ documents[f].scan = "CLEAN"
    BY <1>5, <1>7 DEF FollowLink
  <2> QED BY <1>3, <2>1 DEF PortalHeld, FileKnown, FileServed, ContactKnown, OnStored
<1>8. ASSUME NEW f \in Files, NEW u \in Readers, NEW op \in {"archive", "download", "version", "share"}, NEW with,
             Check(r, u, op, f, with), op = "version" => with \in Files,
             op = "share" => with[1] \in Readers /\ with[2] \subseteq Permissions
      PROVE  PortalHeld(r)'
  <2>1. serving'[r].step = op /\ Args(r)' = <<f, u, with>> /\ Stored(f)
    BY <1>5, <1>8 DEF Check
  <2> QED BY <1>6, <1>8, <2>1 DEF PortalHeld, FileKnown, FileServed, ContactKnown, OnStored
<1>9. ASSUME NEW f \in Files, RoleAccess(r, f) PROVE PortalHeld(r)'
  <2>1. PICK todo : todo = {f} \X Viewers \X {"VIEW", "DOWNLOAD"}
    OBVIOUS
  <2>2. /\ serving'[r].step = "document.grant" /\ Args(r)' = <<f, todo, "idle">> /\ Stored(f) /\ Viewers # {}
    BY <1>5, <1>9, <2>1 DEF RoleAccess
  <2>3. todo \subseteq Grants(f) /\ todo # {}
    <3>1. PICK v \in Viewers : TRUE
      BY <2>2
    <3>2. <<f, v, "VIEW">> \in todo
      BY <2>1, <3>1
    <3>3. Viewers \subseteq Readers /\ {"VIEW", "DOWNLOAD"} \subseteq Permissions
      BY FilesAssumption DEF Permissions
    <3> QED BY <2>1, <3>2, <3>3 DEF Grants
  <2> QED BY <1>6, <2>2, <2>3 DEF PortalHeld, FileKnown, FileServed, ContactKnown, OnStored, Grants
<1>10. ASSUME NEW f \in Files, ScanStart(r, f) PROVE PortalHeld(r)'
  BY <1>5, <1>10, PortalElsewhere DEF ScanStart, PortalSteps, OnStored
<1>11. CASE ArchiveRead(r)
  <2>1. CASE Return(r)
    BY <1>0, <2>1, ReturnEffect, PortalElsewhere DEF Idle, PortalSteps, OnStored
  <2>2. CASE Continue(r, "document.archive", Args(r), {Args(r)[1]})
    <3>1. /\ serving[r].step = "archive" /\ serving'[r].step = "document.archive" /\ Args(r)' = Args(r)
      BY <1>5, <1>11, <2>2 DEF ArchiveRead, At
    <3>2. Args(r)[1] \in Files /\ Stored(Args(r)[1])
      BY <1>0, <3>1 DEF PortalHeld, FileKnown, OnStored
    <3> QED BY <1>6, <3>1, <3>2 DEF PortalHeld, FileKnown, FileServed, ContactKnown, OnStored
  <2> QED BY <1>11, <2>1, <2>2 DEF ArchiveRead
<1>12. CASE VersionOf(r)
  <2>1. /\ serving[r].step = "version" /\ serving'[r].step = "version.create" /\ Args(r)' = Args(r)
    BY <1>5, <1>12 DEF VersionOf, At
  <2>2. Args(r)[1] \in Files /\ Stored(Args(r)[1]) /\ Args(r)[3] \in Files
    BY <1>0, <2>1 DEF PortalHeld, FileKnown, OnStored
  <2> QED BY <1>6, <2>1, <2>2 DEF PortalHeld, FileKnown, FileServed, ContactKnown, OnStored
<1>13. CASE VersionGrants(r)
  <2>0. serving[r].step = "version.grants"
    BY <1>13 DEF VersionGrants, At
  <2>1. PICK f \in Files, g \in Files : f = Args(r)[1] /\ g = Args(r)[3] /\ Stored(g) /\ documents[g].previous = f
    BY <1>0, <2>0 DEF PortalHeld, FileKnown
  <2>2. PICK todo : todo = Carried(f, g)
    OBVIOUS
  <2>3. PICK h : h = Granting(r, g, todo, "document.enqueue")
    OBVIOUS
  <2>4. h.step = (IF todo = {} THEN "document.enqueue" ELSE "document.grant") /\ h.args = <<g, todo, "document.enqueue">>
    BY <1>0, <2>3, GrantingEffect DEF Shape
  <2>5. Continue(r, h.step, h.args, {f} \X Readers \X Permissions)
    BY <1>13, <2>1, <2>2, <2>3 DEF VersionGrants
  <2>6. serving'[r].step = h.step /\ Args(r)' = h.args /\ Grants(f) \subseteq serving'[r].on
    BY <1>5, <2>5 DEF Grants
  <2>7. todo \subseteq Grants(g)
    BY <1>0, <2>2 DEF PortalRowsOK, Carried, Grants
  <2>8. Copies(r, g, todo)'
    BY <1>3, <2>1, <2>2, <2>6 DEF Copies, Grants, Carried
  <2>9. Stored(g)'
    BY <1>6, <2>1
  <2>10. CASE todo = {}
    BY <2>4, <2>6, <2>8, <2>9, <2>10 DEF PortalHeld, FileKnown, FileServed, ContactKnown, OnStored
  <2>11. CASE todo # {}
    BY <2>4, <2>6, <2>7, <2>8, <2>9, <2>11 DEF PortalHeld, FileKnown, FileServed, ContactKnown, OnStored, Grants
  <2> QED BY <2>10, <2>11
<1>14. CASE LinkGrant(r)
  <2>1. PICK f, u : f = Args(r)[1] /\ u = Args(r)[2]
    OBVIOUS
  <2>2. /\ serving[r].step = "download.grant" /\ serving'[r].step = "download.read" /\ Args(r)' = <<f, u>>
        /\ u \in Globals \/ Valid(f, u, "DOWNLOAD")
        /\ u \notin Globals => <<f, u, "DOWNLOAD">> \in serving'[r].on
        /\ serving[r].on \subseteq serving'[r].on /\ serving'[r].stale = serving[r].stale
    BY <1>5, <1>14, <2>1 DEF LinkGrant, At
  <2>3. f \in Files /\ (~serving[r].stale => f \in serving[r].on /\ documents[f].scan = "CLEAN")
    BY <1>0, <2>1, <2>2 DEF PortalHeld, FileServed
  <2>4. Valid(f, u, "DOWNLOAD")' <=> Valid(f, u, "DOWNLOAD")
    BY <1>3 DEF Valid
  <2> QED BY <1>3, <2>2, <2>3, <2>4 DEF PortalHeld, FileKnown, FileServed, ContactKnown, OnStored, Valid
<1> QED BY <1>7, <1>8, <1>9, <1>10, <1>11, <1>12, <1>13, <1>14 DEF Permissions

\* A row of a document that keeps status and predecessor, or is new.
LEMMA DocumentSet ==
  ASSUME PortalRowsOK, NEW f \in Files, NEW row \in DocumentRow, documents' = [documents EXCEPT ![f] = row],
         row.status # "ABSENT", Stored(f) => row.previous = documents[f].previous
  PROVE  /\ documents' \in [Files -> DocumentRow] /\ documents'[f] = row
         /\ \A g \in Files \ {f} : documents'[g] = documents[g]
         /\ \A g \in Files : Stored(g) => Stored(g)' /\ documents'[g].previous = documents[g].previous
         /\ \A g \in Files : ~Stored(g)' => documents'[g].previous = NoFile
<1>1. documents \in [Files -> DocumentRow]
  BY DEF PortalRowsOK
<1>2. documents' \in [Files -> DocumentRow] /\ documents'[f] = row /\ \A g \in Files \ {f} : documents'[g] = documents[g]
  BY <1>1
<1> QED BY <1>2 DEF Stored, PortalRowsOK

\* A step on the documents alone: what has to be said of the documents and the grants.
LEMMA PortalWrites ==
  ASSUME PortalInv, NEW r \in Slots, NEW rows, NEW next, Slot(next), Write(r, rows, next) \/ Put(r, rows, next),
         documents' \in [Files -> DocumentRow],
         \A f \in Files : Stored(f) => Stored(f)' /\ documents'[f].previous = documents[f].previous,
         \A f \in Files : ~Stored(f)' => documents'[f].previous = NoFile,
         \A f \in Files : f \in rows \/ documents'[f].scan = documents[f].scan,
         granted \subseteq granted', granted' \subseteq Files \X Readers \X Permissions,
         \A x \in granted' : x \in granted \/ x \in rows,
         UNCHANGED <<expired, contacts, invitations>>, VersionMove, DeliveryMove, PortalHeld(r)'
  PROVE  PortalInv' /\ PortalMoves
<1>1. Follow(r, rows) /\ Shape'
  BY WritesFollow, PutsFollow DEF PortalInv
<1>2. PortalGrows /\ PortalAnnounced(rows) /\ LinkMove
  BY DEF PortalGrows, PortalAnnounced, LinkMove
<1>3. PortalRowsOK'
  BY DEF PortalInv, PortalRowsOK, InvitedCanAccept
<1> QED BY <1>1, <1>2, <1>3, PortalRests DEF PortalMoves

LEMMA PortalWriteStep ==
  ASSUME PortalInv, NEW r \in Slots, UNCHANGED contactRows,
         \/ \E f \in Files, u \in Readers : Upload(r, f, u)
         \/ Grant(r) \/ RequestScan(r) \/ ArchiveWrite(r) \/ VersionCreate(r) \/ Deliver(r)
         \/ \E verdict \in {"CLEAN", "INFECTED"} : ScanResult(r, verdict)
  PROVE  PortalInv' /\ PortalMoves
<1>0. Shape /\ PortalRowsOK /\ PortalHeld(r)
  BY DEF PortalInv
<1>00. UNCHANGED <<contacts, invitations>>
  BY DEF contactRows
<1>1. Idle.step \notin PortalSteps /\ Slot(Idle)
  BY IdleSlot DEF Idle, PortalSteps, OnStored
<1>2. ASSUME NEW rows, NEW next, Slot(next), Write(r, rows, next) \/ Put(r, rows, next) PROVE serving'[r] = next
  BY <1>0, <1>2, WritesFollow, PutsFollow
<1>3. ASSUME NEW rows, NEW next, Slot(next), Write(r, rows, next) PROVE undisturbed' => ~serving[r].stale
  BY <1>0, <1>3, WritesFollow
<1>4. /\ documents \in [Files -> DocumentRow] /\ granted \subseteq Files \X Readers \X Permissions
      /\ \A f \in Files : ~Stored(f) => documents[f].previous = NoFile
  BY <1>0 DEF PortalRowsOK
<1>5. ASSUME NEW f \in Files, NEW u \in Readers, Upload(r, f, u) PROVE PortalInv' /\ PortalMoves
  <2>1. PICK row : row = [documents[f] EXCEPT !.status = "DRAFT"]
    OBVIOUS
  <2>2. PICK todo : todo = {f} \X {u} \X Permissions
    OBVIOUS
  <2>3. PICK next : next = Granting(r, f, todo, "document.enqueue")
    OBVIOUS
  <2>4. PICK rows : rows = {f}
    OBVIOUS
  <2>5. /\ ~Stored(f) /\ documents' = [documents EXCEPT ![f] = row] /\ Put(r, rows, next)
        /\ UNCHANGED <<granted, expired, scans, delivered>>
    BY <1>5, <2>1, <2>2, <2>3, <2>4 DEF Upload
  <2>6. row \in DocumentRow /\ row.status = "DRAFT" /\ row.previous = NoFile
    BY <1>4, <2>1, <2>5 DEF DocumentRow
  <2>7. /\ documents' \in [Files -> DocumentRow] /\ documents'[f] = row
        /\ \A g \in Files \ {f} : documents'[g] = documents[g]
        /\ \A g \in Files : Stored(g) => Stored(g)' /\ documents'[g].previous = documents[g].previous
        /\ \A g \in Files : ~Stored(g)' => documents'[g].previous = NoFile
    BY <1>0, <2>5, <2>6, DocumentSet
  <2>8. Slot(next)
    BY <1>0, <2>3, GrantingEffect DEF Shape
  <2>9. serving'[r] = next
    BY <1>2, <2>5, <2>8
  <2>10. todo \subseteq Grants(f) /\ Stored(f)' /\ Copies(r, f, todo)'
    BY <2>2, <2>6, <2>7 DEF Grants, Stored, Copies, Replaces
  <2>11. PortalHeld(r)'
    BY <1>0, <2>3, <2>9, <2>10, GrantingHeld DEF Shape
  <2>12. VersionMove /\ DeliveryMove
    BY <2>5 DEF VersionMove, DeliveryMove
  <2> QED BY <1>00, <1>4, <2>4, <2>5, <2>7, <2>8, <2>11, <2>12, PortalWrites
<1>6. CASE Grant(r)
  <2>0. serving[r].step = "document.grant"
    BY <1>6 DEF Grant, At
  <2>00. Args(r)[1] \in Files /\ Args(r)[3] \in {"idle", "document.enqueue"}
    BY <1>0, <2>0 DEF PortalHeld, FileKnown, OnStored
  <2>000. PICK f \in Files, after \in {"idle", "document.enqueue"} : f = Args(r)[1] /\ after = Args(r)[3]
    BY <2>00
  <2>0000. PICK todo : todo = Args(r)[2]
    OBVIOUS
  <2>1. f = Args(r)[1] /\ todo = Args(r)[2] /\ after = Args(r)[3]
    BY <2>000, <2>0000
  <2>2. /\ todo # {} /\ todo \subseteq Grants(f) /\ Stored(f)
        /\ after = "document.enqueue" => Copies(r, f, todo)
    BY <1>0, <2>0, <2>1 DEF PortalHeld, FileKnown, OnStored
  <2>3. PICK g \in todo : g = CHOOSE x \in todo : TRUE
    BY <2>2
  <2>4. PICK left, rows : left = todo \ {g} /\ rows = {g} \ granted
    OBVIOUS
  <2>5. PICK next : next = Granting(r, f, left, after)
    OBVIOUS
  <2>6. /\ granted' = granted \cup {g} /\ Write(r, rows, next)
        /\ UNCHANGED <<documents, expired, scans, delivered>>
    BY <1>6, <2>1, <2>3, <2>4, <2>5 DEF Grant
  <2>7. Slot(next) /\ (next = Idle \/ (next.on = serving[r].on /\ next.stale = serving[r].stale))
    BY <1>0, <2>5, GrantingEffect DEF Shape
  <2>8. serving'[r] = next
    BY <1>2, <2>6, <2>7
  <2>9. g[1] = f /\ g \in Files \X Readers \X Permissions /\ <<f, g[2], g[3]>> = g /\ left \subseteq Grants(f)
    BY <2>2, <2>3, <2>4 DEF Grants
  <2>10. Stored(f)'
    BY <2>2, <2>6 DEF Stored
  <2>11. ASSUME after = "document.enqueue" PROVE Copies(r, f, left)'
    <3>1. next.on = serving[r].on /\ next.stale = serving[r].stale
      BY <1>0, <2>5, <2>11, GrantingEffect DEF Shape
    <3>2. PICK p : p = documents[f].previous /\ documents'[f].previous = p
      BY <2>6
    <3>3. \A x \in Carried(p, f)' : x \in Carried(p, f) \/ x = g
      <4>1. \A x \in granted' : x \in granted \/ x = g
        BY <2>6
      <4> QED BY <2>9, <4>1 DEF Carried
    <3>4. ~serving[r].stale /\ p # NoFile => Grants(p) \subseteq serving[r].on /\ Carried(p, f) \subseteq granted \cup todo
      BY <2>2, <2>11, <3>2 DEF Copies, Replaces
    <3>5. ~serving[r].stale /\ p # NoFile => Carried(p, f)' \subseteq granted' \cup left
      BY <2>4, <2>6, <3>3, <3>4
    <3> QED BY <2>8, <3>1, <3>2, <3>4, <3>5 DEF Copies, Replaces, Grants, Carried
  <2>12. PortalHeld(r)'
    BY <1>0, <2>5, <2>8, <2>9, <2>10, <2>11, GrantingHeld DEF Shape
  <2>13. VersionMove /\ DeliveryMove
    BY <2>6 DEF VersionMove, DeliveryMove
  <2>14. granted' \subseteq Files \X Readers \X Permissions /\ \A x \in granted' : x \in granted \/ x \in rows
    BY <1>4, <2>4, <2>6, <2>9
  <2>15. \A h \in Files : Stored(h)' <=> Stored(h)
    BY <2>6 DEF Stored
  <2> QED BY <1>00, <1>4, <2>6, <2>7, <2>12, <2>13, <2>14, <2>15, PortalWrites
<1>7. CASE RequestScan(r)
  <2>0. serving[r].step = "document.enqueue"
    BY <1>7 DEF RequestScan, At
  <2>1. PICK f \in Files : f = Args(r)[1] /\ Copies(r, f, {})
    BY <1>0, <2>0 DEF PortalHeld, FileKnown, OnStored
  <2>2. PICK rows : rows = {}
    OBVIOUS
  <2>3. scans' = scans \cup {f} /\ Write(r, rows, Idle) /\ UNCHANGED <<documents, granted, expired, delivered>>
    BY <1>7, <2>1, <2>2 DEF RequestScan
  <2>4. undisturbed' => ~serving[r].stale
    BY <1>1, <1>3, <2>3
  <2>5. VersionMove /\ DeliveryMove
    BY <2>1, <2>3, <2>4 DEF VersionMove, DeliveryMove, Copies, Replaces
  <2>6. PortalHeld(r)'
    BY <1>1, <1>2, <2>3, PortalElsewhere
  <2>7. \A h \in Files : Stored(h)' <=> Stored(h)
    BY <2>3 DEF Stored
  <2> QED BY <1>00, <1>1, <1>4, <2>3, <2>5, <2>6, <2>7, PortalWrites
<1>8. CASE ArchiveWrite(r)
  <2>0. serving[r].step = "document.archive"
    BY <1>8 DEF ArchiveWrite, At
  <2>1. PICK f \in Files : f = Args(r)[1]
    BY <1>0, <2>0 DEF PortalHeld, FileKnown, OnStored
  <2>2. PICK row, rows : row = [documents[f] EXCEPT !.status = "ARCHIVED"] /\ rows = {f}
    OBVIOUS
  <2>3. documents' = [documents EXCEPT ![f] = row] /\ Write(r, rows, Idle) /\ UNCHANGED <<granted, expired, scans, delivered>>
    BY <1>8, <2>1, <2>2 DEF ArchiveWrite
  <2>4. row \in DocumentRow /\ row.status = "ARCHIVED" /\ row.previous = documents[f].previous
    BY <1>4, <2>2 DEF DocumentRow
  <2>5. /\ documents' \in [Files -> DocumentRow] /\ documents'[f] = row
        /\ \A g \in Files \ {f} : documents'[g] = documents[g]
        /\ \A g \in Files : Stored(g) => Stored(g)' /\ documents'[g].previous = documents[g].previous
        /\ \A g \in Files : ~Stored(g)' => documents'[g].previous = NoFile
    BY <1>0, <2>3, <2>4, DocumentSet
  <2>6. VersionMove /\ DeliveryMove
    BY <2>3 DEF VersionMove, DeliveryMove
  <2>7. PortalHeld(r)'
    BY <1>1, <1>2, <2>3, PortalElsewhere
  <2> QED BY <1>00, <1>1, <1>4, <2>2, <2>3, <2>5, <2>6, <2>7, PortalWrites
<1>9. CASE VersionCreate(r)
  <2>0. serving[r].step = "version.create"
    BY <1>9 DEF VersionCreate, At
  <2>1. PICK f \in Files, g \in Files : f = Args(r)[1] /\ g = Args(r)[3]
    BY <1>0, <2>0 DEF PortalHeld, FileKnown, OnStored
  <2>2. PICK row, rows, next : /\ row = [NoDocument EXCEPT !.status = "DRAFT", !.previous = f] /\ rows = {g}
                               /\ next = [serving[r] EXCEPT !.step = "version.grants"]
    OBVIOUS
  <2>3. /\ documents' = [documents EXCEPT ![g] = row] /\ Write(r, rows, next) /\ ~Stored(g)
        /\ UNCHANGED <<granted, expired, scans, delivered>>
    BY <1>9, <2>1, <2>2 DEF VersionCreate
  <2>4. row = [status |-> "DRAFT", scan |-> "PENDING", previous |-> f]
    BY <2>2 DEF NoDocument
  <2>5. row \in DocumentRow /\ row.status = "DRAFT" /\ row.previous = f
    BY <2>4 DEF DocumentRow
  <2>6. /\ documents' \in [Files -> DocumentRow] /\ documents'[g] = row
        /\ \A h \in Files \ {g} : documents'[h] = documents[h]
        /\ \A h \in Files : Stored(h) => Stored(h)' /\ documents'[h].previous = documents[h].previous
        /\ \A h \in Files : ~Stored(h)' => documents'[h].previous = NoFile
    BY <1>0, <2>3, <2>5, DocumentSet
  <2>7. Slot(next) /\ next.step = "version.grants" /\ next.args = serving[r].args
    <3>1. PICK old, a, on, stale : old = serving[r] /\ a = old.args /\ on = old.on /\ stale = old.stale
      OBVIOUS
    <3>2. \E s : old = [step |-> s, args |-> a, on |-> on, stale |-> stale]
      BY <1>0, <3>1 DEF Shape, Slot
    <3>3. next = [old EXCEPT !.step = "version.grants"]
      BY <2>2, <3>1
    <3>4. next = [step |-> "version.grants", args |-> a, on |-> on, stale |-> stale]
      BY <3>2, <3>3
    <3> QED BY <3>1, <3>4 DEF Slot
  <2>8. serving'[r].step = "version.grants" /\ Args(r)' = Args(r)
    BY <1>2, <2>3, <2>7 DEF Args
  <2>9. PortalHeld(r)'
    BY <2>1, <2>5, <2>6, <2>8 DEF PortalHeld, FileKnown, FileServed, ContactKnown, OnStored, Stored
  <2>10. VersionMove /\ DeliveryMove
    BY <2>3 DEF VersionMove, DeliveryMove
  <2> QED BY <1>00, <1>4, <2>2, <2>3, <2>6, <2>7, <2>9, <2>10, PortalWrites
<1>10. CASE Deliver(r)
  <2>0. serving[r].step = "download.read"
    BY <1>10 DEF Deliver, At
  <2>1. PICK x : x = Args(r)
    OBVIOUS
  <2>2. PICK rows : rows = {}
    OBVIOUS
  <2>3. delivered' = delivered \cup {x} /\ Write(r, rows, Idle) /\ UNCHANGED <<documents, granted, expired, scans>>
    BY <1>10, <2>1, <2>2 DEF Deliver
  <2>4. undisturbed' => ~serving[r].stale
    BY <1>1, <1>3, <2>3
  <2>5. undisturbed' => documents[x[1]].scan = "CLEAN" /\ (x[2] \in Globals \/ Valid(x[1], x[2], "DOWNLOAD"))
    BY <1>0, <2>0, <2>1, <2>4 DEF PortalHeld, FileServed
  <2>6. VersionMove /\ DeliveryMove
    BY <2>3, <2>5 DEF VersionMove, DeliveryMove
  <2>7. PortalHeld(r)'
    BY <1>1, <1>2, <2>3, PortalElsewhere
  <2>8. \A h \in Files : Stored(h)' <=> Stored(h)
    BY <2>3 DEF Stored
  <2> QED BY <1>00, <1>1, <1>4, <2>3, <2>6, <2>7, <2>8, PortalWrites
<1>11. ASSUME NEW verdict \in {"CLEAN", "INFECTED"}, ScanResult(r, verdict) PROVE PortalInv' /\ PortalMoves
  <2>1. PICK f : f = Args(r)[1]
    OBVIOUS
  <2>2. PICK rows : rows = {f}
    OBVIOUS
  <2>3. /\ documents' = [documents EXCEPT ![f].scan = verdict] /\ scans' = scans \ {f}
        /\ Write(r, rows, Idle) /\ UNCHANGED <<granted, expired, delivered>>
    BY <1>11, <2>1, <2>2 DEF ScanResult
  <2>4. /\ documents' \in [Files -> DocumentRow]
        /\ \A g \in Files : /\ documents'[g].status = documents[g].status /\ documents'[g].previous = documents[g].previous
                            /\ g \in rows \/ documents'[g].scan = documents[g].scan
    BY <1>4, <2>2, <2>3 DEF DocumentRow
  <2>5. VersionMove /\ DeliveryMove
    BY <2>3 DEF VersionMove, DeliveryMove
  <2>6. PortalHeld(r)'
    BY <1>1, <1>2, <2>3, PortalElsewhere
  <2> QED BY <1>00, <1>1, <1>4, <2>3, <2>4, <2>5, <2>6, PortalWrites DEF Stored
<1> QED BY <1>5, <1>6, <1>7, <1>8, <1>9, <1>10, <1>11

\* The requests that end, or share.
LEMMA PortalEndStep ==
  ASSUME PortalInv, NEW r \in Slots, UNCHANGED contactRows,
         SignLink(r) \/ ScanGivenUp(r) \/ Share(r) \/ (Dies(r) /\ UNCHANGED documentRows)
  PROVE  PortalInv' /\ PortalMoves
<1>0. Shape /\ PortalHeld(r) /\ UNCHANGED <<contacts, invitations>>
  BY DEF PortalInv, contactRows
<1>1. CASE Return(r) /\ UNCHANGED <<documents, granted, expired, delivered>> /\ scans' \subseteq scans
  <2>1. Follow(r, {}) /\ Shape' /\ serving'[r] = Idle
    BY <1>0, <1>1, ReadsFollow, ReturnEffect
  <2>2. PortalHeld(r)'
    BY <2>1, PortalElsewhere DEF Idle, PortalSteps, OnStored
  <2> QED BY <1>0, <1>1, <2>1, <2>2, PortalReads
<1>2. CASE Share(r)
  <2>0. serving[r].step = "share"
    BY <1>2 DEF Share, At
  <2>1. PICK f \in Files, v \in Readers, P \in SUBSET Permissions : f = Args(r)[1] /\ v = Args(r)[3][1] /\ P = Args(r)[3][2]
    BY <1>0, <2>0 DEF PortalHeld, FileKnown, OnStored
  <2>2. PICK todo : todo = {f} \X {v} \X P
    OBVIOUS
  <2>3. PICK next : next = Granting(r, f, todo, "idle")
    OBVIOUS
  <2>4. serving' = [serving EXCEPT ![r] = next] /\ UNCHANGED <<documents, granted, expired, scans, delivered, undisturbed>>
    BY <1>2, <2>1, <2>2, <2>3 DEF Share, documentRows
  <2>5. Slot(next)
    BY <1>0, <2>3, GrantingEffect DEF Shape
  <2>6. serving'[r] = next /\ Shape' /\ \A q \in Slots \ {r} : serving'[q] = serving[q]
    BY <1>0, <2>4, <2>5 DEF Shape
  <2>7. Follow(r, {})
    BY <2>6 DEF Follow, Keeps
  <2>8. Stored(f)' /\ todo \subseteq Grants(f)
    BY <1>0, <2>0, <2>1, <2>2, <2>4 DEF PortalHeld, FileKnown, OnStored, Grants, Stored
  <2>9. PortalHeld(r)'
    BY <1>0, <2>3, <2>6, <2>8, GrantingHeld DEF Shape
  <2> QED BY <1>0, <2>4, <2>6, <2>7, <2>9, PortalReads
<1> QED BY <1>1, <1>2 DEF SignLink, ScanGivenUp, Dies, documentRows

\* The requests of a contact.
LEMMA ContactStep ==
  ASSUME PortalInv, NEW r \in Slots,
         \/ \E c \in Contacts : InviteRead(r, c) \/ RevokeRead(r, c)
         \/ \E c \in Contacts, i \in Numbers : AcceptRead(r, c, i)
         \/ InviteCommit(r) \/ AcceptCommit(r) \/ RevokeCommit(r)
         \/ \E f \in Files, viewOnly \in SUBSET Readers : CaseAccess(r, f, viewOnly)
  PROVE  PortalInv' /\ PortalMoves
<1>0. Shape /\ PortalRowsOK /\ PortalHeld(r)
  BY DEF PortalInv
<1>1. Idle.step \notin PortalSteps /\ Slot(Idle)
  BY IdleSlot DEF Idle, PortalSteps, OnStored
<1>2. ASSUME NEW step, NEW args, NEW rows, Continue(r, step, args, rows), UNCHANGED portalRows, PortalHeld(r)'
      PROVE  PortalInv' /\ PortalMoves
  <2>1. Follow(r, {}) /\ Shape'
    BY <1>0, <1>2, ReadsFollow
  <2>2. UNCHANGED <<documents, granted, expired, scans, delivered, contacts, invitations>>
    BY <1>2 DEF portalRows, documentRows, contactRows
  <2> QED BY <1>2, <2>1, <2>2, PortalReads
<1>3. ASSUME NEW step, NEW args, NEW rows, Continue(r, step, args, rows)
      PROVE  serving'[r].step = step /\ Args(r)' = args /\ serving'[r].on = serving[r].on \cup rows
  BY <1>0, <1>3, ContinueEffect, ContinueHolds DEF Args
<1>4. ASSUME NEW c \in Contacts, InviteRead(r, c) PROVE PortalInv' /\ PortalMoves
  <2>1. /\ Continue(r, "invite.commit", <<c>>, {c}) /\ UNCHANGED portalRows /\ contacts[c].status # "ACTIVE"
    BY <1>4 DEF InviteRead
  <2>2. serving'[r].step = "invite.commit" /\ Args(r)' = <<c>> /\ c \in serving'[r].on /\ contacts' = contacts
    BY <1>3, <2>1 DEF portalRows, contactRows
  <2>3. PortalHeld(r)'
    BY <2>1, <2>2 DEF PortalHeld, FileKnown, FileServed, ContactKnown, OnStored
  <2> QED BY <1>2, <2>1, <2>3
<1>5. ASSUME NEW c \in Contacts, NEW i, RevokeRead(r, c) \/ AcceptRead(r, c, i) PROVE PortalInv' /\ PortalMoves
  <2>1. PICK step, args : Continue(r, step, args, {c}) /\ step \in {"revoke.commit", "accept.commit"} /\ UNCHANGED portalRows
    BY <1>5 DEF RevokeRead, AcceptRead
  <2>2. PortalHeld(r)'
    BY <1>3, <2>1, PortalElsewhere DEF PortalSteps, OnStored
  <2> QED BY <1>2, <2>1, <2>2
<1>6. ASSUME NEW f \in Files, NEW viewOnly \in SUBSET Readers, CaseAccess(r, f, viewOnly) PROVE PortalInv' /\ PortalMoves
  <2> DEFINE linked == {c \in Contacts : Student[c] = Owner[f] /\ contacts[c].linked}
  <2>1. PICK todo : todo = {f} \X (Team[Owner[f]] \ viewOnly) \X {"VIEW", "DOWNLOAD"}
                           \cup {f} \X viewOnly \X {"VIEW"}
                           \cup {f} \X ({Account[c] : c \in linked} \ Team[Owner[f]]) \X {"VIEW", "DOWNLOAD"}
    OBVIOUS
  <2>2. PICK rows : rows = {c \in Contacts : Student[c] = Owner[f]}
    OBVIOUS
  <2>3. Continue(r, "document.grant", <<f, todo, "idle">>, rows) /\ UNCHANGED portalRows /\ Stored(f) /\ todo # {}
    BY <1>6, <2>1, <2>2 DEF CaseAccess
  <2>4. todo \subseteq Grants(f)
    <3>1. PICK A, B : A = Team[Owner[f]] \ viewOnly /\ B = {Account[c] : c \in linked} \ Team[Owner[f]]
      OBVIOUS
    <3>2. A \subseteq Readers /\ B \subseteq Readers
      BY <3>1, TeamAssumption
    <3>3. todo = {f} \X A \X {"VIEW", "DOWNLOAD"} \cup {f} \X viewOnly \X {"VIEW"} \cup {f} \X B \X {"VIEW", "DOWNLOAD"}
      BY <2>1, <3>1
    <3> QED BY <3>2, <3>3 DEF Grants, Permissions
  <2>5. serving'[r].step = "document.grant" /\ Args(r)' = <<f, todo, "idle">>
    BY <1>3, <2>3
  <2>6. Stored(f)'
    BY <2>3 DEF Stored, portalRows, documentRows
  <2>7. PortalHeld(r)'
    BY <2>3, <2>4, <2>5, <2>6 DEF PortalHeld, FileKnown, FileServed, ContactKnown, OnStored, Grants
  <2> QED BY <1>2, <2>3, <2>7
<1>7. ASSUME NEW rows, Write(r, rows, Idle), UNCHANGED <<documents, granted, scans, delivered>>,
             expired \subseteq expired', \A x \in expired' : x \in expired \/ x \in rows,
             contacts' \in [Contacts -> ContactRow], \A c \in Contacts : c \in rows \/ contacts'[c].status = contacts[c].status,
             invitations' \in [Contacts -> [Numbers -> {"NONE", "OPEN", "USED"}]], InvitedCanAccept', LinkMove
      PROVE  PortalInv' /\ PortalMoves
  <2>1. Follow(r, rows) /\ Shape' /\ serving'[r] = Idle
    BY <1>0, <1>1, <1>7, WritesFollow
  <2>2. PortalHeld(r)'
    BY <1>1, <2>1, PortalElsewhere
  <2>3. PortalGrows /\ PortalAnnounced(rows)
    BY <1>7 DEF PortalGrows, PortalAnnounced, Stored
  <2>4. PortalRowsOK'
    BY <1>0, <1>7 DEF PortalRowsOK, Stored
  <2>5. VersionMove /\ DeliveryMove
    BY <1>7 DEF VersionMove, DeliveryMove
  <2> QED BY <1>7, <2>1, <2>2, <2>3, <2>4, <2>5, PortalRests DEF PortalMoves
<1>8. CASE InviteCommit(r)
  <2>0. serving[r].step = "invite.commit"
    BY <1>8 DEF InviteCommit, At
  <2>1. PICK c \in Contacts : c = Args(r)[1] /\ (~serving[r].stale => contacts[c].status # "ACTIVE")
    BY <1>0, <2>0 DEF PortalHeld, ContactKnown
  <2>2. PICK rows : rows = {c}
    OBVIOUS
  <2>3. PICK i \in Numbers : invitations' = [invitations EXCEPT ![c][i] = "OPEN"]
    BY <1>8, <2>1 DEF InviteCommit
  <2>4. /\ contacts' = [contacts EXCEPT ![c].status = "INVITED"] /\ Write(r, rows, Idle)
        /\ UNCHANGED <<documents, granted, expired, scans, delivered>>
    BY <1>8, <2>1, <2>2 DEF InviteCommit, documentRows
  <2>5. undisturbed' => ~serving[r].stale
    BY <1>0, <1>1, <2>4, WritesFollow
  <2>6. /\ contacts' \in [Contacts -> ContactRow]
        /\ \A d \in Contacts \ {c} : contacts'[d] = contacts[d]
    BY <1>0, <2>4 DEF PortalRowsOK, ContactRow
  <2>7. /\ invitations' \in [Contacts -> [Numbers -> {"NONE", "OPEN", "USED"}]] /\ invitations'[c][i] = "OPEN"
        /\ \A d \in Contacts \ {c} : invitations'[d] = invitations[d]
    BY <1>0, <2>3 DEF PortalRowsOK
  <2>8. InvitedCanAccept'
    BY <1>0, <2>6, <2>7 DEF PortalRowsOK, InvitedCanAccept
  <2>9. LinkMove
    BY <2>1, <2>5, <2>6 DEF LinkMove
  <2> QED BY <1>7, <2>2, <2>4, <2>6, <2>7, <2>8, <2>9
<1>9. CASE AcceptCommit(r)
  <2>1. PICK c, i : c = Args(r)[1] /\ i = Args(r)[2]
    OBVIOUS
  <2>2. PICK rows, row : rows = {c} /\ row = [status |-> "ACTIVE", linked |-> TRUE]
    OBVIOUS
  <2>3. /\ invitations' = [invitations EXCEPT ![c][i] = "USED"]
        /\ contacts' = [contacts EXCEPT ![c] = row] /\ Write(r, rows, Idle)
        /\ UNCHANGED <<documents, granted, expired, scans, delivered>>
    BY <1>9, <2>1, <2>2 DEF AcceptCommit, documentRows
  <2>4. row \in ContactRow /\ row.status = "ACTIVE"
    BY <2>2 DEF ContactRow
  <2>5. /\ contacts' \in [Contacts -> ContactRow] /\ (c \in Contacts => contacts'[c] = row)
        /\ \A d \in Contacts \ {c} : contacts'[d] = contacts[d]
    BY <1>0, <2>3, <2>4 DEF PortalRowsOK
  <2>6. /\ invitations' \in [Contacts -> [Numbers -> {"NONE", "OPEN", "USED"}]]
        /\ \A d \in Contacts \ {c} : invitations'[d] = invitations[d]
    BY <1>0, <2>3 DEF PortalRowsOK
  <2>7. InvitedCanAccept'
    BY <1>0, <2>4, <2>5, <2>6 DEF PortalRowsOK, InvitedCanAccept
  <2>8. LinkMove
    BY <2>4, <2>5 DEF LinkMove
  <2> QED BY <1>7, <2>2, <2>3, <2>5, <2>6, <2>7, <2>8
<1>10. CASE RevokeCommit(r)
  <2>1. PICK c : c = Args(r)[1]
    OBVIOUS
  <2>2. PICK cut : cut = {x \in granted \ expired : x[2] = Account[c]}
    OBVIOUS
  <2>3. PICK rows : rows = {c} \cup cut
    OBVIOUS
  <2>4. /\ expired' = expired \cup cut /\ contacts' = [contacts EXCEPT ![c].status = "REVOKED"] /\ Write(r, rows, Idle)
        /\ UNCHANGED <<documents, granted, scans, delivered, invitations>>
    BY <1>10, <2>1, <2>2, <2>3 DEF RevokeCommit
  <2>5. /\ contacts' \in [Contacts -> ContactRow]
        /\ \A d \in Contacts : \/ d = c /\ contacts'[d].status = "REVOKED"
                               \/ contacts'[d].status = contacts[d].status
        /\ \A d \in Contacts : d \in rows \/ contacts'[d].status = contacts[d].status
    BY <1>0, <2>3, <2>4 DEF PortalRowsOK, ContactRow
  <2>6. InvitedCanAccept'
    BY <1>0, <2>4, <2>5 DEF PortalRowsOK, InvitedCanAccept
  <2>7. \A x \in granted' : x[2] = Account[c] => x \in expired'
    BY <2>2, <2>4
  <2>8. LinkMove
    BY <2>5, <2>7 DEF LinkMove
  <2>9. invitations' \in [Contacts -> [Numbers -> {"NONE", "OPEN", "USED"}]]
    BY <1>0, <2>4 DEF PortalRowsOK
  <2> QED BY <1>7, <2>3, <2>4, <2>5, <2>6, <2>8, <2>9
<1> QED BY <1>4, <1>5, <1>6, <1>8, <1>9, <1>10

LEMMA PortalStep == PortalInv /\ [PortalNext]_portalVars => PortalInv' /\ PortalMoves
<1> SUFFICES ASSUME PortalInv, [PortalNext]_portalVars PROVE PortalInv' /\ PortalMoves
  OBVIOUS
<1>1. CASE UNCHANGED portalVars
  <2>1. /\ UNCHANGED <<documents, granted, expired, scans, delivered, contacts, invitations>>
        /\ serving' = serving /\ undisturbed' = undisturbed
    BY <1>1 DEF portalVars, portalRows, documentRows, contactRows, handlerVars
  <2>2. PortalMoves
    BY <2>1 DEF PortalMoves, VersionMove, DeliveryMove, LinkMove
  <2>3. Shape' /\ PortalRowsOK'
    BY <2>1 DEF PortalInv, Shape, Slot, PortalRowsOK, Stored, InvitedCanAccept
  <2>4. ASSUME NEW r \in Slots PROVE PortalHeld(r)'
    <3>1. PortalHeld(r)
      BY DEF PortalInv
    <3>2. FileKnown(r)'
      BY <2>1, <3>1 DEF PortalHeld, FileKnown, Stored, Copies, Replaces, Grants, Carried, Args
    <3>3. FileServed(r)' /\ ContactKnown(r)'
      BY <2>1, <3>1 DEF PortalHeld, FileServed, ContactKnown, Valid, Args
    <3> QED BY <3>2, <3>3 DEF PortalHeld
  <2> QED BY <2>2, <2>3, <2>4 DEF PortalInv
<1>2. CASE DocumentNext /\ UNCHANGED contactRows
  BY <1>2, PortalReadStep, PortalWriteStep, PortalEndStep DEF DocumentNext
<1> QED BY <1>1, <1>2, ContactStep DEF PortalNext

LEMMA PortalInvariant == PortalSpec => []PortalInv
BY PortalInitInv, PortalStep, PTL DEF PortalSpec

\* A version goes to be scanned, and so can be downloaded, only when everyone who may still do
\* something with the document it replaces was granted the same with it, unless somebody touched
\* these grants while they were copied: for any number of documents, users and requests.
THEOREM VersionsCarryGrants == PortalSpec => VersionsKeepAccess
<1>1. ASSUME NEW f, NEW g, NEW u \in Readers, NEW p \in Permissions, Carried(f, g) \subseteq granted, Valid(f, u, p)
      PROVE  <<g, u, p>> \in granted
  BY <1>1 DEF Carried, Valid
<1>2. PortalInv /\ [PortalNext]_portalVars =>
        [undisturbed' =>
           \A g \in scans' \ scans : documents[g].previous # NoFile =>
             \A u \in Readers, p \in Permissions :
               Valid(documents[g].previous, u, p) => <<g, u, p>> \in granted]_documentVars
  BY <1>1, PortalStep DEF PortalMoves, VersionMove
<1> QED BY <1>2, PortalInvariant, PTL DEF PortalSpec, VersionsKeepAccess

\* What is served is clean and granted at that moment, unless one of the two changed under the
\* request that serves it; links, roles and revocations included.
THEOREM DownloadsStayCurrent == PortalSpec => DownloadsAreCurrent
<1>1. PortalInv /\ [PortalNext]_portalVars =>
        [undisturbed' =>
           \A x \in delivered' \ delivered :
             documents[x[1]].scan = "CLEAN" /\ (x[2] \in Globals \/ Valid(x[1], x[2], "DOWNLOAD"))]_documentVars
  BY PortalStep DEF PortalMoves, DeliveryMove
<1> QED BY <1>1, PortalInvariant, PTL DEF PortalSpec, DownloadsAreCurrent

\* Whoever is invited has an invitation to accept; and, unless requests about a contact overlap,
\* an active link ends by a revocation only, after which nothing its user was given is left.
THEOREM RevocationsAreThorough == PortalSpec => LinksStand
<1>1. PortalInv /\ [PortalNext]_portalVars =>
        [/\ \A c \in Contacts : contacts'[c].status = "INVITED" => \E i \in Numbers : invitations'[c][i] = "OPEN"
         /\ undisturbed' =>
              \A c \in Contacts : contacts[c].status = "ACTIVE" /\ contacts'[c].status # "ACTIVE" =>
                /\ contacts'[c].status = "REVOKED"
                /\ \A x \in granted' : x[2] = Account[c] => x \in expired']_portalVars
  BY PortalStep DEF PortalInv, PortalRowsOK, InvitedCanAccept, PortalMoves, LinkMove
<1> QED BY <1>1, PortalInvariant, PTL DEF PortalSpec, LinksStand
=============================================================================
