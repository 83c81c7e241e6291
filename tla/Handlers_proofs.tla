-------------------------- MODULE Handlers_proofs --------------------------
(***************************************************************************)
(* What the operators of Handlers do to a slot and to the other slots, for *)
(* the proofs of the components.                                           *)
(***************************************************************************)
EXTENDS Handlers, TLAPS

\* Each slot holds a record of the four fields.
Slot(h) == h = [step |-> h.step, args |-> h.args, on |-> h.on, stale |-> h.stale]
Shape   == serving = [q \in Slots |-> serving[q]] /\ \A q \in Slots : Slot(serving[q])

\* What q is about to do with what, and from what it was read, is as before.
Keeps(q) == /\ serving'[q].step = serving[q].step
            /\ serving'[q].args = serving[q].args
            /\ serving'[q].on = serving[q].on

\* The slots start as records.
LEMMA HandlersInitShape ==
  ASSUME HandlersInit PROVE Shape /\ undisturbed /\ \A q \in Slots : serving[q] = Idle
BY DEF HandlersInit, Shape, Slot, Idle

\* Continue changes its own slot, to the step and the values it names.
LEMMA ContinueEffect ==
  ASSUME Shape, NEW r \in Slots, NEW step, NEW args, NEW rows, Continue(r, step, args, rows)
  PROVE  /\ Shape'
         /\ serving'[r].step = step /\ serving'[r].args = args
         /\ \A q \in Slots \ {r} : serving'[q] = serving[q]
         /\ undisturbed' = undisturbed
BY DEF Shape, Slot, Continue

\* ..., and lets it hold more rows; whether one of these is stale by now stays as it was.
LEMMA ContinueHolds ==
  ASSUME Shape, NEW r \in Slots, NEW step, NEW args, NEW rows, Continue(r, step, args, rows)
  PROVE  serving'[r].on = serving[r].on \cup rows /\ serving'[r].stale = serving[r].stale
BY DEF Shape, Slot, Continue

\* Return empties its own slot.
LEMMA ReturnEffect ==
  ASSUME Shape, NEW r \in Slots, Return(r)
  PROVE  /\ Shape'
         /\ serving'[r] = Idle
         /\ \A q \in Slots \ {r} : serving'[q] = serving[q]
         /\ undisturbed' = undisturbed
BY DEF Shape, Slot, Return, Idle

\* A write leaves its own slot as it says, and marks the others as stale or not.
LEMMA WriteEffect ==
  ASSUME Shape, NEW r \in Slots, NEW rows, NEW next, Slot(next), Write(r, rows, next)
  PROVE  /\ Shape'
         /\ serving'[r] = next
         /\ \A q \in Slots \ {r} : Keeps(q) /\ serving'[q].stale = (serving[q].stale \/ serving[q].on \cap rows # {})
         /\ undisturbed' = (undisturbed /\ ~serving[r].stale)
BY DEF Shape, Slot, Write, Keeps

\* The same of a write that rests on nothing read before.
LEMMA PutEffect ==
  ASSUME Shape, NEW r \in Slots, NEW rows, NEW next, Slot(next), Put(r, rows, next)
  PROVE  /\ Shape'
         /\ serving'[r] = next
         /\ \A q \in Slots \ {r} : Keeps(q) /\ serving'[q].stale = (serving[q].stale \/ serving[q].on \cap rows # {})
         /\ undisturbed' = undisturbed
BY DEF Shape, Slot, Put, Keeps
\* A slot that is sent elsewhere, with other values, is a slot.
LEMMA SlotAt ==
  ASSUME NEW h, Slot(h), NEW s, NEW a, NEW next, next = [h EXCEPT !.step = s, !.args = a]
  PROVE  Slot(next) /\ next.step = s /\ next.args = a
<1>1. h = [step |-> h.step, args |-> h.args, on |-> h.on, stale |-> h.stale]
  BY DEF Slot
<1>2. PICK o, t : o = h.on /\ t = h.stale
  OBVIOUS
<1>3. next = [step |-> s, args |-> a, on |-> o, stale |-> t]
  BY <1>1, <1>2
<1> QED BY <1>3 DEF Slot

LEMMA IdleSlot == Slot(Idle)
BY DEF Slot, Idle

\* A request that is sent off, with the values it goes on with, is a slot too.
LEMMA SentOff ==
  ASSUME NEW step, NEW args PROVE Slot([Idle EXCEPT !.step = step, !.args = args])
                                  /\ [Idle EXCEPT !.step = step, !.args = args].step = step
<1>1. PICK next : next = [Idle EXCEPT !.step = step, !.args = args]
  OBVIOUS
<1>2. next = [step |-> step, args |-> args, on |-> {}, stale |-> FALSE]
  BY <1>1 DEF Idle
<1>3. Slot(next) /\ next.step = step
  BY <1>2 DEF Slot
<1> QED BY <1>1, <1>3

\* The other slots stay at what they do, and go on holding what they hold.
Others(r) == Shape' /\ \A q \in Slots \ {r} : Keeps(q)

LEMMA ReturnOthers ==
  ASSUME Shape, NEW r \in Slots, Return(r) PROVE Others(r) /\ serving'[r] = Idle
BY ReturnEffect DEF Others, Keeps

LEMMA WriteOthers ==
  ASSUME Shape, NEW r \in Slots, NEW rows, NEW next, Slot(next), Write(r, rows, next) \/ Put(r, rows, next)
  PROVE  Others(r) /\ serving'[r] = next
BY WriteEffect, PutEffect DEF Others

\* A handler that is done when it has written.
LEMMA EndsWriting ==
  ASSUME Shape, NEW r \in Slots, NEW rows, Write(r, rows, Idle) \/ Put(r, rows, Idle)
  PROVE  /\ Shape' /\ serving'[r] = Idle
         /\ \A q \in Slots \ {r} : Keeps(q) /\ serving'[q].stale = (serving[q].stale \/ serving[q].on \cap rows # {})
BY IdleSlot DEF Shape, Slot, Write, Put, Keeps

\* Nor do the slots change in a step that leaves the handlers alone.
LEMMA ShapeStays == ASSUME Shape, UNCHANGED handlerVars PROVE Shape' /\ \A q \in Slots : Keeps(q)
BY DEF Shape, Slot, Keeps, handlerVars

\* After a step of r that writes rows: the others are at what they were at, and who is not
\* stale has read none of these rows.
Follow(r, rows) ==
  \A q \in Slots \ {r} : Keeps(q) /\ (~serving'[q].stale => ~serving[q].stale /\ serving[q].on \cap rows = {})

LEMMA ReadsFollow ==
  ASSUME Shape, NEW r \in Slots, Return(r) \/ \E step, args, rows : Continue(r, step, args, rows)
  PROVE  Follow(r, {}) /\ Shape' /\ (undisturbed' => undisturbed)
<1>1. Shape' /\ undisturbed' = undisturbed /\ \A q \in Slots \ {r} : serving'[q] = serving[q]
  BY ReturnEffect, ContinueEffect
<1>2. \A q \in Slots \ {r} : Keeps(q) /\ serving'[q].stale = serving[q].stale
  BY <1>1 DEF Keeps
<1>3. Follow(r, {})
  BY <1>2, Zenon DEF Follow
<1> QED BY <1>1, <1>3, Zenon

LEMMA WritesFollow ==
  ASSUME Shape, NEW r \in Slots, NEW rows, NEW next, Slot(next), Write(r, rows, next)
  PROVE  /\ Follow(r, rows) /\ Shape' /\ serving'[r] = next
         /\ undisturbed' => undisturbed /\ ~serving[r].stale
<1>1. /\ Shape' /\ serving'[r] = next /\ undisturbed' = (undisturbed /\ ~serving[r].stale)
      /\ \A q \in Slots \ {r} : Keeps(q) /\ serving'[q].stale = (serving[q].stale \/ serving[q].on \cap rows # {})
  BY WriteEffect
<1>2. Follow(r, rows)
  BY <1>1, Zenon DEF Follow
<1> QED BY <1>1, <1>2, Zenon

LEMMA PutsFollow ==
  ASSUME Shape, NEW r \in Slots, NEW rows, NEW next, Slot(next), Put(r, rows, next)
  PROVE  Follow(r, rows) /\ Shape' /\ serving'[r] = next /\ (undisturbed' => undisturbed)
<1>1. /\ Shape' /\ serving'[r] = next /\ undisturbed' = undisturbed
      /\ \A q \in Slots \ {r} : Keeps(q) /\ serving'[q].stale = (serving[q].stale \/ serving[q].on \cap rows # {})
  BY PutEffect
<1>2. Follow(r, rows)
  BY <1>1, Zenon DEF Follow
<1> QED BY <1>1, <1>2, Zenon

\* In a step that leaves the handlers alone, too.
LEMMA StillFollow ==
  ASSUME Shape, NEW r \in Slots, UNCHANGED handlerVars PROVE Follow(r, {}) /\ Shape' /\ (undisturbed' => undisturbed)
<1>1. /\ Shape' /\ \A q \in Slots : Keeps(q)
      /\ serving' = serving /\ undisturbed' = undisturbed
  BY ShapeStays DEF handlerVars
<1> QED BY <1>1, Zenon DEF Follow
=============================================================================
