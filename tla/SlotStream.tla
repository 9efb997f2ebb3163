----------------------------- MODULE SlotStream -----------------------------
(***************************************************************************)
(* What one waveform channel of the server promises to whoever uploads     *)
(* slots to it: a bounded first-in first-out stream.  Slots leave in the   *)
(* order they came, each at most once, in whole elements and never more    *)
(* than one batch at a time; when the stream is full the oldest slots make *)
(* room; the only other way to lose slots is to lose all of them.          *)
(* Slots are named 1, 2, 3... in the order they are uploaded.              *)
(***************************************************************************)
EXTENDS Integers, SequencesExt

CONSTANTS Capacity,       \* slots the stream can hold
          ElementSlots,   \* slots of one element, the unit that is sent
          BatchElements   \* elements of one pulse command, at most

VARIABLES pending,        \* the slots not sent yet, oldest first
          lastSent,       \* the newest slot sent so far, 0 before the first
          fresh           \* the name of the next slot

streamVars == <<pending, lastSent, fresh>>

Init == pending = <<>> /\ lastSent = 0 /\ fresh = 1

\* The newest Capacity items of a sequence.
Newest(s) == SubSeq(s, IF Len(s) > Capacity THEN Len(s) - Capacity + 1 ELSE 1, Len(s))

\* n slots are added behind `kept`.
Add(kept, n) ==
  /\ pending' = Newest(kept \o [i \in 1..n |-> fresh + i - 1])
  /\ fresh' = fresh + n
  /\ UNCHANGED lastSent

Offer(n) == Add(pending, n)

Replace(n) == Add(<<>>, n)

Deliver(k) ==
  /\ k * ElementSlots <= Len(pending)
  /\ pending' = SubSeq(pending, k * ElementSlots + 1, Len(pending))
  /\ lastSent' = pending[k * ElementSlots]
  /\ UNCHANGED fresh

Discard == pending' = <<>> /\ UNCHANGED <<lastSent, fresh>>

Next ==
  \/ \E n \in 1..Capacity : Offer(n) \/ Replace(n)
  \/ \E k \in 1..BatchElements : Deliver(k)
  \/ Discard

Spec == Init /\ [][Next]_streamVars
=============================================================================
