----------------------------- MODULE TouchFeed ------------------------------
(***************************************************************************)
(* Which finger owns a half of the panel (nro/source/touch/touch_feed.c).  *)
(* A frame is the sequence of readings the panel gave: a finger, the half  *)
(* it is in, the level its height stands for, and whether the frame saw it *)
(* go down or lift.                                                        *)
(***************************************************************************)
EXTENDS SequencesExt

CONSTANTS Fingers, NoFinger

Halves == {"A", "B"}
Readings(levels) == [finger : Fingers, half : Halves, level : levels,
                     start : BOOLEAN, end : BOOLEAN]

Lies(point, half) == ~point.end /\ point.half = half

Within(frame, half) == {i \in DOMAIN frame : Lies(frame[i], half)}
Latest(frame, set) == frame[Max(set)].finger

\* Mutant: the last finger that is there has the half, whoever had it.
TakesLatest(frame, half, current) ==
  LET any == Within(frame, half)
  IN  IF any = {} THEN NoFinger ELSE Latest(frame, any)

\* The last finger that went down in this frame, else the one that has the half, else
\* the last that is there; NoFinger when nobody is.
PickOwner(frame, half, current) ==
  LET any == Within(frame, half)
      new == {i \in any : frame[i].start}
  IN  IF any = {} THEN NoFinger
      ELSE IF new # {} THEN Latest(frame, new)
      ELSE IF \E i \in any : frame[i].finger = current THEN current
      ELSE Latest(frame, any)
=============================================================================
