----------------------------- MODULE MotionFeed -----------------------------
(***************************************************************************)
(* One channel's producer of waveform slots (nro/source/motion/            *)
(* motion_feed.c).  Intensities, the envelope and the strength it is       *)
(* quantised to are integers up to Full; time counts in units, of which a  *)
(* slot has SlotUnits.                                                     *)
(***************************************************************************)
EXTENDS MotionSettings

CONSTANTS
  Full,             \* an intensity of 1.0
  SlotUnits,        \* 25 ms
  Width,            \* 2^32 ns: what the clocks of the feed are counted modulo
  MaxSlots,         \* DGLAB_NET_WAVEFORM_MAX_SLOTS
  IdleStop          \* idle_stop_ms, in slots

ASSUME FeedAssumption ==
  /\ Full \in Nat \ {0} /\ SlotUnits \in Nat \ {0} /\ MaxSlots \in Nat \ {0}
  /\ IdleStop \in Nat /\ Width \in Nat /\ Width > SlotUnits

Intensities == 0..Full
Feeds == [moving : BOOLEAN, streaming : BOOLEAN, level : Intensities, peak : Intensities,
          window : 0..(Width - 1), idle : 0..IdleStop]

FeedInit == [moving |-> FALSE, streaming |-> FALSE, level |-> 0, peak |-> 0,
             window |-> 0, idle |-> 0]

Greater(a, b) == IF a > b THEN a ELSE b

\* Entering takes more than staying: between the two thresholds nothing changes.
AtMost(a, b) == NaN \notin {a, b} /\ a <= b
Moves(feed, config, raw) ==
  \/ AtMost(config.deadzone_enter, raw)
  \/ ~AtMost(raw, config.deadzone_exit) /\ feed.moving

AddSample(feed, config, raw) ==
  LET moving == Moves(feed, config, raw)
  IN  [feed EXCEPT !.moving = moving, !.peak = Greater(@, IF moving THEN raw ELSE 0)]

\* The touch mode names its level instead.
SetTarget(feed, level) ==
  [feed EXCEPT !.peak = Greater(@, level), !.moving = level > 0]

\* Half of the way up in a slot of the attack, a unit down in one of the release.
EnvelopeStep(level, target) ==
  IF target > level THEN level + ((target - level + 1) \div 2)
  ELSE IF target < level THEN level - 1 ELSE level

\* Mutant: a movement that is no longer sampled never ends.
MovesOn(feed) == feed.moving

StillMoving(feed) ==
  feed.moving /\ ~(feed.peak = 0 /\ EnvelopeStep(feed.level, 0) = 0)

NextSlot(feed) ==
  LET level == EnvelopeStep(feed.level, IF feed.moving THEN feed.peak ELSE 0)
      idle == IF feed.peak > 0 THEN 0
              ELSE IF feed.idle < IdleStop THEN feed.idle + 1 ELSE feed.idle
  IN  [feed EXCEPT !.window = @ - SlotUnits, !.level = level, !.idle = idle, !.peak = 0,
                   !.moving = StillMoving(feed),
                   !.streaming = ~(idle >= IdleStop /\ level = 0)]

\* The feed after each of the slots an Advance writes, 0 for the feed before the first.
\* Time that fills no slot is kept, and so are slots beyond the most a batch takes.
Advance(feed, elapsed) ==
  LET window == (feed.window + (elapsed % Width)) % Width
      due == window \div SlotUnits
      count == IF due < MaxSlots THEN due ELSE MaxSlots
      after[n \in 0..count] == IF n = 0 THEN [feed EXCEPT !.window = window]
                               ELSE NextSlot(after[n - 1])
  IN  after
=============================================================================
