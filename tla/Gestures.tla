------------------------------ MODULE Gestures ------------------------------
(***************************************************************************)
(* The pages around the feeds (nro/source/main.c, motion/joycon.c): the    *)
(* page that edits the parameters, and the motion and the touch mode,      *)
(* which load them and run a frame at a time.  The two channels of a mode  *)
(* have a feed each and share nothing but the controllers' handles and the *)
(* panel: the feed of channel A is modelled, that of the left Joy-Con and  *)
(* of the left half.  Sensors, panel, clock and SD card are external.      *)
(***************************************************************************)
EXTENDS MotionSettings, MotionFeed, TouchFeed

CONSTANTS
  Elapses,          \* how long a frame may take, in units
  Samples,          \* the readings a poll of a Joy-Con may have, in order
  Frames,           \* the readings a poll of the panel may have
  Edited,           \* what the parameter file may hold before this program wrote it
  QuietPolls,       \* DGLAB_MOTION_SENSOR_QUIET_POLLS, 20
  RescanAfter       \* RESCAN_AFTER_QUIET_POLLS, 120

ASSUME GesturesAssumption ==
  /\ Elapses \subseteq Nat /\ NoFinger \notin Fingers
  /\ QuietPolls \in Nat /\ RescanAfter \in Nat \ {0, 1} /\ QuietPolls <= RescanAfter
  /\ Edited \subseteq Seq(Lines) /\ Frames \subseteq Seq(Readings(Int))

VARIABLES
  page,     \* the page, what it does next, and the line of the file it reads
  file,     \* the lines of the parameter file (external)
  config,   \* the parameters the page works with
  odd,      \* the rows for which the page read a value that is no number
  sides,    \* joycon.c, a record for every side
  feed,     \* the feed of channel A
  halves,   \* which finger has which half, and what the panel has in it this frame
  sent      \* whether the frame uploaded a batch for channel A

vars == <<page, file, config, odd, sides, feed, halves, sent>>

Sides == {"Left", "Right"}
Other(side) == IF side = "Left" THEN "Right" ELSE "Left"

Modes == {"advanced", "motion", "touch"}
Pages == [at : Modes \cup {"menu", "loading"}, line : Nat, goal : Modes \cup {"menu"},
          step : {"idle", "line", "edit", "left", "right", "panel", "advance"}]
Menu == [at |-> "menu", step |-> "idle", line |-> 0, goal |-> "menu"]
Idle == [works |-> FALSE, set |-> 0, quiet |-> 0, connected |-> FALSE]
Empty == [owner |-> NoFinger, down |-> {}, fresh |-> {}]

Init ==
  /\ page = Menu /\ config = Default /\ odd = {} /\ file \in Edited
  /\ sides = [side \in Sides |-> Idle] /\ feed = FeedInit
  /\ halves = [half \in Halves |-> Empty] /\ sent = FALSE

-----------------------------------------------------------------------------
(* Loading: the defaults, then the file, a line at a time.                 *)

Opens(at) ==
  /\ page.at = "menu"
  /\ page' = [at |-> "loading", step |-> "line", line |-> 1, goal |-> at]
  /\ config' = Default /\ odd' = {}
  /\ UNCHANGED <<file, sides, feed, halves, sent>>

ReadLine ==
  /\ page.at = "loading" /\ page.line <= Len(file)
  /\ LET line == file[page.line] IN
       /\ config' = ParseLine(config, line)
       /\ odd' = IF line.value = NaN THEN odd \cup ({line.key} \cap Settings) ELSE odd
  /\ page' = [page EXCEPT !.line = @ + 1]
  /\ UNCHANGED <<file, sides, feed, halves, sent>>

\* What a side has after taking handles: the pair is taken in one call, a single one for
\* each where there is no pair, and starting a sensor may fail.
Taken(works) ==
  [side \in Sides |-> [sides[side] EXCEPT !.works = works[side], !.quiet = 0, !.set = 1 - @]]
Acquires == {Taken(works) : works \in [Sides -> BOOLEAN]}

Entered ==
  /\ page.at = "loading" /\ page.line > Len(file)
  /\ config' = FixRelations(config)
  /\ page' = [Menu EXCEPT !.at = page.goal,
                          !.step = CASE page.goal = "advanced" -> "edit"
                                     [] page.goal = "motion" -> "left"
                                     [] page.goal = "touch" -> "panel"]
  /\ IF page.goal = "motion"
     THEN \E taken \in Acquires :
            sides' = [side \in Sides |-> [taken[side] EXCEPT !.connected = FALSE]]
     ELSE UNCHANGED sides
  /\ UNCHANGED <<file, odd, feed, halves, sent>>

-----------------------------------------------------------------------------
(* The parameters: every change is saved at once.                          *)

\* A file that does not open stays as it is.  One that does is empty first, and a full
\* card or a power off leaves what was written of it.
Cuts(c) == {SubSeq(Serialized(c), 1, n) : n \in 0..Len(Rows)}
Save(c) == file' = file \/ file' \in Cuts(c)

Change(row, steps) ==
  /\ page.at = "advanced" /\ config' = Step(config, row, steps) /\ Save(config')
  /\ UNCHANGED <<page, odd, sides, feed, halves, sent>>

Defaults ==
  /\ page.at = "advanced" /\ config' = Default /\ odd' = {} /\ Save(config')
  /\ UNCHANGED <<page, sides, feed, halves, sent>>

Back ==
  /\ page.at = "advanced" /\ Save(config) /\ page' = Menu /\ config' = Default /\ odd' = {}
  /\ UNCHANGED <<sides, feed, halves, sent>>

Advanced ==
  \/ \E row \in Settings, steps \in {-1, 1} : Change(row, steps)
  \/ Defaults \/ Back

-----------------------------------------------------------------------------
(* A frame of the motion mode: poll the left side, then the right one,     *)
(* then write the slots that are due.                                      *)

\* Mutant: a side that has been silent takes its handles by itself.
SilentAlone(polled, side) == polled[side].quiet >= RescanAfter

\* One silent side is normal.
BothSilent(polled, side) == \A s \in Sides : polled[s].quiet >= RescanAfter

\* A side the pad calls unusable keeps its count and its handles.
Unusable(side) == sides' = [sides EXCEPT ![side].connected = FALSE]

Smaller(a, b) == IF a < b THEN a ELSE b

\* A live sensor has readings with every poll.
Polled(side, samples) ==
  LET quiet == IF samples # <<>> THEN 0 ELSE Smaller(sides[side].quiet + 1, RescanAfter)
      polled == [sides EXCEPT ![side].quiet = quiet]
      Row(s) == [s EXCEPT ![side].connected =
                   samples # <<>> \/ (@ /\ s[side].quiet < QuietPolls)]
  IN  IF BothSilent(polled, side)
      THEN \E works \in [Sides -> BOOLEAN] :
             sides' = Row([s \in Sides |-> [polled[s] EXCEPT !.works = works[s], !.quiet = 0,
                                                             !.set = 1 - @]])
      ELSE sides' = Row(polled)

Poll(side, samples) == (samples # <<>> => sides[side].works) /\ Polled(side, samples)

\* The samples of a poll, one after the other.
Fed(samples) ==
  FoldLeft(LAMBDA f, raw : AddSample(f, config, raw), feed, samples)

PollLeft ==
  /\ page.step = "left" /\ page' = [page EXCEPT !.step = "right"]
  /\ \/ Unusable("Left") /\ UNCHANGED feed
     \/ \E samples \in Samples : Poll("Left", samples) /\ feed' = Fed(samples)
  /\ UNCHANGED <<file, config, odd, halves, sent>>

PollRight ==
  /\ page.step = "right" /\ page' = [page EXCEPT !.step = "advance"]
  /\ Unusable("Right") \/ \E samples \in Samples : Poll("Right", samples)
  /\ UNCHANGED <<file, config, odd, feed, halves, sent>>

\* A batch that is all silence is not uploaded.
Writes(elapsed) ==
  /\ page.step = "advance"
  /\ LET after == Advance(feed, elapsed)
         count == Max(DOMAIN after)
     IN  feed' = after[count] /\ sent' = (\E n \in 1..count : after[n].level > 0)
  /\ page' = [page EXCEPT !.step = IF page.at = "motion" THEN "left" ELSE "panel"]
  /\ halves' = [half \in Halves |-> [Empty EXCEPT !.owner = halves[half].owner]]
  /\ UNCHANGED <<file, config, odd, sides>>

\* Y takes a fresh set of handles, between the clock and the polls.
Rescan ==
  /\ page.step = "left" /\ sides' \in Acquires
  /\ UNCHANGED <<page, file, config, odd, feed, halves, sent>>

\* B: the sensors are stopped, what is queued is cleared, and the page's own state ends.
Leaves ==
  /\ page.step \in {"left", "panel"} /\ page' = Menu /\ config' = Default /\ odd' = {}
  /\ sent' = FALSE
  /\ sides' = [side \in Sides |-> Idle] /\ feed' = FeedInit
  /\ halves' = [half \in Halves |-> Empty] /\ UNCHANGED file

-----------------------------------------------------------------------------
(* A frame of the touch mode: the panel, who has which half, the slots.    *)

Updated(frame) ==
  [half \in Halves |->
     [owner |-> PickOwner(frame, half, halves[half].owner),
      down |-> {frame[i].finger : i \in Within(frame, half)},
      fresh |-> {frame[i].finger : i \in {j \in Within(frame, half) : frame[j].start}}]]

\* The level of the reading that has the half.
LevelOf(frame, finger) ==
  frame[CHOOSE i \in Within(frame, "A") : frame[i].finger = finger].level

Touches ==
  /\ page.step = "panel" /\ page' = [page EXCEPT !.step = "advance"]
  /\ \E frame \in Frames :
       /\ halves' = Updated(frame)
       /\ feed' = IF halves'["A"].owner = NoFinger THEN feed
                  ELSE SetTarget(feed, LevelOf(frame, halves'["A"].owner))
  /\ UNCHANGED <<file, config, odd, sides, sent>>

-----------------------------------------------------------------------------
Loading == ReadLine \/ Entered
Frame == PollLeft \/ PollRight \/ Touches \/ \E elapsed \in Elapses : Writes(elapsed)

Next ==
  \/ \E at \in Modes : Opens(at)
  \/ Loading \/ Advanced \/ Rescan \/ Leaves \/ Frame

Spec == Init /\ [][Next]_vars

(* The program's one thread goes on by itself: it reads its file to the end and runs frame
   after frame. *)
FairSpec == Spec /\ WF_vars(Loading) /\ WF_vars(Frame)


-----------------------------------------------------------------------------
(* Properties. *)

\* The states of the model.
TypeOK ==
  /\ page \in Pages /\ file \in Seq(Lines) /\ config \in Configs /\ odd \subseteq Settings
  /\ feed \in Feeds /\ sent \in BOOLEAN
  /\ sides \in [Sides -> [works : BOOLEAN, set : 0..1, quiet : 0..RescanAfter,
                          connected : BOOLEAN]]
  /\ halves \in [Halves -> [owner : Fingers \cup {NoFinger}, down : SUBSET Fingers,
                            fresh : SUBSET Fingers]]

\* The row that puts a limit to another one, or the row itself.
Upper(row) ==
  CASE row = "deadzone_exit" -> "deadzone_enter"
    [] row = "frequency_fast_ms" -> "frequency_still_ms" [] OTHER -> row

(* Whatever a file holds, saved, cut off or edited by hand, and however the rows are
   stepped, the dead zone's exit is never above its entry, nor the fast interval above the
   still one, and a row is outside of its range only while "nan" was read for it or for the
   row above it since the defaults were set (motion_settings.c:127-135). *)
RelationsHold ==
  /\ Related(config)
  /\ \A row \in Settings : InRow(row, config[row]) \/ {row, Upper(row)} \cap odd # {}

(* motion_settings.c:367-368: "A malformed value leaves the setting as it was rather than
   silently resetting it to something else": a line that holds no number changes no row. *)
MalformedLeavesRow ==
  [][page.at = "loading" /\ page'.at = "loading" =>
       (file[page.line].value = NaN => config' = config)]_vars

(* A half is never left with a finger that is gone, never without one that is there, and
   a finger that is still down loses it only to one that just went down
   (touch_feed.c:59-66). *)
FollowsLiveFinger ==
  [][page.step = "panel" /\ page'.step = "advance" => \A half \in Halves :
       LET old == halves[half].owner
           new == halves'[half].owner
           down == halves'[half].down
       IN  /\ IF down = {} THEN new = NoFinger ELSE new \in down
           /\ new # old /\ old \in down => new \in halves'[half].fresh]_vars

(* A controller that delivers keeps its handle however long the other one is silent: but
   for Y, the handles are taken again only when both have been (joycon.c:23-28, 259-267). *)
LivingKeepsHandle ==
  [][page.step \in {"left", "right"} /\ page'.step \in {"right", "advance"} =>
       \A side \in Sides : sides[side].quiet = 0 => sides'[side].set = sides[side].set]_vars

(* An input that goes away, a controller turned off or a finger lifted, ends in silence
   and in a row that says still, though nothing is sampled any more
   (motion_feed.c:231-250).  The frames have to be of ordinary length in the end: one of
   Width and more is taken for a short one. *)
OrdinaryFrames ==
  [][page.step = "advance" =>
       \E elapsed \in {e \in Elapses : e <= SlotUnits} : Writes(elapsed)]_vars
Silent == page.step = "advance" => feed.peak = 0
EndsStill ==
  <>[](page.at \in {"motion", "touch"} /\ Silent) /\ <>OrdinaryFrames =>
    <>[](~sent /\ ~feed.moving)

(* tests/motion/test_motion_settings.c:6: "the config file round trips".  What a mode
   loads is what was saved, if the whole of it was. *)
SettingsSurvive ==
  page.at \in {"motion", "touch"} =>
    \A c \in [Settings -> 0..Most["frequency_still_ms"]] :
      Related(c) /\ InRange(c) /\ file = Serialized(c) => config = c
=============================================================================
