--------------------------- MODULE MotionSettings ---------------------------
(***************************************************************************)
(* The parameters of the motion and touch modes and the lines they are     *)
(* kept as (nro/source/motion/motion_settings.c).  Of the sixteen rows the *)
(* four are modelled that constrain each other; the others are clamped to  *)
(* their range and nothing more.  Scaled values and milliseconds are       *)
(* integers that count steps; strtod also makes a value of "nan", which is *)
(* no number and compares as nothing.                                      *)
(***************************************************************************)
EXTENDS Integers, Sequences

Settings == {"deadzone_enter", "deadzone_exit", "frequency_fast_ms", "frequency_still_ms"}

Milliseconds == {"frequency_fast_ms", "frequency_still_ms"}

CONSTANTS
  NaN,              \* the value that is no number
  Least, Most,      \* the range of every row
  Default           \* dglabMotionFeedDefaultConfig

\* In the order of the screen, and so of the file.
Rows == <<"deadzone_enter", "deadzone_exit", "frequency_fast_ms", "frequency_still_ms">>

Values == Int \cup {NaN}
Configs == [Settings -> Values]

\* a < b of two floats: whatever is compared with nan, the answer is no.
Below(a, b) == NaN \notin {a, b} /\ a < b

Related(c) ==
  /\ ~Below(c.deadzone_enter, c.deadzone_exit)
  /\ ~Below(c.frequency_still_ms, c.frequency_fast_ms)
InRow(row, value) == value \in Least[row]..Most[row]
InRange(c) == \A row \in Settings : InRow(row, c[row])

ASSUME SettingsAssumption ==
  /\ Least \in [Settings -> Int] /\ Most \in [Settings -> Int] /\ Default \in [Settings -> Int]
  /\ Related(Least) /\ Related(Default) /\ InRange(Default) /\ InRange(Least)
  /\ NaN \notin Int

Clamped(value, least, most) ==
  IF Below(value, least) THEN least ELSE IF Below(most, value) THEN most ELSE value

\* A scaled value is kept as a float.  Milliseconds are cut to an integer, which C leaves open
\* for nan and the console's processor makes 0.
Stored(row, value) == IF row \in Milliseconds /\ value = NaN THEN 0 ELSE value

\* The value of the upper row, when that of the lower one is above it.
NoMore(value, upper) == IF Below(upper, value) THEN upper ELSE value

\* Mutant: only the pair of the dead zone is kept in order.
FixesDeadzone(c) == [c EXCEPT !.deadzone_exit = NoMore(@, c.deadzone_enter)]

\* It is the lower value of a pair that gives way, whichever was set.
FixRelations(c) ==
  [c EXCEPT !.deadzone_exit = NoMore(@, c.deadzone_enter),
            !.frequency_fast_ms = NoMore(@, c.frequency_still_ms)]

SetSetting(c, row, value) ==
  FixRelations([c EXCEPT ![row] = Stored(row, Clamped(value, Least[row], Most[row]))])

Plus(value, steps) == IF value = NaN THEN NaN ELSE value + steps
Step(c, row, steps) == SetSetting(c, row, Plus(c[row], steps))

\* A line names a row, or nothing this program knows.
Lines == [key : Settings \cup {"unknown"}, value : Values]

Serialized(c) == [i \in 1..Len(Rows) |-> [key |-> Rows[i], value |-> c[Rows[i]]]]

\* A line without a known key and something strtod takes leaves everything as it was.
ParseLine(c, line) ==
  IF line.key \in Settings THEN SetSetting(c, line.key, line.value) ELSE c
=============================================================================
