--------------------------- MODULE GesturesProofs ---------------------------
(***************************************************************************)
(* Whatever the file holds, the parameters a page works with keep their    *)
(* relations, and their ranges but for what "nan" was read for.  The       *)
(* loader sets one row after the other and puts the pairs right after      *)
(* each, so the invariant holds within a load too.                         *)
(* Whatever the panel and the controllers report, a half follows a finger  *)
(* that is there, and a controller that delivers keeps its handle.         *)
(***************************************************************************)
EXTENDS Gestures, SequenceTheorems, WellFoundedInduction, TLAPS

\* Every row is in its range, or "nan" was read for it or for the row above it.
RangeBut(c, rows) ==
  \A row \in Settings : InRow(row, c[row]) \/ {row, Upper(row)} \cap rows # {}

(* A page at a line of the file, the file of lines with a value, and parameters that are
   sound. *)
IInv ==
  /\ page \in Pages
  /\ page.at = "loading" => page.line >= 1 /\ page.goal \in Modes
  /\ file \in Seq(Lines)
  /\ config \in Configs /\ Related(config) /\ RangeBut(config, odd)

(* Putting the pairs right puts no row out of its range: the lower value that gives way is
   not below what its own row allows. *)
LEMMA FixKeeps ==
  ASSUME NEW c \in Configs, NEW rows, RangeBut(c, rows)
  PROVE  /\ FixRelations(c) \in Configs /\ Related(FixRelations(c))
         /\ RangeBut(FixRelations(c), rows)
<1>1. /\ c["deadzone_exit"] \in Values /\ c["deadzone_enter"] \in Values
      /\ c["frequency_fast_ms"] \in Values /\ c["frequency_still_ms"] \in Values
  BY DEF Configs, Settings
<1>2. NaN \notin Int /\ Least \in [Settings -> Int] /\ Most \in [Settings -> Int]
  BY SettingsAssumption
<1>3. /\ Least["deadzone_exit"] <= Least["deadzone_enter"]
      /\ Least["frequency_fast_ms"] <= Least["frequency_still_ms"]
  <2>1. \A row \in Settings : Least[row] \in Int /\ Least[row] # NaN
    BY <1>2
  <2>2. Related(Least)
    BY SettingsAssumption
  <2>3. QED
    BY <2>1, <2>2 DEF Related, Below, Settings
<1>4. ASSUME NEW value \in Values, NEW upper \in Values
      PROVE  NoMore(value, upper) \in {value, upper} /\ ~Below(upper, NoMore(value, upper))
  BY <1>2 DEF NoMore, Below, Values
<1>5. /\ FixRelations(c) \in Configs
      /\ FixRelations(c)["deadzone_exit"] = NoMore(c["deadzone_exit"], c["deadzone_enter"])
      /\ FixRelations(c)["frequency_fast_ms"]
           = NoMore(c["frequency_fast_ms"], c["frequency_still_ms"])
      /\ FixRelations(c)["deadzone_enter"] = c["deadzone_enter"]
      /\ FixRelations(c)["frequency_still_ms"] = c["frequency_still_ms"]
  <2>1. /\ NoMore(c["deadzone_exit"], c["deadzone_enter"]) \in Values
        /\ NoMore(c["frequency_fast_ms"], c["frequency_still_ms"]) \in Values
    BY <1>1, <1>4
  <2>2. QED
    BY <1>1, <2>1 DEF FixRelations, Configs, Settings
<1>6. Related(FixRelations(c))
  BY <1>1, <1>4, <1>5 DEF Related
<1>7. ASSUME NEW row \in Settings, NEW upper \in Settings, upper = Upper(row), row # upper,
             Least[row] <= Least[upper],
             FixRelations(c)[row] = NoMore(c[row], c[upper])
      PROVE  InRow(row, FixRelations(c)[row]) \/ {row, Upper(row)} \cap rows # {}
  <2>1. /\ InRow(row, c[row]) \/ {row, upper} \cap rows # {}
        /\ InRow(upper, c[upper]) \/ {upper, Upper(upper)} \cap rows # {}
    BY <1>7 DEF RangeBut
  <2>2. Upper(upper) = upper
    BY <1>7 DEF Upper, Settings
  <2>3. Least[row] \in Int /\ Most[row] \in Int /\ Least[upper] \in Int /\ Most[upper] \in Int
    BY <1>2
  <2>4. InRow(row, c[row]) /\ InRow(upper, c[upper]) => InRow(row, NoMore(c[row], c[upper]))
    BY <1>2, <1>7, <2>3 DEF InRow, NoMore, Below
  <2>5. QED
    BY <1>7, <2>1, <2>2, <2>4
<1>8. ASSUME NEW row \in Settings
      PROVE  InRow(row, FixRelations(c)[row]) \/ {row, Upper(row)} \cap rows # {}
  <2>1. CASE row = "deadzone_exit"
    BY <1>3, <1>5, <1>7, <2>1 DEF Upper, Settings
  <2>2. CASE row = "frequency_fast_ms"
    BY <1>3, <1>5, <1>7, <2>2 DEF Upper, Settings
  <2>3. CASE row \in {"deadzone_enter", "frequency_still_ms"}
    BY <1>5, <2>3 DEF RangeBut, Settings
  <2>4. QED
    BY <2>1, <2>2, <2>3 DEF Settings
<1>9. QED
  BY <1>5, <1>6, <1>8 DEF RangeBut

(* Setting a row, to whatever value: what is no number has to have been read for the row or
   for the one above it. *)
LEMMA SetKeeps ==
  ASSUME NEW c \in Configs, NEW rows, NEW more, rows \subseteq more, RangeBut(c, rows),
         NEW row \in Settings, NEW value \in Values,
         value = NaN => {row, Upper(row)} \cap more # {}
  PROVE  /\ SetSetting(c, row, value) \in Configs
         /\ Related(SetSetting(c, row, value)) /\ RangeBut(SetSetting(c, row, value), more)
<1> DEFINE new == Stored(row, Clamped(value, Least[row], Most[row]))
           set == [c EXCEPT ![row] = new]
<1>1. NaN \notin Int /\ Least[row] \in Int /\ Most[row] \in Int /\ Least[row] <= Most[row]
  <2>1. Least \in [Settings -> Int] /\ Most \in [Settings -> Int] /\ InRange(Least)
    BY SettingsAssumption
  <2>2. QED
    BY <2>1, SettingsAssumption DEF InRange, InRow
<1>2. new \in Values /\ (value # NaN => InRow(row, new))
  BY <1>1 DEF Clamped, Below, Stored, Values, InRow
<1> HIDE DEF new
<1>3. set \in Configs
  BY <1>2 DEF Configs
<1>4. ASSUME NEW r \in Settings
      PROVE  InRow(r, set[r]) \/ {r, Upper(r)} \cap more # {}
  <2>1. CASE r = row
    BY <1>2, <2>1 DEF Configs
  <2>2. CASE r # row
    BY <2>2 DEF Configs, RangeBut
  <2>3. QED
    BY <2>1, <2>2
<1>5. RangeBut(set, more)
  BY <1>4 DEF RangeBut
<1> HIDE DEF set
<1>6. SetSetting(c, row, value) = FixRelations(set)
  BY DEF SetSetting, set, new
<1>7. QED
  BY <1>3, <1>5, <1>6, FixKeeps

(* What a save leaves in the file is a sequence of lines again, wherever it is cut. *)
LEMMA CutsAreLines ==
  ASSUME NEW c \in Configs
  PROVE  Cuts(c) \subseteq Seq(Lines)
<1>1. Rows \in Seq(Settings) /\ Len(Rows) = 4
  BY DEF Rows, Settings
<1>2. \A i \in 1..4 : Rows[i] \in Settings
  BY <1>1
<1>3. \A i \in 1..4 : c[Rows[i]] \in Values
  BY <1>2 DEF Configs
<1>4. Serialized(c) \in Seq(Lines) /\ Len(Serialized(c)) = 4
  BY <1>1, <1>2, <1>3 DEF Serialized, Lines
<1>5. ASSUME NEW n \in 0..Len(Rows)
      PROVE  SubSeq(Serialized(c), 1, n) \in Seq(Lines)
  <2>1. n \in 0..4 /\ n \in Int
    BY <1>1
  <2>2. \A i \in 1..4 : Serialized(c)[i] \in Lines
    BY <1>4, ElementOfSeq
  <2>3. \A i \in 1..n : Serialized(c)[i] \in Lines
    BY <2>1, <2>2
  <2>4. QED
    BY <2>1, <2>3, SubSeqProperties
<1>6. QED
  BY <1>5 DEF Cuts

LEMMA DefaultIsSound == Default \in Configs /\ Related(Default) /\ RangeBut(Default, {})
BY SettingsAssumption DEF Configs, Values, RangeBut, InRange

LEMMA InitSound == Init => IInv
BY DefaultIsSound, GesturesAssumption DEF Init, IInv, Menu, Pages, Modes

LEMMA NextSound == IInv /\ [Next]_vars => IInv'
<1> SUFFICES ASSUME IInv, [Next]_vars PROVE IInv'
  OBVIOUS
<1> USE DEF IInv, Pages, Modes
<1>1. ASSUME NEW at \in Modes, Opens(at) PROVE IInv'
  BY <1>1, DefaultIsSound DEF Opens
<1>2. CASE ReadLine
  <2>1. file[page.line].value \in Values
    <3>1. page.line \in 1..Len(file)
      BY <1>2 DEF ReadLine
    <3>2. file[page.line] \in Lines
      BY <3>1
    <3>3. QED
      BY <3>2 DEF Lines
  <2>2. config' \in Configs /\ Related(config') /\ RangeBut(config', odd')
    <3>1. CASE file[page.line].key \in Settings
      <4> DEFINE line == file[page.line]
      <4>1. config' = SetSetting(config, line.key, line.value)
        BY <1>2, <3>1 DEF ReadLine, ParseLine
      <4>2. odd \subseteq odd' /\ (line.value = NaN => {line.key, Upper(line.key)} \cap odd' # {})
        BY <1>2, <3>1 DEF ReadLine
      <4> HIDE DEF line
      <4>3. QED
        BY <2>1, <3>1, <4>1, <4>2, SetKeeps DEF line
    <3>2. CASE file[page.line].key \notin Settings
      <4>1. config' = config /\ odd \subseteq odd'
        BY <1>2, <3>2 DEF ReadLine, ParseLine
      <4>2. QED
        BY <4>1 DEF RangeBut
    <3>3. QED
      BY <3>1, <3>2
  <2>3. QED
    BY <1>2, <2>2 DEF ReadLine
<1>3. CASE Entered
  <2>1. config' \in Configs /\ Related(config') /\ RangeBut(config', odd')
    BY <1>3, FixKeeps DEF Entered
  <2>2. page' \in Pages
    BY <1>3 DEF Entered, Menu
  <2>3. page'.at # "loading"
    BY <1>3 DEF Entered, Menu
  <2>4. QED
    BY <1>3, <2>1, <2>2, <2>3 DEF Entered
<1>4. CASE Advanced
  <2>1. ASSUME NEW row \in Settings, NEW steps \in {-1, 1}, Change(row, steps) PROVE IInv'
    <3>1. config' \in Configs /\ Related(config') /\ RangeBut(config', odd')
      <4>1. config[row] \in Values /\ NaN \notin Int
        BY SettingsAssumption DEF Configs
      <4>2. Plus(config[row], steps) \in Values
        BY <4>1 DEF Plus, Values
      <4>3. Plus(config[row], steps) = NaN => config[row] = NaN
        BY <4>1 DEF Plus, Values
      <4>4. config[row] = NaN => {row, Upper(row)} \cap odd # {}
        BY <4>1, SettingsAssumption DEF RangeBut, InRow
      <4>5. config' = SetSetting(config, row, Plus(config[row], steps)) /\ odd' = odd
        BY <2>1 DEF Change, Step
      <4>6. QED
        BY <4>2, <4>3, <4>4, <4>5, SetKeeps
    <3>2. QED
      BY <2>1, <3>1, CutsAreLines DEF Change, Save
  <2>2. CASE Defaults
    BY <2>2, DefaultIsSound, CutsAreLines DEF Defaults, Save
  <2>3. CASE Back
    BY <2>3, DefaultIsSound, CutsAreLines DEF Back, Save, Menu
  <2>4. QED
    BY <1>4, <2>1, <2>2, <2>3 DEF Advanced
<1>5. CASE Rescan
  BY <1>5 DEF Rescan
<1>6. CASE Leaves
  BY <1>6, DefaultIsSound DEF Leaves, Menu
<1>7. CASE Frame
  <2>1. CASE PollLeft
    BY <2>1 DEF PollLeft
  <2>2. CASE PollRight
    BY <2>2 DEF PollRight
  <2>3. CASE Touches
    BY <2>3 DEF Touches
  <2>4. ASSUME NEW elapsed \in Elapses, Writes(elapsed) PROVE IInv'
    BY <2>4 DEF Writes
  <2>5. QED
    BY <1>7, <2>1, <2>2, <2>3, <2>4 DEF Frame
<1>8. CASE UNCHANGED vars
  BY <1>8 DEF vars
<1>9. QED
  BY <1>1, <1>2, <1>3, <1>4, <1>5, <1>6, <1>7, <1>8 DEF Next, Loading

(* The parameters keep their relations, and their ranges but for the rows "nan" was read
   for, for any ranges whose lower ends and defaults are related that way, any file, and
   any cut of a save (motion_settings.c:120-135, 338-388). *)
THEOREM SettingsStaySound == Spec => []RelationsHold
<1>1. IInv => RelationsHold
  BY DEF IInv, RelationsHold, RangeBut
<1>2. QED
  BY <1>1, InitSound, NextSound, PTL DEF Spec
-----------------------------------------------------------------------------
(* Who has a half of the panel. *)

\* A set of positions that is not empty has a last one.
LEMMA LastIn ==
  ASSUME NEW n \in Nat, NEW set \in SUBSET (1..n), set # {}
  PROVE  Max(set) \in set
<1> DEFINE Bounds == {k \in Nat : \A i \in set : i <= k}
           less == {p \in Nat \X Nat : p[1] < p[2]}
<1>1. n \in Bounds /\ Bounds \subseteq Nat
  OBVIOUS
<1>2. \E m \in Bounds : \A k \in Bounds : ~ (<<k, m>> \in less)
  <2> HIDE DEF Bounds, less
  <2>1. IsWellFoundedOn(less, Nat)
    BY NatLessThanWellFounded DEF less, OpToRel
  <2>2. QED
    BY <1>1, <2>1, WFMin
<1>3. PICK m \in Bounds : \A k \in Bounds : ~ (k < m)
  BY <1>1, <1>2
<1>4. m \in set
  <2> SUFFICES ASSUME m \notin set PROVE FALSE
    OBVIOUS
  <2>1. PICK i \in set : TRUE
    OBVIOUS
  <2>2. m - 1 \in Bounds
    <3>1. m \in Nat /\ i <= m /\ i >= 1
      BY <1>3, <2>1
    <3>2. \A j \in set : j \in Nat /\ j <= m /\ j # m
      BY <1>3
    <3>3. QED
      BY <3>1, <3>2
  <2>3. QED
    BY <1>3, <2>2
<1>5. \A i \in set : m >= i
  BY <1>3
<1>6. QED
  BY <1>4, <1>5 DEF Max

\* What a frame says of a half.
Down(frame, half) == {frame[i].finger : i \in Within(frame, half)}
Started(frame, half) == {frame[i].finger : i \in {j \in Within(frame, half) : frame[j].start}}

LEMMA OwnerIsDown ==
  ASSUME NEW frame \in Seq(Readings(Int)), NEW half \in Halves, NEW current
  PROVE  LET owner == PickOwner(frame, half, current)
         IN  /\ IF Down(frame, half) = {} THEN owner = NoFinger ELSE owner \in Down(frame, half)
             /\ owner # current /\ current \in Down(frame, half) => owner \in Started(frame, half)
<1> DEFINE any == Within(frame, half)
           new == {i \in any : frame[i].start}
<1>1. any \in SUBSET (1..Len(frame)) /\ new \in SUBSET (1..Len(frame)) /\ Len(frame) \in Nat
  BY DEF Within
<1>2. any # {} => Max(any) \in any
  BY <1>1, LastIn
<1>3. new # {} => Max(new) \in new
  BY <1>1, LastIn
<1>4. any = {} <=> Down(frame, half) = {}
  BY DEF Down
<1> HIDE DEF any
<1>5. CASE any = {}
  BY <1>4, <1>5 DEF PickOwner, any
<1>6. CASE new # {}
  <2>1. PickOwner(frame, half, current) = frame[Max(new)].finger
    BY <1>6 DEF PickOwner, Latest, any
  <2>2. frame[Max(new)].finger \in Started(frame, half)
    BY <1>3, <1>6 DEF Started, any
  <2>3. Started(frame, half) \subseteq Down(frame, half)
    BY DEF Started, Down
  <2>4. QED
    BY <2>1, <2>2, <2>3
<1>7. CASE any # {} /\ new = {}
  <2>1. PickOwner(frame, half, current) =
          IF \E i \in any : frame[i].finger = current THEN current ELSE frame[Max(any)].finger
    BY <1>7 DEF PickOwner, Latest, any
  <2>2. current \in Down(frame, half) <=> \E i \in any : frame[i].finger = current
    BY DEF Down, any
  <2>3. frame[Max(any)].finger \in Down(frame, half)
    BY <1>2, <1>7 DEF Down, any
  <2>4. QED
    BY <2>1, <2>2, <2>3
<1>8. QED
  BY <1>5, <1>6, <1>7

\* The step of the property that is not the panel's.
LEMMA PanelStep ==
  ASSUME IInv, [Next]_vars, page.step = "panel", page'.step = "advance"
  PROVE  Touches
<1>1. ASSUME NEW at \in Modes, Opens(at) PROVE FALSE
  BY <1>1 DEF Opens
<1>2. CASE ReadLine
  BY <1>2 DEF ReadLine, IInv, Pages
<1>3. CASE Entered
  BY <1>3 DEF Entered, Menu, IInv, Modes
<1>4. CASE Advanced
  BY <1>4 DEF Advanced, Change, Defaults, Back, Menu
<1>5. CASE Rescan \/ Leaves
  BY <1>5 DEF Rescan, Leaves, Menu
<1>6. CASE Frame
  BY <1>6 DEF Frame, PollLeft, PollRight, Writes
<1>7. CASE UNCHANGED vars
  BY <1>7 DEF vars
<1>8. QED
  BY <1>1, <1>2, <1>3, <1>4, <1>5, <1>6, <1>7 DEF Next, Loading

(* Whatever the panel reports, a half is never left with a finger that is gone, never without
   one that is there, and a finger that is still down loses it only to one that just went
   down (touch_feed.c:59-66). *)
THEOREM HalfFollowsFinger == Spec => FollowsLiveFinger
<1>1. ASSUME IInv, [Next]_vars, page.step = "panel", page'.step = "advance", NEW half \in Halves
      PROVE  LET old == halves[half].owner
                 new == halves'[half].owner
                 down == halves'[half].down
             IN  /\ IF down = {} THEN new = NoFinger ELSE new \in down
                 /\ new # old /\ old \in down => new \in halves'[half].fresh
  <2>1. PICK frame \in Frames : halves' = Updated(frame)
    BY <1>1, PanelStep DEF Touches
  <2>2. frame \in Seq(Readings(Int))
    BY GesturesAssumption
  <2>3. /\ halves'[half].owner = PickOwner(frame, half, halves[half].owner)
        /\ halves'[half].down = Down(frame, half)
        /\ halves'[half].fresh = Started(frame, half)
    BY <2>1, <1>1 DEF Updated, Down, Started
  <2>4. QED
    BY <1>1, <2>2, <2>3, OwnerIsDown
<1>2. IInv /\ [Next]_vars =>
        [page.step = "panel" /\ page'.step = "advance" => \A half \in Halves :
           LET old == halves[half].owner
               new == halves'[half].owner
               down == halves'[half].down
           IN  /\ IF down = {} THEN new = NoFinger ELSE new \in down
               /\ new # old /\ old \in down => new \in halves'[half].fresh]_vars
  BY <1>1
<1>3. QED
  BY <1>2, InitSound, NextSound, PTL DEF Spec, FollowsLiveFinger

-----------------------------------------------------------------------------
(* The handles of the controllers. *)

SideStates == [works : BOOLEAN, set : 0..1, quiet : 0..RescanAfter, connected : BOOLEAN]
SidesTyped == sides \in [Sides -> SideStates]

LEMMA AcquiresType == SidesTyped => Acquires \subseteq [Sides -> SideStates]
<1> SUFFICES ASSUME SidesTyped, NEW works \in [Sides -> BOOLEAN]
             PROVE  Taken(works) \in [Sides -> SideStates]
  BY DEF Acquires
<1>1. ASSUME NEW side \in Sides
      PROVE  [sides[side] EXCEPT !.works = works[side], !.quiet = 0, !.set = 1 - @] \in SideStates
  <2>1. sides[side] \in SideStates /\ works[side] \in BOOLEAN
    BY <1>1 DEF SidesTyped
  <2>2. 0 \in 0..RescanAfter /\ 1 - sides[side].set \in 0..1
    BY <2>1, GesturesAssumption DEF SideStates
  <2>3. QED
    BY <2>1, <2>2 DEF SideStates
<1>2. QED
  BY <1>1 DEF Taken
\* What a poll leaves of the sides: a live one keeps its handle.
KeepsLiving == \A side \in Sides : sides[side].quiet = 0 => sides'[side].set = sides[side].set

LEMMA UnusableKeeps ==
  ASSUME SidesTyped, NEW side \in Sides, Unusable(side)
  PROVE  sides' \in [Sides -> SideStates] /\ KeepsLiving
BY DEF SidesTyped, SideStates, Unusable, KeepsLiving

LEMMA PollKeeps ==
  ASSUME SidesTyped, NEW side \in Sides, NEW samples, Poll(side, samples)
  PROVE  sides' \in [Sides -> SideStates] /\ KeepsLiving
<1> DEFINE quiet == IF samples # <<>> THEN 0 ELSE Smaller(sides[side].quiet + 1, RescanAfter)
           polled == [sides EXCEPT ![side].quiet = quiet]
           Row(s) == [s EXCEPT ![side].connected =
                        samples # <<>> \/ (@ /\ s[side].quiet < QuietPolls)]
<1>1. /\ quiet \in 0..RescanAfter
      /\ sides[side].quiet = 0 => quiet < RescanAfter
  BY GesturesAssumption DEF SidesTyped, SideStates, Smaller
<1>2. /\ polled \in [Sides -> SideStates]
      /\ \A s \in Sides : polled[s].set = sides[s].set
      /\ \A s \in Sides : sides[s].quiet = 0 => polled[s].quiet < RescanAfter
  <2> HIDE DEF quiet
  <2>1. polled \in [Sides -> SideStates]
    BY <1>1 DEF SidesTyped, SideStates
  <2>2. QED
    BY <1>1, <2>1, GesturesAssumption DEF SidesTyped, SideStates
<1> HIDE DEF polled, quiet
<1>3. ASSUME NEW s \in [Sides -> SideStates]
      PROVE  Row(s) \in [Sides -> SideStates] /\ \A i \in Sides : Row(s)[i].set = s[i].set
  <2> DEFINE now == samples # <<>> \/ (s[side].connected /\ s[side].quiet < QuietPolls)
  <2>1. now \in BOOLEAN
    OBVIOUS
  <2>2. Row(s) = [s EXCEPT ![side].connected = now]
    OBVIOUS
  <2> HIDE DEF now
  <2>3. QED
    BY <2>1, <2>2 DEF SideStates
<1>4. CASE ~BothSilent(polled, side)
  <2>1. sides' = Row(polled)
    BY <1>4 DEF Poll, Polled, polled, quiet
  <2>2. QED
    BY <1>2, <1>3, <2>1 DEF KeepsLiving
<1>5. CASE BothSilent(polled, side)
  <2>1. PICK works \in [Sides -> BOOLEAN] :
          sides' = Row([s \in Sides |-> [polled[s] EXCEPT !.works = works[s], !.quiet = 0,
                                                          !.set = 1 - @]])
    BY <1>5 DEF Poll, Polled, polled, quiet
  <2>2. ASSUME NEW s \in Sides
        PROVE  [polled[s] EXCEPT !.works = works[s], !.quiet = 0, !.set = 1 - @] \in SideStates
    <3>1. polled[s] \in SideStates /\ works[s] \in BOOLEAN
      BY <1>2
    <3>2. 0 \in 0..RescanAfter /\ 1 - polled[s].set \in 0..1
      BY <3>1, GesturesAssumption DEF SideStates
    <3>3. QED
      BY <3>1, <3>2 DEF SideStates
  <2>3. sides' \in [Sides -> SideStates]
    BY <1>3, <2>1, <2>2
  <2>4. \A s \in Sides : sides[s].quiet # 0
    <3>1. \A s \in Sides : polled[s].quiet >= RescanAfter
      BY <1>5 DEF BothSilent
    <3>2. \A s \in Sides : polled[s].quiet \in Nat
      BY <1>2, GesturesAssumption DEF SideStates
    <3>3. QED
      BY <1>2, <3>1, <3>2, GesturesAssumption
  <2>5. QED
    BY <2>3, <2>4 DEF KeepsLiving
<1>6. QED
  BY <1>4, <1>5

LEMMA PollsKeep ==
  ASSUME SidesTyped, PollLeft \/ PollRight
  PROVE  sides' \in [Sides -> SideStates] /\ KeepsLiving
<1>1. "Left" \in Sides /\ "Right" \in Sides
  BY DEF Sides
<1>2. \/ \E side \in Sides : Unusable(side)
      \/ \E side \in Sides, samples \in Samples : Poll(side, samples)
  BY <1>1 DEF PollLeft, PollRight
<1>3. QED
  BY <1>2, UnusableKeeps, PollKeeps

LEMMA SidesInit == Init => SidesTyped
BY GesturesAssumption DEF Init, SidesTyped, SideStates, Idle

LEMMA SidesNext == SidesTyped /\ [Next]_vars => SidesTyped'
<1> SUFFICES ASSUME SidesTyped, [Next]_vars PROVE sides' \in [Sides -> SideStates]
  BY DEF SidesTyped
<1>1. UNCHANGED sides => sides' \in [Sides -> SideStates]
  BY DEF SidesTyped
<1>2. ASSUME NEW at \in Modes, Opens(at) PROVE sides' \in [Sides -> SideStates]
  BY <1>1, <1>2 DEF Opens
<1>3. CASE ReadLine \/ Advanced
  BY <1>1, <1>3 DEF ReadLine, Advanced, Change, Defaults, Back
<1>4. CASE Entered
  <2>1. ASSUME NEW taken \in [Sides -> SideStates]
        PROVE  [side \in Sides |-> [taken[side] EXCEPT !.connected = FALSE]] \in [Sides -> SideStates]
    BY DEF SideStates
  <2>2. QED
    BY <1>1, <1>4, <2>1, AcquiresType DEF Entered
<1>5. CASE Rescan
  BY <1>5, AcquiresType DEF Rescan
<1>6. CASE Leaves
  BY <1>6, GesturesAssumption DEF Leaves, Idle, SideStates
<1>7. CASE Frame
  BY <1>1, <1>7, PollsKeep DEF Frame, Touches, Writes
<1>8. CASE UNCHANGED vars
  BY <1>1, <1>8 DEF vars
<1>9. QED
  BY <1>2, <1>3, <1>4, <1>5, <1>6, <1>7, <1>8 DEF Next, Loading

\* The steps of the property are the polls, and the steps that take no handles.
LEMMA PollStep ==
  ASSUME IInv, [Next]_vars, page.step \in {"left", "right"}, page'.step \in {"right", "advance"}
  PROVE  PollLeft \/ PollRight \/ UNCHANGED sides
<1>1. ASSUME NEW at \in Modes, Opens(at) PROVE UNCHANGED sides
  BY <1>1 DEF Opens
<1>2. CASE ReadLine \/ Advanced
  BY <1>2 DEF ReadLine, Advanced, Change, Defaults, Back
<1>3. CASE Entered
  BY <1>3 DEF Entered, Menu, IInv, Modes
<1>4. CASE Rescan \/ Leaves
  BY <1>4 DEF Rescan, Leaves, Menu
<1>5. CASE Frame
  BY <1>5 DEF Frame, Touches, Writes
<1>6. CASE UNCHANGED vars
  BY <1>6 DEF vars
<1>7. QED
  BY <1>1, <1>2, <1>3, <1>4, <1>5, <1>6 DEF Next, Loading

(* For any limits, of which the one for a rescan is more than one poll: a controller that
   delivers keeps its handle however long the other one is silent (joycon.c:23-28,
   259-267). *)
THEOREM LivingHandleKept == Spec => LivingKeepsHandle
<1>1. IInv /\ SidesTyped /\ [Next]_vars =>
        [page.step \in {"left", "right"} /\ page'.step \in {"right", "advance"} =>
           \A side \in Sides : sides[side].quiet = 0 => sides'[side].set = sides[side].set]_vars
  <2> SUFFICES ASSUME IInv, SidesTyped, [Next]_vars, page.step \in {"left", "right"},
                      page'.step \in {"right", "advance"}
               PROVE  KeepsLiving
    BY DEF KeepsLiving
  <2>1. QED
    BY PollStep, PollsKeep DEF KeepsLiving
<1>2. QED
  BY <1>1, InitSound, NextSound, SidesInit, SidesNext, PTL DEF Spec, LivingKeepsHandle
=============================================================================
