------------------------------ MODULE FrontEnd ------------------------------
(***************************************************************************)
(* The front end (nro/source/main.c): one thread that shows a page at a    *)
(* time.  A frame of a page is two steps, the poll of the sysmodule and    *)
(* the keys, in the order of the page; the server, the App, the BLE        *)
(* session and the clock move between any two.  Both channels work alike:  *)
(* the model has one, and a frame has one key pressed.                     *)
(***************************************************************************)
EXTENDS AutoSleep, Integers

CONSTANTS
  MaxStrength,     \* DGLAB_STRENGTH_MAX, 100
  AppLimits        \* the limits an App may report, which counts to 200

ASSUME FrontEndAssumption == MaxStrength \in Nat \ {0} /\ AppLimits \subseteq Nat

VARIABLES
  page,     \* the page, its locals, and what it polled
  mixer,    \* g_test_strength, the hold of a direction, what was last told
  known,    \* g_ble_limits_known and the pair; whether a poll met the session where
            \* it was started
  config,   \* the channel limit of the parameters file
  sleep,    \* auto_sleep.c and the flag of the console
  found,    \* the flag as this run of the program found it
  server,   \* the socket server and its App (external)
  ble,      \* the BLE session and the probe that opens the stack (external)
  plays     \* whether a page's stream is what plays on each (external)

program == <<page, mixer, known, config, sleep, found>>
outside == <<server, ble, plays>>
vars == <<program, outside>>

Strengths == 0..MaxStrength
Unknown == -1
AppPages == {"socket", "gameplay"}     \* the motion and touch pages take the same steps
Streaming == {"gameplay"}
Directions == {"Up", "Down"}

Menu == [at |-> "menu", step |-> "keys", log |-> FALSE, starting |-> FALSE, first |-> FALSE,
         running |-> FALSE, active |-> FALSE, ceiling |-> 0]
NoSession == [active |-> FALSE, stopping |-> FALSE, limit |-> 0, probing |-> FALSE]
NothingKnown == [pair |-> Unknown, met |-> "missed"]

ProgramInit ==
  /\ page = Menu /\ known = NothingKnown
  /\ mixer = [row |-> 0, held |-> FALSE, told |-> 0, silent |-> FALSE]
  /\ found \in BOOLEAN /\ sleep = SleepInit(found)

Init ==
  /\ ProgramInit /\ config \in Strengths
  /\ server = [state |-> "off", limit |-> Unknown]
  /\ ble = NoSession
  /\ plays = [app |-> "other", ble |-> "other"]

-----------------------------------------------------------------------------
(* Requests: a BLE session takes the strengths and waveforms while it is   *)
(* active, the socket server otherwise.                                    *)

Active == ble.active

\* SetStrength goes out with the value of the row.
Told(m, v) == [m EXCEPT !.row = v, !.told = v, !.silent = FALSE]

\* A waveform, or the Clear, is taken by the one or the other.  Clear is for the App
\* only: a BLE session answers it with success and changes nothing.
Plays(what) ==
  IF Active THEN [plays EXCEPT !.ble = what]
  ELSE IF server.state = "paired" THEN [plays EXCEPT !.app = what] ELSE plays
Clear == IF Active THEN plays ELSE Plays("other")

\* The row moves, and nobody is told.
Silent(m, v) == [m EXCEPT !.row = v, !.told = 0, !.silent = TRUE]

Within(v, ceiling) == IF v < 0 THEN 0 ELSE IF v > ceiling THEN ceiling ELSE v

\* One step of the D-pad; a clamped step sends nothing.
AdjustStrength(m, direction, ceiling) ==
  LET next == Within(m.row + (IF direction = "Up" THEN 1 ELSE -1), ceiling)
  IN  IF direction \notin Directions \/ next = m.row THEN m ELSE Told(m, next)

\* Mutant: the row is lowered and nothing is sent, on any page.
LowersOnly(m, ceiling, send) == IF m.row <= ceiling THEN m ELSE [m EXCEPT !.row = ceiling]

\* Keeps the row inside the ceiling; the Bluetooth page tells nobody.
ClampStrength(m, ceiling, send) ==
  IF m.row <= ceiling THEN m
  ELSE IF send THEN Told(m, ceiling) ELSE Silent(m, ceiling)

\* A held direction: its first frame starts the hold, and a later one is a step when
\* the hold, or the time between two repeats, is over.
RepeatStrength(m, held, due, ceiling) ==
  IF m.held /\ due THEN AdjustStrength(m, held, ceiling)
  ELSE [m EXCEPT !.held = held \in Directions]

\* ZL and ZR send the strength of the row along with a waveform that is taken.
TestChannel(m) == IF Active \/ server.state = "paired" THEN Told(m, m.row) ELSE m

-----------------------------------------------------------------------------
(* The menu and the pages it opens. *)

\* The motion and touch pages clear what the test buttons left.
Opens(name) ==
  /\ page.at = "menu"
  /\ page' = [Menu EXCEPT !.at = name, !.first = name = "ble",
                          !.step = IF name \in AppPages THEN "poll" ELSE "keys"]
  /\ plays' = IF name \in Streaming THEN Clear ELSE plays
  /\ UNCHANGED <<mixer, known, config, sleep, found, server, ble>>

\* The advanced page saves each change of the limit.
Advanced ==
  /\ page.at = "advanced"
  /\ \/ config' \in {c \in Strengths : c - config \in {-1, 1}} /\ UNCHANGED page
     \/ page' = Menu /\ UNCHANGED config
  /\ UNCHANGED <<mixer, known, sleep, found, outside>>

AtExit(s, works) == Restored(s, works)

\* The end of the program stops the BLE session and gives the flag back; what the
\* program knew goes with it.
Exits ==
  /\ page.at = "menu" /\ page' = [Menu EXCEPT !.at = "closed"]
  /\ \E works \in BOOLEAN : sleep' = AtExit(sleep, works)
  /\ ble' = [ble EXCEPT !.stopping = Active]
  /\ mixer' = [Silent(mixer, 0) EXCEPT !.held = FALSE] /\ known' = NothingKnown
  /\ UNCHANGED <<config, found, server, plays>>

\* A new run of the program: the console forgot the flag with the applet session, or
\* somebody else set it.
Reopens ==
  /\ page.at = "closed"
  /\ page' = Menu
  /\ found' \in BOOLEAN /\ sleep' = SleepInit(found')
  /\ UNCHANGED <<mixer, known, config, outside>>

-----------------------------------------------------------------------------
(* A frame of the socket, motion and touch pages: the poll, then the keys. *)

\* The App's own limit once it has reported one, the parameters page's until then, and never
\* more than the front end's own range.
ChannelCeiling ==
  LET ceiling == IF server.limit # Unknown THEN server.limit ELSE config
  IN  IF ceiling > MaxStrength THEN MaxStrength ELSE ceiling

\* Mutant: the motion and touch pages leave the sleep of the console alone.
SocketFollows(running, works) ==
  IF page.at = "socket" THEN FollowServer(sleep, running, works) ELSE sleep

Follows(running, works) == FollowServer(sleep, running, works)

PollServer ==
  /\ page.at \in AppPages /\ page.step = "poll"
  /\ LET running == server.state # "off"
     IN  /\ page' = [page EXCEPT !.step = "keys", !.running = running, !.ceiling = ChannelCeiling]
         /\ \E works \in BOOLEAN : sleep' = Follows(running, works)
  /\ UNCHANGED <<mixer, known, config, found, outside>>

\* A starts or stops the server, from what this frame polled; a start may fail.
ToggleServer ==
  \/ page.running /\ server' = [server EXCEPT !.state = "off"]
  \/ ~page.running /\ server' = [server EXCEPT !.state = IF @ = "off" THEN "listening" ELSE @]
  \/ ~page.running /\ server.state = "off" /\ UNCHANGED server

\* The strengths of a frame: the socket page clamps first, the others test first.
Mixed(key, held, due) ==
  LET clamped == ClampStrength(mixer, page.ceiling, TRUE)
      tested == IF key # "ZL" THEN clamped
                ELSE IF page.at = "socket" THEN TestChannel(clamped)
                ELSE ClampStrength(TestChannel(mixer), page.ceiling, TRUE)
  IN  RepeatStrength(AdjustStrength(tested, key, page.ceiling), held, due, page.ceiling)

Holds(key, held, due) == (key \in Directions => held = key) /\ (due => mixer.held /\ held # "none")

\* The next frame polls afresh.
NextFrame(log) == [page EXCEPT !.step = "poll", !.log = log, !.running = FALSE, !.ceiling = 0]

\* Mutant: the waveform is left to run out.
LeavesPlaying ==
  /\ page' = Menu
  /\ mixer' = IF page.at = "socket" THEN ClampStrength(mixer, page.ceiling, TRUE) ELSE mixer
  /\ UNCHANGED <<server, plays>>

\* B leaves.  The socket page clamps before it looks, the other two clear the
\* waveform their stream left queued.
Leaves ==
  /\ page' = Menu
  /\ mixer' = IF page.at = "socket" THEN ClampStrength(mixer, page.ceiling, TRUE) ELSE mixer
  /\ plays' = IF page.at \in Streaming THEN Clear ELSE plays
  /\ UNCHANGED server

\* Y on the socket page opens the log and closes it; an open log takes every key.
LogKeys ==
  /\ page.at = "socket" /\ \E open \in {page.log, ~page.log} :
       /\ page.log \/ open
       /\ page' = NextFrame(open)
  /\ mixer' = ClampStrength(mixer, page.ceiling, TRUE)
  /\ UNCHANGED <<server, plays>>

\* A batch of slots that is all silence is not uploaded.
Keys(key, held, due, strong) ==
  /\ ~page.log /\ Holds(key, held, due)
  /\ page' = NextFrame(FALSE)
  /\ mixer' = Mixed(key, held, due)
  /\ IF key = "A" THEN ToggleServer ELSE UNCHANGED server
  /\ plays' = IF key = "A" /\ server'.state = "off" THEN [plays EXCEPT !.app = "other"]
              ELSE IF strong /\ (Active \/ key # "A") THEN Plays("stream")
              ELSE IF key = "ZL" THEN Plays("other")
              ELSE IF key = "X" THEN Clear ELSE plays

AppKeys ==
  /\ page.at \in AppPages /\ page.step = "keys"
  /\ \/ Leaves \/ LogKeys
     \/ \E key \in {"none", "A", "X", "ZL"} \cup Directions, held \in {"none"} \cup Directions,
           due \in BOOLEAN, strong \in {FALSE, page.at \in Streaming} : Keys(key, held, due, strong)
  /\ UNCHANGED <<known, config, sleep, found, ble>>

-----------------------------------------------------------------------------
(* A frame of the Bluetooth page: the keys, then the poll. *)

\* A opens the stack with the driver-level probe, unless a session is believed to
\* run; the key that opened the page is still down in its first frame.
StartsProbe ==
  /\ ~page.starting /\ ~page.active /\ ~page.first
  /\ ~ble.probing /\ ~Active

BleLeaves ==
  /\ page' = Menu
  /\ known' = [known EXCEPT !.met = IF @ = "here" THEN "missed" ELSE @]
  /\ UNCHANGED <<mixer, ble>>

BleKeys ==
  /\ page.at = "ble" /\ page.step = "keys"
  /\ \/ BleLeaves
     \/ /\ \E open \in {page.log, ~page.log} :
             (page.log \/ open) /\ page' = [page EXCEPT !.step = "poll", !.log = open]
        /\ UNCHANGED <<mixer, known, ble>>
     \/ /\ ~page.log /\ UNCHANGED known
        /\ \E key \in {"none", "A", "X"} \cup Directions, held \in {"none"} \cup Directions,
               due \in BOOLEAN :
             /\ Holds(key, held, due) /\ (key = "A" => StartsProbe)
             /\ mixer' = RepeatStrength(AdjustStrength(mixer, key, page.ceiling), held, due,
                                       page.ceiling)
             /\ page' = [page EXCEPT !.step = "poll", !.starting = @ \/ key = "A"]
             /\ ble' = CASE key = "A" -> [ble EXCEPT !.probing = TRUE]
                         [] key = "X" -> [ble EXCEPT !.stopping = Active]
                         [] OTHER -> ble
  /\ UNCHANGED <<config, sleep, found, server, plays>>

\* The second step of a start, once the probe has ended: the session is told the
\* ceiling the page shows.
StartsSession == page.starting /\ ~ble.probing
Started ==
  IF StartsSession /\ ~Active
  THEN [ble EXCEPT !.active = TRUE, !.limit = page.ceiling, !.stopping = FALSE] ELSE ble

\* Mutant: a ceiling changed while a session runs waits for the next one.
PushedLater(b) == b

\* BLE_LIMIT: a session that runs is told the pair of the parameters file.
Pushed(b) ==
  IF Active /\ known.pair \notin {Unknown, config} THEN [b EXCEPT !.limit = config] ELSE b

PollBle ==
  /\ page.at = "ble" /\ page.step = "poll"
  /\ LET pair == IF Active THEN config ELSE Unknown
     IN  /\ known' = [pair |-> pair,
                      met |-> IF StartsSession /\ ~Active THEN "here"
                              ELSE IF /\ Active
                                      /\ known.met = "here" \/ known.pair \notin {Unknown, config}
                              THEN "met" ELSE known.met]
         /\ ble' = IF Active THEN Pushed(ble) ELSE Started
         /\ page' = [page EXCEPT !.step = "keys", !.first = FALSE, !.active = Active,
                                 !.starting = @ /\ ~StartsSession, !.ceiling = config]
         /\ mixer' = ClampStrength(mixer, config, FALSE)
  /\ UNCHANGED <<config, sleep, found, server, plays>>

-----------------------------------------------------------------------------
(* Outside the program. *)

\* The App comes, reports a limit, goes or empties its queue; the console sleeps
\* and wakes.  What it reported stays.
ServerMoves ==
  /\ \/ server.state # "off" /\ server' = [server EXCEPT !.state = "off"]
     \/ server.state # "paired"
        /\ server' = [server EXCEPT !.state = IF @ = "off" THEN "listening" ELSE "paired"]
     \/ /\ server.state = "paired"
        /\ \E limit \in AppLimits : server' = [server EXCEPT !.limit = limit]
     \/ server.state = "paired" /\ server' = [server EXCEPT !.state = "listening"]
     \/ plays.app # "other" /\ UNCHANGED server
  /\ plays' = IF server'.state # "paired" \/ server' = server
              THEN [plays EXCEPT !.app = "other"] ELSE plays
  /\ UNCHANGED <<program, ble>>

\* The probe ends.  A session that connects, streams or both ends when it fails, when
\* it was told to, at its watchdog or when the device goes away.
SessionMoves ==
  /\ \/ ble.probing /\ ble' = [ble EXCEPT !.probing = FALSE] /\ UNCHANGED plays
     \/ Active /\ ble' = [NoSession EXCEPT !.probing = ble.probing]
               /\ plays' = [plays EXCEPT !.ble = "other"]
  /\ UNCHANGED <<program, server>>

-----------------------------------------------------------------------------
Frame == PollServer \/ AppKeys \/ BleKeys \/ PollBle
Visit == \E name \in AppPages \cup {"ble", "advanced"} : Opens(name)

Next == Frame \/ Visit \/ Advanced \/ Exits \/ Reopens \/ ServerMoves \/ SessionMoves
Spec == Init /\ [][Next]_vars

\* The loop of a page draws frame after frame.
FairSpec == Spec /\ WF_vars(Frame)

-----------------------------------------------------------------------------
TypeOK ==
  /\ page \in [at : AppPages \cup {"menu", "ble", "advanced", "closed"}, step : {"poll", "keys"},
               log : BOOLEAN, starting : BOOLEAN, first : BOOLEAN, running : BOOLEAN,
               active : BOOLEAN, ceiling : Strengths]
  /\ mixer \in [row : Strengths, held : BOOLEAN, told : Strengths,
                silent : BOOLEAN]
  /\ known \in [pair : Strengths \cup {Unknown}, met : {"missed", "here", "met"}]
  /\ config \in Strengths /\ sleep \in SleepStates /\ found \in BOOLEAN
  /\ server \in [state : {"off", "listening", "paired"}, limit : AppLimits \cup {Unknown}]
  /\ ble \in [active : BOOLEAN, stopping : BOOLEAN,
              limit : Strengths, probing : BOOLEAN]
  /\ plays \in [app : {"stream", "other"}, ble : {"stream", "other"}]

\* Automatic sleep is a setting of the console: the program leaves it the way it was
\* found, its own change undone and nobody else's, unless a call to undo it failed.
SleepRestored == page.at = "closed" /\ ~sleep.stuck => sleep.disabled = found

\* "A row that says 20/30 must not be sitting on a device value of 80": between the
\* frames of a page whose far end is the App, the row is the last strength that was
\* sent, unless the Bluetooth page lowered it or the program has just begun.
RowWasSent == mixer.silent \/ mixer.row = mixer.told

\* While a page that can start the server is up, a server that runs keeps the console
\* awake, and one that stopped gives the flag back: the two drift apart for a frame,
\* whichever way the server was started and stopped, unless the console refused.
SleepFollows ==
  \A up \in BOOLEAN :
    page.at \in AppPages /\ (server.state # "off") = up ~>
      \/ sleep.failed \/ page.at \notin AppPages \/ (server.state # "off") # up
      \/ IF up THEN sleep.disabled ELSE sleep.disabled = found \/ sleep.stuck

\* The stream of a gameplay page ends with it: "nothing keeps playing from the menu",
\* for an App, whose queue the page clears on the way out.
StreamEndsWithPage == plays.app = "stream" => page.at \in Streaming

\* The ceiling of the rows is the one the session that runs was told, once the page
\* that started the session has seen it run.
RowsAgreeOnceMet ==
  page.at = "ble" /\ page.active /\ Active /\ page.step = "keys" /\ known.met = "met"
    => page.ceiling = ble.limit

\* "The rows and the device cannot disagree": whenever the page knows of a session
\* that runs, its rows show the ceiling that session was told.
RowsAgree ==
  page.at = "ble" /\ page.active /\ Active /\ ~ble.stopping /\ page.step = "keys"
    => page.ceiling = ble.limit
=============================================================================
