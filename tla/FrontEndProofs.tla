--------------------------- MODULE FrontEndProofs ---------------------------
(***************************************************************************)
(* Proofs about FrontEnd for every range of strengths: type correctness,   *)
(* that the row is what was sent, that the stream of a page ends with it,  *)
(* that the console gets its automatic sleep back, and that the rows and   *)
(* the session agree on the ceilings once a page has met it.               *)
(***************************************************************************)
EXTENDS FrontEnd, TLAPS

-----------------------------------------------------------------------------
(* The strengths *)

Mixers == [row : Strengths, held : BOOLEAN, told : Strengths, silent : BOOLEAN]
Sent(m) == m.silent \/ m.row = m.told

LEMMA ZeroStrength == 0 \in Strengths
  BY FrontEndAssumption DEF Strengths

LEMMA ToldSent ==
  ASSUME NEW m \in Mixers, NEW v \in Strengths
  PROVE  Told(m, v) \in Mixers /\ Sent(Told(m, v))
  BY DEF Told, Mixers, Sent

LEMMA SilentSent ==
  ASSUME NEW m \in Mixers, NEW v \in Strengths
  PROVE  Silent(m, v) \in Mixers /\ Sent(Silent(m, v))
  BY ZeroStrength DEF Silent, Mixers, Sent

LEMMA WithinType ==
  ASSUME NEW v \in Int, NEW ceiling \in Strengths
  PROVE  Within(v, ceiling) \in Strengths
  BY FrontEndAssumption DEF Within, Strengths

LEMMA AdjustSent ==
  ASSUME NEW m \in Mixers, Sent(m), NEW direction, NEW ceiling \in Strengths
  PROVE  AdjustStrength(m, direction, ceiling) \in Mixers
         /\ Sent(AdjustStrength(m, direction, ceiling))
  <1> DEFINE v == m.row + (IF direction = "Up" THEN 1 ELSE -1)
  <1>1. v \in Int
    BY FrontEndAssumption DEF Mixers, Strengths
  <1>2. Within(v, ceiling) \in Strengths
    BY <1>1, WithinType
  <1> HIDE DEF v
  <1>3. Told(m, Within(v, ceiling)) \in Mixers /\ Sent(Told(m, Within(v, ceiling)))
    BY <1>2, ToldSent
  <1> QED BY <1>3 DEF AdjustStrength, v

LEMMA ClampSent ==
  ASSUME NEW m \in Mixers, Sent(m), NEW ceiling \in Strengths, NEW send \in BOOLEAN
  PROVE  ClampStrength(m, ceiling, send) \in Mixers /\ Sent(ClampStrength(m, ceiling, send))
  BY ToldSent, SilentSent DEF ClampStrength

LEMMA RepeatSent ==
  ASSUME NEW m \in Mixers, Sent(m), NEW held, NEW due \in BOOLEAN, NEW ceiling \in Strengths
  PROVE  RepeatStrength(m, held, due, ceiling) \in Mixers
         /\ Sent(RepeatStrength(m, held, due, ceiling))
  <1>1. CASE m.held /\ due
    BY <1>1, AdjustSent DEF RepeatStrength
  <1>2. CASE ~(m.held /\ due)
    <2> DEFINE now == held \in Directions
    <2>1. now \in BOOLEAN
      OBVIOUS
    <2>2. RepeatStrength(m, held, due, ceiling) = [m EXCEPT !.held = now]
      BY <1>2, Zenon DEF RepeatStrength
    <2> HIDE DEF now
    <2>3. [m EXCEPT !.held = now] \in Mixers /\ Sent([m EXCEPT !.held = now])
      BY <2>1 DEF Mixers, Sent
    <2> QED BY <2>2, <2>3
  <1> QED BY <1>1, <1>2

LEMMA TestSent ==
  ASSUME NEW m \in Mixers, Sent(m) PROVE TestChannel(m) \in Mixers /\ Sent(TestChannel(m))
  <1>1. m.row \in Strengths
    BY DEF Mixers
  <1> QED BY <1>1, ToldSent DEF TestChannel

LEMMA MixedSent ==
  ASSUME mixer \in Mixers, Sent(mixer), page.ceiling \in Strengths,
         NEW key, NEW held, NEW due \in BOOLEAN
  PROVE  Mixed(key, held, due) \in Mixers /\ Sent(Mixed(key, held, due))
  <1> DEFINE clamped == ClampStrength(mixer, page.ceiling, TRUE)
             tested == IF key # "ZL" THEN clamped
                       ELSE IF page.at = "socket" THEN TestChannel(clamped)
                       ELSE ClampStrength(TestChannel(mixer), page.ceiling, TRUE)
             adjusted == AdjustStrength(tested, key, page.ceiling)
  <1>1. clamped \in Mixers /\ Sent(clamped)
    BY ClampSent
  <1>2. TestChannel(clamped) \in Mixers /\ Sent(TestChannel(clamped))
    BY <1>1, TestSent
  <1>3. TestChannel(mixer) \in Mixers /\ Sent(TestChannel(mixer))
    BY TestSent
  <1>4. ClampStrength(TestChannel(mixer), page.ceiling, TRUE) \in Mixers
        /\ Sent(ClampStrength(TestChannel(mixer), page.ceiling, TRUE))
    BY <1>3, ClampSent
  <1>5. tested \in Mixers /\ Sent(tested)
    BY <1>1, <1>2, <1>4
  <1> HIDE DEF tested
  <1>6. adjusted \in Mixers /\ Sent(adjusted)
    BY <1>5, AdjustSent
  <1> HIDE DEF adjusted
  <1>7. RepeatStrength(adjusted, held, due, page.ceiling) \in Mixers
        /\ Sent(RepeatStrength(adjusted, held, due, page.ceiling))
    BY <1>6, RepeatSent
  <1> QED BY <1>7 DEF Mixed, adjusted, tested

-----------------------------------------------------------------------------
(* What plays, and the sleep of the console *)

Playing == [app : {"stream", "other"}, ble : {"stream", "other"}]

LEMMA PlaysType ==
  ASSUME plays \in Playing, NEW what \in {"stream", "other"}
  PROVE  Plays(what) \in Playing /\ (what # "stream" => Plays(what).app \in {"other", plays.app})
  BY DEF Plays, Playing

LEMMA ClearType ==
  ASSUME plays \in Playing
  PROVE  Clear \in Playing /\ Clear.app \in {"other", plays.app}
  BY PlaysType DEF Clear

\* While no call to restore the flag has failed, ours is a flag that was found clear
\* and is set for a server that runs, and a flag that is not ours is as it was found.
SleepSound(s, f) ==
  ~s.stuck => IF s.ours THEN s.asked = "up" /\ s.disabled /\ ~f ELSE s.disabled = f

LEMMA InitSound ==
  ASSUME NEW f \in BOOLEAN PROVE SleepInit(f) \in SleepStates /\ SleepSound(SleepInit(f), f)
  BY DEF SleepInit, SleepStates, SleepSound

LEMMA RestoredSound ==
  ASSUME NEW s \in SleepStates, NEW f \in BOOLEAN, SleepSound(s, f), NEW works \in BOOLEAN
  PROVE  /\ Restored(s, works) \in SleepStates /\ SleepSound(Restored(s, works), f)
         /\ ~Restored(s, works).stuck => Restored(s, works).disabled = f
  BY DEF Restored, SleepStates, SleepSound

LEMMA FollowSound ==
  ASSUME NEW s \in SleepStates, NEW f \in BOOLEAN, SleepSound(s, f),
         NEW running \in BOOLEAN, NEW works \in BOOLEAN
  PROVE  /\ FollowServer(s, running, works) \in SleepStates
         /\ SleepSound(FollowServer(s, running, works), f)
  BY DEF FollowServer, Suppressed, Restored, Failing, SleepStates, SleepSound

-----------------------------------------------------------------------------
(* The invariant *)

\* A stream plays on an App that is there, and while no BLE session takes it: that is
\* why the clear of the page reaches it.
Streams(p, s, b) == p.app = "stream" => s.state = "paired" /\ ~b.active

IInv == /\ TypeOK /\ Sent(mixer) /\ SleepSound(sleep, found)
        /\ StreamEndsWithPage /\ Streams(plays, server, ble)
        /\ page.at = "closed" /\ ~sleep.stuck => sleep.disabled = found

LEMMA InitInv == Init => IInv
  <1> SUFFICES ASSUME Init PROVE IInv
    OBVIOUS
  <1>1. TypeOK
    BY ZeroStrength, InitSound
       DEF Init, ProgramInit, TypeOK, Menu, NothingKnown, NoSession, Unknown
  <1>2. SleepSound(sleep, found)
    BY InitSound DEF Init, ProgramInit
  <1> QED BY <1>1, <1>2 DEF Init, ProgramInit, IInv, Sent, StreamEndsWithPage, Streams, Menu

Pages == [at : AppPages \cup {"menu", "ble", "advanced", "closed"}, step : {"poll", "keys"},
          log : BOOLEAN, starting : BOOLEAN, first : BOOLEAN, running : BOOLEAN,
          active : BOOLEAN, ceiling : Strengths]
Knowing == [pair : Strengths \cup {Unknown}, met : {"missed", "here", "met"}]
Servers == [state : {"off", "listening", "paired"}, limit : AppLimits \cup {Unknown}]
Sessions == [active : BOOLEAN, stopping : BOOLEAN, limit : Strengths, probing : BOOLEAN]

\* What the steps below rest on: the invariant, spelled out.
LEMMA InvParts ==
  IInv <=> /\ page \in Pages /\ mixer \in Mixers /\ Sent(mixer) /\ known \in Knowing
           /\ config \in Strengths /\ found \in BOOLEAN
           /\ sleep \in SleepStates /\ SleepSound(sleep, found)
           /\ server \in Servers /\ ble \in Sessions /\ plays \in Playing
           /\ plays.app = "stream" => page.at \in Streaming
           /\ Streams(plays, server, ble)
           /\ page.at = "closed" /\ ~sleep.stuck => sleep.disabled = found
  BY DEF IInv, TypeOK, StreamEndsWithPage, Pages, Mixers, Knowing, Servers, Sessions, Playing

LEMMA InvPartsNext ==
  IInv' <=> /\ page' \in Pages /\ mixer' \in Mixers /\ Sent(mixer') /\ known' \in Knowing
            /\ config' \in Strengths /\ found' \in BOOLEAN
            /\ sleep' \in SleepStates /\ SleepSound(sleep', found')
            /\ server' \in Servers /\ ble' \in Sessions /\ plays' \in Playing
            /\ plays'.app = "stream" => page'.at \in Streaming
            /\ Streams(plays', server', ble')
            /\ page'.at = "closed" /\ ~sleep'.stuck => sleep'.disabled = found'
  BY DEF IInv, TypeOK, StreamEndsWithPage, Pages, Mixers, Knowing, Servers, Sessions, Playing,
         Sent, SleepSound, Streams

LEMMA MenuPage == Menu \in Pages /\ Menu.at = "menu"
  BY ZeroStrength DEF Menu, Pages

LEMMA OpensInv == ASSUME IInv, NEW name \in AppPages \cup {"ble", "advanced"}, Opens(name)
                  PROVE  IInv'
  <1>1. page' \in Pages /\ page'.at = name
    BY ZeroStrength DEF Opens, Menu, Pages
  <1>2. plays' \in Playing /\ plays'.app # "stream"
    BY InvParts, ClearType DEF Opens, Streaming, AppPages
  <1> QED BY <1>1, <1>2, InvParts, InvPartsNext DEF Opens, AppPages, Playing, Streams

LEMMA AdvancedInv == ASSUME IInv, Advanced PROVE IInv'
  BY InvParts, InvPartsNext, MenuPage DEF Advanced, outside, Streaming

LEMMA ExitsInv == ASSUME IInv, Exits PROVE IInv'
  <1>1. page' \in Pages /\ page'.at = "closed"
    BY ZeroStrength DEF Exits, Menu, Pages
  <1>2. mixer' \in Mixers /\ Sent(mixer')
    BY InvParts, ZeroStrength, SilentSent DEF Exits, Mixers, Sent
  <1>3. /\ sleep' \in SleepStates /\ SleepSound(sleep', found')
        /\ ~sleep'.stuck => sleep'.disabled = found'
    BY InvParts, RestoredSound DEF Exits, AtExit
  <1>4. ble' \in Sessions /\ known' \in Knowing
    BY InvParts DEF Exits, Sessions, Knowing, NothingKnown, Active
  <1>5. plays'.app # "stream"
    BY InvParts DEF Exits, Streaming
  <1> QED BY <1>1, <1>2, <1>3, <1>4, <1>5, InvParts, InvPartsNext DEF Exits, Streams

LEMMA ReopensInv == ASSUME IInv, Reopens PROVE IInv'
  <1>1. sleep' \in SleepStates /\ SleepSound(sleep', found')
    BY InitSound DEF Reopens
  <1> QED BY <1>1, MenuPage, InvParts, InvPartsNext DEF Reopens, outside, Streaming

LEMMA PollServerInv == ASSUME IInv, PollServer PROVE IInv'
  <1>1. ChannelCeiling \in Strengths
    <2>1. /\ server.limit # Unknown => server.limit \in Nat
          /\ config \in Strengths
      BY InvParts, FrontEndAssumption DEF Servers
    <2>2. QED
      BY <2>1, FrontEndAssumption DEF ChannelCeiling, Strengths
  <1>2. page' \in Pages /\ page'.at = page.at /\ page.at # "closed"
    BY <1>1, InvParts DEF PollServer, Pages, AppPages
  <1>3. sleep' \in SleepStates /\ SleepSound(sleep', found)
    BY InvParts, FollowSound DEF PollServer, Follows
  <1> QED BY <1>2, <1>3, InvParts, InvPartsNext DEF PollServer, outside

LEMMA AppKeysInv == ASSUME IInv, AppKeys PROVE IInv'
  <1> USE InvParts
  <1>1. page.ceiling \in Strengths /\ page.at # "closed"
    BY DEF AppKeys, AppPages, Pages
  <1>2. ClampStrength(mixer, page.ceiling, TRUE) \in Mixers
        /\ Sent(ClampStrength(mixer, page.ceiling, TRUE))
    BY <1>1, ClampSent
  <1>3. \A log \in BOOLEAN : NextFrame(log) \in Pages /\ NextFrame(log).at = page.at
    BY ZeroStrength DEF NextFrame, Pages
  <1>4. UNCHANGED <<known, config, sleep, found, ble>>
    BY DEF AppKeys
  <1>5. CASE Leaves
    <2>1. plays' \in Playing /\ plays'.app # "stream"
      BY <1>5, ClearType DEF Leaves, Streaming, Playing, Streams, Clear, Plays, Active
    <2> QED BY <1>2, <1>4, <1>5, <2>1, MenuPage, InvPartsNext DEF Leaves, Streaming, Streams
  <1>6. CASE LogKeys
    <2> PICK open \in {page.log, ~page.log} : page' = NextFrame(open)
      BY <1>6 DEF LogKeys
    <2>1. open \in BOOLEAN
      BY DEF Pages
    <2>2. page' \in Pages /\ page'.at = page.at
      BY <1>3, <2>1
    <2> QED BY <1>1, <1>2, <1>4, <1>6, <2>2, InvPartsNext DEF LogKeys
  <1>7. ASSUME NEW key \in {"none", "A", "X", "ZL"} \cup Directions,
               NEW held \in {"none"} \cup Directions, NEW due \in BOOLEAN,
               NEW strong \in {FALSE, page.at \in Streaming}, Keys(key, held, due, strong)
        PROVE  IInv'
    <2>1. page' \in Pages /\ page'.at = page.at
      BY <1>3, <1>7 DEF Keys
    <2>2. mixer' \in Mixers /\ Sent(mixer')
      BY <1>1, <1>7, MixedSent DEF Keys
    <2>3. server' \in Servers
      BY <1>7 DEF Keys, ToggleServer, Servers
    <2>4. plays' \in Playing /\ (plays'.app = "stream" => page.at \in Streaming)
          /\ Streams(plays', server', ble')
      <3>1. /\ Plays("stream") \in Playing /\ Plays("other") \in Playing
            /\ Plays("other").app \in {"other", plays.app}
        BY PlaysType
      <3>2. [plays EXCEPT !.app = "other"] \in Playing
            /\ [plays EXCEPT !.app = "other"].app = "other"
        BY DEF Playing
      <3>3. key # "A" => server' = server
        BY <1>7 DEF Keys
      <3>4. server'.state # "paired" => server.state # "paired" \/ server'.state = "off"
        BY <1>7 DEF Keys, ToggleServer, Servers
      <3>5. plays' \in Playing /\ (plays'.app = "stream" => page.at \in Streaming)
        BY <1>7, <3>1, <3>2, ClearType DEF Keys
      <3>6. Plays("stream").app = "stream" => server.state = "paired" /\ ~ble.active
        BY DEF Plays, Active, Streams
      <3>7. ASSUME key = "A" PROVE Streams(plays', server', ble')
        <4>1. ASSUME ble.active, strong, server'.state # "off"
              PROVE  plays'.app = "stream" => plays.app = "stream"
          <5>1. plays' = [plays EXCEPT !.ble = "stream"]
            BY <1>7, <3>7, <4>1, Zenon DEF Keys, Plays, Active
          <5> QED BY <5>1, <4>1 DEF Playing
        <4>2. ASSUME server'.state = "off" PROVE plays'.app # "stream"
          BY <1>7, <3>2, <3>7, <4>2 DEF Keys
        <4>3. ASSUME ~(ble.active /\ strong), server'.state # "off" PROVE plays' = plays
          BY <1>7, <3>7, <4>3 DEF Keys, Active
        <4>4. plays'.app = "stream" => plays.app = "stream" /\ server'.state # "off"
          BY <4>1, <4>2, <4>3
        <4> QED BY <1>4, <3>4, <4>4 DEF Streams, Servers
      <3>8. ASSUME key # "A" PROVE Streams(plays', server', ble')
        <4>1. plays'.app = "stream" => server.state = "paired" /\ ~ble.active
          BY <1>7, <3>1, <3>6, <3>8, ClearType DEF Keys, Streams
        <4> QED BY <1>4, <3>3, <3>8, <4>1 DEF Streams
      <3> QED BY <3>5, <3>7, <3>8
    <2> QED BY <1>1, <1>4, <2>1, <2>2, <2>3, <2>4, InvPartsNext
  <1> QED BY <1>5, <1>6, <1>7 DEF AppKeys

LEMMA BleKeysInv == ASSUME IInv, BleKeys PROVE IInv'
  <1> USE InvParts
  <1>1. page.at = "ble" /\ page.ceiling \in Strengths
    BY DEF BleKeys, Pages
  <1>2. UNCHANGED <<config, sleep, found, server, plays>> /\ plays.app # "stream"
    BY <1>1 DEF BleKeys, Streaming
  <1>3. CASE BleLeaves
    BY <1>2, <1>3, MenuPage, InvPartsNext DEF BleLeaves, Knowing, Streams
  <1>4. ASSUME NEW open \in {page.log, ~page.log},
               page' = [page EXCEPT !.step = "poll", !.log = open], UNCHANGED <<mixer, known, ble>>
        PROVE  IInv'
    BY <1>1, <1>2, <1>4, InvPartsNext DEF Pages
  <1>5. ASSUME NEW key \in {"none", "A", "X"} \cup Directions,
               NEW held \in {"none"} \cup Directions, NEW due \in BOOLEAN, UNCHANGED known,
               mixer' = RepeatStrength(AdjustStrength(mixer, key, page.ceiling), held, due,
                                       page.ceiling),
               page' = [page EXCEPT !.step = "poll", !.starting = @ \/ key = "A"],
               ble' = CASE key = "A" -> [ble EXCEPT !.probing = TRUE]
                        [] key = "X" -> [ble EXCEPT !.stopping = Active]
                        [] OTHER -> ble
        PROVE  IInv'
    <2>1. mixer' \in Mixers /\ Sent(mixer')
      BY <1>1, <1>5, AdjustSent, RepeatSent
    <2>2. page' \in Pages /\ page'.at = "ble"
      BY <1>1, <1>5 DEF Pages
    <2>3. ble' \in Sessions
      BY <1>5 DEF Sessions, Active
    <2> QED BY <1>2, <1>5, <2>1, <2>2, <2>3, InvPartsNext DEF Streams
  <1> QED BY <1>3, <1>4, <1>5 DEF BleKeys

LEMMA PollBleInv == ASSUME IInv, PollBle PROVE IInv'
  <1> USE InvParts
  <1>1. page' \in Pages /\ page'.at = "ble"
    BY DEF PollBle, Pages, Active, Sessions, StartsSession
  <1>2. mixer' \in Mixers /\ Sent(mixer')
    BY ClampSent DEF PollBle
  <1>3. known' \in Knowing
    BY DEF PollBle, Knowing
  <1>4. ble' \in Sessions
    BY DEF PollBle, Pushed, Started, Sessions, Pages
  <1>5. plays'.app # "stream"
    BY DEF PollBle, Streaming
  <1> QED BY <1>1, <1>2, <1>3, <1>4, <1>5, InvPartsNext DEF PollBle, Streams

LEMMA ServerMovesInv == ASSUME IInv, ServerMoves PROVE IInv'
  <1>1. server' \in Servers /\ plays' \in Playing /\ plays'.app \in {"other", plays.app}
        /\ Streams(plays', server', ble)
    BY InvParts DEF ServerMoves, Servers, Playing, Streams
  <1> QED BY <1>1, InvParts, InvPartsNext DEF ServerMoves, program

LEMMA SessionMovesInv == ASSUME IInv, SessionMoves PROVE IInv'
  <1>1. ble' \in Sessions /\ plays' \in Playing /\ plays'.app = plays.app
        /\ (ble'.active => ble.active)
    BY InvParts, ZeroStrength DEF SessionMoves, Sessions, NoSession, Playing
  <1> QED BY <1>1, InvParts, InvPartsNext DEF SessionMoves, program, Streams

LEMMA StepInv == IInv /\ [Next]_vars => IInv'
  <1>1. ASSUME IInv, Next PROVE IInv'
    BY <1>1, OpensInv, AdvancedInv, ExitsInv, ReopensInv, PollServerInv, AppKeysInv, BleKeysInv,
       PollBleInv, ServerMovesInv, SessionMovesInv DEF Next, Frame, Visit
  <1>2. ASSUME IInv, UNCHANGED vars PROVE IInv'
    BY <1>2, InvParts, InvPartsNext DEF vars, program, outside
  <1> QED BY <1>1, <1>2

LEMMA Invariant == Spec => []IInv
  BY InitInv, StepInv, PTL DEF Spec

-----------------------------------------------------------------------------
(* What a session was told. *)

\* The strengthening.  A page that has polled shows the parameters file, and so does the
\* pair it keeps of a session it saw; a session the page started was told the ceiling it
\* showed, and a session that was met is at the pair the page keeps.
LimitKnown ==
  /\ page.at = "ble" /\ ~page.first => page.ceiling = config
  /\ page.starting => page.at = "ble" /\ ~page.first
  /\ page.at = "ble" /\ page.active => ~page.first /\ known.pair = config
  /\ known.met = "here" => /\ page.at = "ble" /\ ~page.first /\ known.pair = Unknown
                           /\ ble.active => ble.limit = config
  /\ known.met = "met" /\ ble.active => known.pair # Unknown /\ ble.limit = known.pair

LEMMA LimitPages ==
  ASSUME IInv, LimitKnown,
         (\E name \in AppPages \cup {"ble", "advanced"} : Opens(name)) \/ Advanced \/ Exits
           \/ Reopens
  PROVE  LimitKnown'
  <1> USE InvParts DEF LimitKnown, Menu
  <1>1. ASSUME NEW name \in AppPages \cup {"ble", "advanced"}, Opens(name) PROVE LimitKnown'
    BY <1>1 DEF Opens
  <1>2. CASE Advanced
    BY <1>2 DEF Advanced, outside
  <1>3. CASE Exits
    BY <1>3 DEF Exits, NothingKnown
  <1>4. CASE Reopens
    BY <1>4 DEF Reopens, outside
  <1> QED BY <1>1, <1>2, <1>3, <1>4

LEMMA LimitApp == ASSUME IInv, LimitKnown, PollServer \/ AppKeys PROVE LimitKnown'
  <1>1. page.at \in AppPages /\ page.at # "ble" /\ UNCHANGED <<known, config, ble>>
    BY DEF PollServer, AppKeys, AppPages, outside
  <1>3. ~page.starting
    BY <1>1 DEF LimitKnown
  <1>4. CASE PollServer
    BY <1>1, <1>3, <1>4, InvParts DEF PollServer, Pages, LimitKnown
  <1>5. CASE AppKeys
    <2>1. page' \in {Menu, NextFrame(TRUE), NextFrame(FALSE)}
      <3>1. page.log \in BOOLEAN
        BY InvParts DEF Pages
      <3> QED BY <1>5, <3>1 DEF AppKeys, Leaves, LogKeys, Keys
    <2>2. page'.at \in {"menu", page.at} /\ (page'.starting => page.starting)
      <3>1. \A log \in BOOLEAN : NextFrame(log).at = page.at
                              /\ NextFrame(log).starting = page.starting
        BY InvParts DEF NextFrame, Pages
      <3>2. Menu.at = "menu" /\ ~Menu.starting
        BY DEF Menu
      <3> QED BY <2>1, <3>1, <3>2
    <2> QED BY <1>1, <1>3, <2>2 DEF LimitKnown
  <1> QED BY <1>4, <1>5

\* A page is left with "here" forgotten; a start waits for the first poll.
LEMMA LimitKeys == ASSUME IInv, LimitKnown, BleKeys PROVE LimitKnown'
  <1> USE InvParts DEF LimitKnown, Menu
  <1>1. page.at = "ble" /\ UNCHANGED config
    BY DEF BleKeys
  <1>2. CASE BleLeaves
    BY <1>2 DEF BleLeaves, Knowing
  <1>3. CASE ~BleLeaves
    <2>1. known' = known
      BY <1>3 DEF BleKeys
    <2>2. ble'.active = ble.active /\ ble'.limit = ble.limit
      BY <1>3 DEF BleKeys, Sessions
    <2>3. /\ page'.at = "ble" /\ page'.first = page.first /\ page'.ceiling = page.ceiling
          /\ page'.active = page.active
          /\ page'.starting => page.starting \/ ~page.first
      BY <1>1, <1>3 DEF BleKeys, Pages, StartsProbe
    <2> QED BY <1>1, <2>1, <2>2, <2>3
  <1> QED BY <1>2, <1>3

\* A session that was started here, or that is pushed a changed pair, is at the pair.
LEMMA LimitPoll == ASSUME IInv, LimitKnown, PollBle PROVE LimitKnown'
  <1> USE InvParts DEF LimitKnown
  <1>1. page.at = "ble" /\ UNCHANGED config /\ Unknown \notin Strengths
    BY DEF PollBle, Unknown, Strengths
  <1>2. /\ page'.at = "ble" /\ page'.first = FALSE /\ page'.ceiling = config
        /\ page'.active = ble.active /\ page'.starting = (page.starting /\ ~StartsSession)
    BY <1>1 DEF PollBle, Pages, Active, StartsSession, Sessions
  <1>3. known' = [pair |-> IF Active THEN config ELSE Unknown,
                  met |-> IF StartsSession /\ ~Active THEN "here"
                          ELSE IF /\ Active
                                  /\ known.met = "here" \/ known.pair \notin {Unknown, config}
                          THEN "met" ELSE known.met]
    BY DEF PollBle
  <1>4. CASE ble.active
    <2>1. ble'.active = ble.active
          /\ ble'.limit = IF known.pair \notin {Unknown, config} THEN config ELSE ble.limit
      BY <1>4 DEF PollBle, Pushed, Active, Sessions
    <2>2. /\ known'.pair = config /\ known'.met \in {"met", known.met} /\ known'.met # "here"
          /\ known.pair \notin {Unknown, config} => known'.met = "met"
      BY <1>3, <1>4 DEF Active, Knowing
    <2>3. known'.met = "met" => ble'.limit = config
      <3>1. CASE known.pair \notin {Unknown, config}
        BY <2>1, <3>1
      <3>2. CASE known.pair = Unknown
        BY <1>3, <1>4, <2>1, <3>2 DEF Active
      <3>3. CASE known.pair = config
        BY <1>1, <1>3, <1>4, <2>1, <3>3 DEF Active, Knowing
      <3> QED BY <3>1, <3>2, <3>3
    <2> QED BY <1>1, <1>2, <1>4, <2>2, <2>3
  <1>5. CASE ~ble.active
    <2>1. /\ ble'.active => StartsSession
          /\ ble'.active => ble'.limit = page.ceiling
      BY <1>5 DEF PollBle, Started, Active, Sessions
    <2>2. /\ known'.pair = Unknown
          /\ StartsSession => known'.met = "here"
      BY <1>3, <1>5 DEF Active
    <2>3. StartsSession => page.ceiling = config
      BY <1>1 DEF StartsSession
    <2> QED BY <1>1, <1>2, <1>5, <2>1, <2>2, <2>3
  <1> QED BY <1>4, <1>5

LEMMA LimitStep == IInv /\ LimitKnown /\ [Next]_vars => LimitKnown'
  <1> SUFFICES ASSUME IInv, LimitKnown, [Next]_vars PROVE LimitKnown'
    OBVIOUS
  <1>1. CASE ServerMoves
    BY <1>1 DEF ServerMoves, program, LimitKnown
  <1>2. CASE SessionMoves
    <2>1. UNCHANGED <<page, known, config>> /\ (ble'.active => ble.active /\ ble'.limit = ble.limit)
      BY <1>2, InvParts DEF SessionMoves, program, NoSession, Sessions
    <2> QED BY <2>1 DEF LimitKnown
  <1>3. CASE UNCHANGED vars
    BY <1>3 DEF vars, program, outside, LimitKnown
  <1> QED BY <1>1, <1>2, <1>3, LimitPages, LimitApp, LimitKeys, LimitPoll DEF Next, Frame, Visit

LEMMA LimitInit == Init => LimitKnown
  BY DEF Init, ProgramInit, LimitKnown, Menu, NothingKnown, NoSession

-----------------------------------------------------------------------------
(* The theorems *)

\* The state keeps its type.
THEOREM FrontEndType == Spec => []TypeOK
  <1>1. IInv => TypeOK
    BY DEF IInv
  <1> QED BY <1>1, Invariant, PTL

\* A program that ended left the automatic sleep of the console (auto_sleep.c) as it
\* found it, unless a call to restore it failed.
THEOREM SleepIsRestored == Spec => []SleepRestored
  <1>1. IInv => SleepRestored
    BY DEF IInv, SleepRestored
  <1> QED BY <1>1, Invariant, PTL

\* The row of the mixer (adjustStrength, clampStrengthsToCeilings) is the last strength
\* that was sent, unless the Bluetooth page lowered it or the program has just begun.
THEOREM RowIsSent == Spec => []RowWasSent
  <1>1. IInv => RowWasSent
    BY DEF IInv, RowWasSent, Sent
  <1> QED BY <1>1, Invariant, PTL

\* The stream of the motion and touch pages ends with the page, on an App.
THEOREM StreamEnds == Spec => []StreamEndsWithPage
  <1>1. IInv => StreamEndsWithPage
    BY DEF IInv
  <1> QED BY <1>1, Invariant, PTL

(* Once a poll of the page that started a session, or that pushed it a changed pair, has met
   it, the ceiling of the rows is the one the session was told (main.c, the "limits known"
   pair of the Bluetooth page). *)
THEOREM RowsAgreeWithSession == Spec => []RowsAgreeOnceMet
  <1>1. IInv /\ LimitKnown => RowsAgreeOnceMet
    <2> SUFFICES ASSUME IInv, LimitKnown, page.at = "ble", page.active, Active, known.met = "met"
                 PROVE  page.ceiling = ble.limit
      BY DEF RowsAgreeOnceMet
    <2> QED BY DEF LimitKnown, Active
  <1>2. Init => IInv /\ LimitKnown
    BY InitInv, LimitInit
  <1>3. IInv /\ LimitKnown /\ [Next]_vars => IInv' /\ LimitKnown'
    BY StepInv, LimitStep
  <1> QED BY <1>1, <1>2, <1>3, PTL DEF Spec
=============================================================================
