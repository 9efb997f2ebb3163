---------------------------- MODULE OneKeyProofs ----------------------------
(***************************************************************************)
(* Proofs about OneKeyProbe for every set of devices, every number of      *)
(* attempts, keys and frames: a worker between probes holds nothing, the   *)
(* device is capped when the transport of the btm probe ends, everything   *)
(* keeps its type, and a run stays with the address it found or was given. *)
(***************************************************************************)
EXTENDS OneKeyProbe, FiniteSetTheorems, TLAPS

-----------------------------------------------------------------------------
(* What the worker may hold in each place. *)

BetweenProbes == {"exited", "waking", "taking", "choosing", "leaving"}
DriverServices == {"btdrv", "bleEvent"}
UserServices == {"bt", "btEvent"}
ManagerServices == {"btm", "scanEvent"}

MayHold(w) ==
  CASE w \in BetweenProbes \cup {"cold", "initialising"} -> {}
    [] w = "coldConnect" -> {"btdrv"}
    [] w \in {"bringing", "registering", "concluding"} -> DriverServices
    [] w \in {"early", "enabling", "scanning", "phaseOver", "window", "fallback"} ->
         DriverServices \cup UserServices
    [] w = "awaiting" -> ManagerServices \cup UserServices \cup {"connEvent"}
    [] w = "gatt" -> ManagerServices \cup UserServices \cup {"gattEvent"}
    [] w = "peeking" -> ManagerServices \cup UserServices \cup {"btdrv"}
    [] OTHER -> ManagerServices \cup UserServices

MayScan(w) ==
  CASE w \in {"scanning", "window"} -> {"driver"}
    [] w = "generalPolls" -> {"general"}
    [] w = "smartPolls" -> {"smart"}
    [] w = "pairedWaits" -> {"paired"}
    [] OTHER -> {}

\* The strengthening: not only between probes, but in every place.
HeldByPlace ==
  /\ worker \in Places
  /\ open \subseteq MayHold(worker)
  /\ scans \subseteq MayScan(worker) \cup unstopped

LEMMA HeldInit == Init => HeldByPlace
  BY DEF Init, ProbeInit, HeldByPlace, Places

LEMMA HeldImplies == HeldByPlace => NothingLeftOpen
  <1> SUFFICES ASSUME HeldByPlace PROVE NothingLeftOpen
    OBVIOUS
  <1>1. worker \in BetweenProbes => open = {} /\ scans \subseteq unstopped
    BY DEF HeldByPlace, MayHold, MayScan, BetweenProbes
  <1>2. "btm" \in open => "bleEvent" \notin open
    BY DEF HeldByPlace, MayHold, DriverServices, UserServices, ManagerServices, BetweenProbes
  <1>3. {"btdrv", "btm"} \subseteq open => worker = "peeking"
    BY DEF HeldByPlace, MayHold, DriverServices, UserServices, ManagerServices, BetweenProbes
  <1> QED BY <1>1, <1>2, <1>3 DEF NothingLeftOpen, BetweenProbes

LEMMA HeldThread ==
  ASSUME HeldByPlace, Wake \/ Take \/ Choose \/ Leave, UNCHANGED unstopped
  PROVE  HeldByPlace'
  <1>1. open = {} /\ scans \subseteq unstopped
    BY DEF HeldByPlace, MayHold, MayScan, BetweenProbes, Wake, Take, Choose, Leave, Goes
  <1>2. open' = {} /\ scans' \subseteq unstopped'
    BY <1>1 DEF Wake, Take, Choose, Leave
  <1>3. worker' \in Places
    BY DEF Wake, Take, Choose, Leave, Goes, Places
  <1> QED BY <1>2, <1>3 DEF HeldByPlace

\* What a stop leaves running is counted as unstopped.
LEMMA ScansStopped ==
  ASSUME NEW kind, scans \subseteq {kind} \cup unstopped, StopsScan(kind)
  PROVE  scans' \subseteq unstopped'
  BY DEF StopsScan

LEMMA HeldDriver ==
  ASSUME HeldByPlace,
         \/ Cold \/ EndCold \/ Bring \/ Register \/ ConnectEarly
         \/ Enable \/ OpenWindow \/ FallBack \/ Conclude,
         UNCHANGED unstopped
  PROVE  HeldByPlace'
  <1> USE DEF HeldByPlace, Places, MayHold, MayScan, BetweenProbes, DriverServices,
              UserServices, ManagerServices
  <1>1. CASE Cold \/ EndCold
    BY <1>1 DEF Cold, EndCold, Goes
  <1>2. CASE Bring
    BY <1>2 DEF Bring, BringUp, StackUp
  <1>3. CASE Register
    BY <1>3 DEF Register, Goes, BtOpened
  <1>4. CASE ConnectEarly
    BY <1>4 DEF ConnectEarly, Goes
  <1>5. CASE Enable
    BY <1>5 DEF Enable, Goes, May
  <1>6. CASE OpenWindow
    BY <1>6 DEF OpenWindow, Goes, May
  <1>7. CASE FallBack
    BY <1>7 DEF FallBack, Goes
  <1>8. CASE Conclude
    BY <1>8 DEF Conclude, Goes
  <1> QED BY <1>1, <1>2, <1>3, <1>4, <1>5, <1>6, <1>7, <1>8

LEMMA HeldScans ==
  ASSUME HeldByPlace, UNCHANGED unstopped,
         Initialise \/ BeginPaired \/ \E kind \in {"general", "smart"} : BeginPass(kind)
  PROVE  HeldByPlace'
  <1> USE DEF HeldByPlace, Places, MayHold, MayScan, BetweenProbes, DriverServices,
              UserServices, ManagerServices
  <1>1. CASE Initialise
    BY <1>1 DEF Initialise
  <1>2. CASE BeginPaired
    BY <1>2 DEF BeginPaired, Goes, May
  <1>3. ASSUME NEW kind \in {"general", "smart"}, BeginPass(kind) PROVE HeldByPlace'
    BY <1>3 DEF BeginPass, Goes, StartsScan, Polls
  <1> QED BY <1>1, <1>2, <1>3

LEMMA HeldStops == ASSUME HeldByPlace, Stops PROVE HeldByPlace'
  <1> USE DEF HeldByPlace, Places, MayHold, MayScan, BetweenProbes, DriverServices,
              UserServices, ManagerServices
  <1>1. CASE EndPhase
    <2>1. scans' \subseteq unstopped'
      BY <1>1, ScansStopped DEF EndPhase, Goes
    <2> QED BY <1>1, <2>1 DEF EndPhase, Goes
  <1>2. CASE CloseWindow
    <2>1. scans' \subseteq unstopped'
      BY <1>2, ScansStopped DEF CloseWindow, Goes
    <2> QED BY <1>2, <2>1 DEF CloseWindow, Goes
  <1>3. CASE EndPaired
    <2>1. scans' \subseteq unstopped'
      BY <1>3, ScansStopped DEF EndPaired
    <2> QED BY <1>3, <2>1 DEF EndPaired, BtOpened
  <1>4. ASSUME NEW kind \in {"general", "smart"}, EndPass(kind) PROVE HeldByPlace'
    <2>1. scans' \subseteq unstopped'
      BY <1>4, ScansStopped DEF EndPass, Goes, Polls
    <2> QED BY <1>4, <2>1 DEF EndPass, Goes, Polls, After
  <1> QED BY <1>1, <1>2, <1>3, <1>4 DEF Stops

LEMMA HeldConnection ==
  ASSUME HeldByPlace,
         \/ Connect \/ Connected \/ NotConnected \/ ReadTable
         \/ Transport \/ StopTransport \/ EndPeek \/ Disconnect \/ Close,
         UNCHANGED unstopped
  PROVE  HeldByPlace'
  <1> USE DEF HeldByPlace, Places, MayHold, MayScan, BetweenProbes, DriverServices,
              UserServices, ManagerServices
  <1>1. CASE Connect
    BY <1>1 DEF Connect
  <1>2. CASE Connected
    BY <1>2 DEF Connected, Goes
  <1>3. CASE NotConnected
    BY <1>3 DEF NotConnected, Goes
  <1>4. CASE ReadTable
    BY <1>4 DEF ReadTable
  <1>5. CASE Transport
    BY <1>5 DEF Transport, Phase, WheelEnds, ReactionEnds, Goes
  <1>6. CASE StopTransport \/ EndPeek
    BY <1>6 DEF StopTransport, EndPeek, Goes
  <1>7. CASE Disconnect
    BY <1>7 DEF Disconnect, Goes
  <1>8. CASE Close
    BY <1>8 DEF Close, Goes
  <1> QED BY <1>1, <1>2, <1>3, <1>4, <1>5, <1>6, <1>7, <1>8

\* A start finds the last worker ended, with nothing open; the other requests, the page and
\* the radio leave the place and what is held alone.
LEMMA HeldOthers ==
  ASSUME HeldByPlace, Shows \/ Reopens \/ Calls \/ External \/ UNCHANGED vars
  PROVE  HeldByPlace'
  <1>1. CASE UNCHANGED <<worker, open, scans, unstopped>>
    BY <1>1 DEF HeldByPlace
  <1>2. CASE Shows \/ Reopens
    BY <1>1, <1>2 DEF Shows, Reopens, workerVars
  <1>3. CASE External
    BY <1>1, <1>3 DEF External, Radio, ScanReports, WindowReports, Completes, GoesAway
  <1>4. CASE Calls
    <2>1. UNCHANGED <<open, scans, unstopped>>
      BY <1>4 DEF Calls
    <2>2. CASE Start
      <3>1. UNCHANGED worker \/ (worker = "exited" /\ worker' \in {"waking", "exited"})
        BY <2>2 DEF Start
      <3>2. CASE worker = "exited" /\ worker' \in {"waking", "exited"}
        <4>1. open = {} /\ scans \subseteq unstopped
          BY <3>2 DEF HeldByPlace, MayHold, MayScan, BetweenProbes
        <4> QED BY <2>1, <3>2, <4>1 DEF HeldByPlace, Places
      <3> QED BY <1>1, <2>1, <3>1, <3>2
    <2>3. Start \/ UNCHANGED worker
      BY <1>4 DEF Calls, Stop, Action
    <2> QED BY <1>1, <2>1, <2>2, <2>3
  <1>5. CASE UNCHANGED vars
    BY <1>1, <1>5 DEF vars, workerVars
  <1> QED BY <1>2, <1>3, <1>4, <1>5

LEMMA HeldStep == HeldByPlace /\ [Next]_vars => HeldByPlace'
  BY HeldThread, HeldDriver, HeldScans, HeldStops, HeldConnection, HeldOthers
     DEF Next, Worker, Works, Steps

(* Whatever is refused, whatever the radio reports and whenever the run is stopped, a worker
   between probes holds no service and no event, and no scan but one whose stop was refused
   (ble_poc.c:2060-2091, 2531-2577, 3660-3677); the BLE stack is never brought up inside the
   session that talks to btm, which holds the driver's service beside btm's only while it
   peeks into the event queues (ble_poc.c:1066-1120, 3597-3599, 3748-3753). *)
THEOREM NothingLeftOpenAlways == Spec => []NothingLeftOpen
  <1>1. Init => HeldByPlace
    BY HeldInit
  <1>2. HeldByPlace /\ [Next]_vars => HeldByPlace'
    BY HeldStep
  <1>3. HeldByPlace => NothingLeftOpen
    BY HeldImplies
  <1> QED BY <1>1, <1>2, <1>3, PTL DEF Spec

-----------------------------------------------------------------------------
(* The cap at the end of the transport. *)

\* The last phase ends with the packet that caps the device, or with one that was lost.
LEMMA LastPhaseCaps ==
  ASSUME ReactionEnds
  PROVE  lost' \/ probe'.handle \notin ceiling'
  BY DEF ReactionEnds, Phase, Announces

LEMMA CappedWorks ==
  ASSUME CappedAtDisconnect, Works
  PROVE  CappedAtDisconnect'
  <1>1. CASE ReactionEnds
    BY <1>1, LastPhaseCaps DEF CappedAtDisconnect
  <1>2. CASE ~ReactionEnds
    <2>1. worker' # "stopping"
      BY <1>2 DEF Works, Wake, Take, Choose, Leave, Bring, BringUp, StackUp, Register, ConnectEarly,
                  Enable, EndPhase, OpenWindow, CloseWindow, FallBack, Conclude, Initialise,
                  BeginPass, EndPass, Polls, After, BeginPaired, EndPaired, Connect, Connected,
                  NotConnected, ReadTable, Transport, Phase, WheelEnds, StopTransport, EndPeek,
                  Disconnect, Close, Goes, Cold, EndCold, Steps, Stops
    <2> QED BY <2>1 DEF CappedAtDisconnect
  <1> QED BY <1>1, <1>2

LEMMA CappedOthers ==
  ASSUME CappedAtDisconnect, Shows \/ Reopens \/ Calls \/ External \/ UNCHANGED vars
  PROVE  CappedAtDisconnect'
  <1>1. CASE UNCHANGED <<worker, probe, ceiling>> /\ (lost => lost')
    BY <1>1 DEF CappedAtDisconnect
  <1>2. CASE Shows \/ Reopens \/ UNCHANGED vars
    BY <1>1, <1>2 DEF Shows, Reopens, vars, workerVars
  <1>3. CASE External
    <2>1. CASE ScanReports \/ WindowReports
      BY <2>1 DEF ScanReports, WindowReports, CappedAtDisconnect
    <2>2. CASE Completes \/ GoesAway
      BY <1>1, <2>2 DEF Completes, GoesAway
    <2> QED BY <1>3, <2>1, <2>2 DEF External, Radio
  <1>4. CASE Calls
    <2>1. UNCHANGED <<probe, ceiling, lost>>
      BY <1>4 DEF Calls
    <2>2. UNCHANGED worker \/ worker' \in {"waking", "exited"}
      BY <1>4 DEF Calls, Start, Stop, Action
    <2> QED BY <1>1, <2>1, <2>2 DEF CappedAtDisconnect
  <1> QED BY <1>2, <1>3, <1>4

LEMMA CappedStep == CappedAtDisconnect /\ [Next]_vars => CappedAtDisconnect'
  BY CappedWorks, CappedOthers DEF Next, Worker

(* However the phases of the transport end and whenever the run is stopped, the device is
   capped again before the link goes down, unless a packet was lost (ble_poc.c:1161-1246). *)
THEOREM CappedAtDisconnectAlways == Spec => []CappedAtDisconnect
  <1>1. Init => CappedAtDisconnect
    BY DEF Init, ProbeInit, CappedAtDisconnect
  <1>2. CappedAtDisconnect /\ [Next]_vars => CappedAtDisconnect'
    BY CappedStep
  <1> QED BY <1>1, <1>2, PTL DEF Spec

-----------------------------------------------------------------------------
(* Types. *)

Requests == [running : BOOLEAN, stop : BOOLEAN, action : Probes \cup {None},
             target : Devices \cup {None}, discovered : BOOLEAN]
Variables == [client : {None, "given"}, address : Devices \cup {None}, seen : SUBSET Devices,
              handle : Devices \cup {None}]
PageStates == [at : {"closed", "first", "open"}, sequence : 0..2, idle : 0..IdleFrames - 1]

\* What the window remembers is finite, and a connect is made to an address.
WorkerTypes ==
  /\ unstopped \subseteq scans /\ scans \subseteq {"driver", "general", "smart", "paired"}
  /\ todo \subseteq Probes /\ tries \in 0..Attempts
  /\ poc \in Requests /\ probe \in Variables
  /\ IsFiniteSet(probe.seen) /\ Cardinality(probe.seen) <= SeenMax
  /\ coords \in BOOLEAN /\ file \in Devices \cup {None}
  /\ asked \subseteq Devices /\ link \subseteq Devices /\ ceiling \subseteq Devices
  /\ lost \in BOOLEAN
  /\ worker \in {"connecting", "awaiting"} => probe.address # None
  /\ worker \in {"gatt", "starting", "baseline", "wheel", "capped", "reaction"} =>
       probe.handle # None
PageTypes ==
  /\ page \in PageStates
  /\ calls \in Seq({"start", "stop"} \cup Probes) /\ keys \in 0..MaxKeys

LEMMA TypesMakeTypeOK == HeldByPlace /\ WorkerTypes /\ PageTypes => TypeOK
  <1> SUFFICES ASSUME HeldByPlace, WorkerTypes, PageTypes PROVE TypeOK
    OBVIOUS
  <1>1. MayHold(worker) \subseteq Services
    BY DEF MayHold, Services, DriverServices, UserServices, ManagerServices
  <1>2. scans \subseteq {"driver", "general", "smart", "paired"}
    BY DEF WorkerTypes
  <1> QED BY <1>1, <1>2 DEF HeldByPlace, WorkerTypes, PageTypes, TypeOK, Requests, Variables,
                            PageStates

LEMMA TypesInit == Init => WorkerTypes /\ PageTypes
  <1> SUFFICES ASSUME Init PROVE WorkerTypes /\ PageTypes
    OBVIOUS
  <1>1. IsFiniteSet({}) /\ Cardinality({}) = 0
    BY FS_EmptySet
  <1>2. poc \in Requests /\ probe \in Variables /\ probe.seen = {}
    BY DEF Init, ProbeInit, Fresh, Requests, Variables
  <1>3. file \in Devices \cup {None} /\ link \subseteq Devices
    BY ProbeAssumption DEF Init, ProbeInit, Devices
  <1>4. WorkerTypes
    <2>1. /\ worker = "exited" /\ todo = {} /\ tries = 0 /\ coords = FALSE
          /\ asked = {} /\ ceiling = {} /\ lost = FALSE /\ scans = {} /\ unstopped = {}
      BY DEF Init, ProbeInit
    <2>2. IsFiniteSet(probe.seen) /\ Cardinality(probe.seen) <= SeenMax
      BY <1>1, <1>2, ProbeAssumption
    <2>3. todo \subseteq Probes /\ tries \in 0..Attempts
      BY <2>1, ProbeAssumption
    <2>4. asked \subseteq Devices /\ ceiling \subseteq Devices
      BY <2>1
    <2>5. /\ worker \notin {"connecting", "awaiting"}
          /\ worker \notin {"gatt", "starting", "baseline", "wheel", "capped", "reaction"}
      BY <2>1
    <2>6. coords \in BOOLEAN /\ lost \in BOOLEAN
      BY <2>1, Zenon
    <2>7. unstopped \subseteq scans /\ scans \subseteq {"driver", "general", "smart", "paired"}
      BY <2>1
    <2> QED BY <1>2, <1>3, <2>2, <2>3, <2>4, <2>5, <2>6, <2>7 DEF WorkerTypes
  <1>5. PageTypes
    BY OneKeyAssumption DEF Init, PageTypes, PageStates
  <1> QED BY <1>4, <1>5

\* The variables of a probe that ends are those the next one begins with.
LEMMA FreshTypes ==
  /\ Fresh \in Variables /\ Fresh.address = None
  /\ IsFiniteSet(Fresh.seen) /\ Cardinality(Fresh.seen) <= SeenMax
  <1>1. IsFiniteSet({}) /\ Cardinality({}) = 0
    BY FS_EmptySet
  <1>2. Fresh \in Variables /\ Fresh.address = None /\ Fresh.seen = {}
    BY DEF Fresh, Variables
  <1> QED BY <1>1, <1>2, ProbeAssumption

LEMMA TypesThread ==
  ASSUME WorkerTypes, Wake \/ Take \/ Choose \/ Leave, UNCHANGED unstopped
  PROVE  WorkerTypes'
  <1> USE DEF WorkerTypes, Requests, Variables, Probes
  <1>1. CASE Wake
    BY <1>1 DEF Wake, Goes
  <1>2. CASE Take
    BY <1>2 DEF Take
  <1>3. CASE Choose
    BY <1>3 DEF Choose
  <1>4. CASE Leave
    BY <1>4 DEF Leave, Goes
  <1> QED BY <1>1, <1>2, <1>3, <1>4

LEMMA TypesDriver ==
  ASSUME WorkerTypes,
         \/ Cold \/ EndCold \/ Bring \/ Register \/ ConnectEarly
         \/ Enable \/ OpenWindow \/ FallBack \/ Conclude,
         UNCHANGED unstopped
  PROVE  WorkerTypes'
  <1> USE ProbeAssumption DEF WorkerTypes, Requests, Variables
  <1>1. CASE Cold \/ EndCold
    BY <1>1 DEF Cold, EndCold, Goes
  <1>2. CASE Bring
    <2>1. CASE StackUp
      BY <1>2, <2>1 DEF Bring, StackUp
    <2>2. CASE worker' = "choosing" /\ tries' = 0 /\ probe' = Fresh
      BY <1>2, <2>2, FreshTypes DEF Bring
    <2> QED BY <1>2, <2>1, <2>2 DEF Bring, BringUp
  <1>3. CASE Register
    BY <1>3 DEF Register, Goes
  <1>4. CASE ConnectEarly
    BY <1>4 DEF ConnectEarly, Goes, Accepts
  <1>5. CASE Enable
    <2>1. scans \subseteq scans' /\ scans' \subseteq scans \cup {"driver"}
      BY <1>5 DEF Enable, May
    <2>2. unstopped' \subseteq scans'
      BY <2>1
    <2>3. scans' \subseteq {"driver", "general", "smart", "paired"}
      BY <2>1
    <2>4. worker' \in {"fallback", "scanning"}
      BY <1>5 DEF Enable
    <2> QED BY <1>5, <2>2, <2>3, <2>4 DEF Enable
  <1>6. CASE OpenWindow
    <2>1. scans \subseteq scans' /\ scans' \subseteq scans \cup {"driver"}
      BY <1>6 DEF OpenWindow, May
    <2>2. unstopped' \subseteq scans'
      BY <2>1
    <2>3. scans' \subseteq {"driver", "general", "smart", "paired"}
      BY <2>1
    <2>4. worker' \in {"fallback", "window"}
      BY <1>6 DEF OpenWindow
    <2> QED BY <1>6, <2>2, <2>3, <2>4 DEF OpenWindow
  <1>7. CASE FallBack
    BY <1>7 DEF FallBack, Goes
  <1>8. CASE Conclude
    <2>1. asked' \subseteq Devices
      BY <1>8 DEF Conclude, Accepts
    <2> QED BY <1>8, <2>1, FreshTypes DEF Conclude, Goes
  <1> QED BY <1>1, <1>2, <1>3, <1>4, <1>5, <1>6, <1>7, <1>8

LEMMA TypesScans ==
  ASSUME WorkerTypes, UNCHANGED unstopped,
         Initialise \/ BeginPaired \/ \E kind \in {"general", "smart"} : BeginPass(kind)
  PROVE  WorkerTypes'
  <1> USE ProbeAssumption DEF WorkerTypes, Requests, Variables
  <1>1. CASE Initialise
    BY <1>1 DEF Initialise
  <1>2. CASE BeginPaired
    BY <1>2 DEF BeginPaired, Goes, May
  <1>3. ASSUME NEW kind \in {"general", "smart"}, BeginPass(kind) PROVE WorkerTypes'
    BY <1>3 DEF BeginPass, Goes, Polls, StartsScan
  <1> QED BY <1>1, <1>2, <1>3

\* A stop leaves no scan unstopped that does not run.
LEMMA StopsKeep ==
  ASSUME NEW kind, unstopped \subseteq scans, StopsScan(kind)
  PROVE  unstopped' \subseteq scans' /\ scans' \subseteq scans
  BY DEF StopsScan

LEMMA TypesStops == ASSUME WorkerTypes, Stops PROVE WorkerTypes'
  <1>1. unstopped' \subseteq scans' /\ scans' \subseteq scans
    BY StopsKeep DEF Stops, EndPhase, CloseWindow, EndPaired, EndPass, WorkerTypes
  <1> USE <1>1, ProbeAssumption DEF WorkerTypes, Requests, Variables
  <1>2. CASE EndPhase
    BY <1>2 DEF EndPhase, Goes
  <1>5. CASE CloseWindow
    <2>1. IsFiniteSet({}) /\ Cardinality({}) = 0
      BY FS_EmptySet
    <2> QED BY <1>5, <2>1 DEF CloseWindow, Goes
  <1>3. CASE EndPaired
    BY <1>3 DEF EndPaired
  <1>4. ASSUME NEW kind \in {"general", "smart"}, EndPass(kind) PROVE WorkerTypes'
    BY <1>4 DEF EndPass, Goes, Polls, After
  <1> QED BY <1>2, <1>3, <1>4, <1>5 DEF Stops

LEMMA TypesConnection ==
  ASSUME WorkerTypes,
         \/ Connect \/ Connected \/ NotConnected \/ ReadTable
         \/ Transport \/ StopTransport \/ EndPeek \/ Disconnect \/ Close,
         UNCHANGED unstopped
  PROVE  WorkerTypes'
  <1> USE ProbeAssumption DEF WorkerTypes, Requests, Variables
  <1>1. CASE Connect
    BY <1>1 DEF Connect, Accepts
  <1>2. CASE Connected
    BY <1>2 DEF Connected, Goes
  <1>3. CASE NotConnected
    BY <1>3 DEF NotConnected, Goes
  <1>4. CASE ReadTable
    BY <1>4 DEF ReadTable
  <1>5. CASE Transport
    BY <1>5 DEF Transport, Phase, WheelEnds, ReactionEnds, Goes, Announces
  <1>6. CASE StopTransport \/ EndPeek
    BY <1>6 DEF StopTransport, EndPeek, Goes
  <1>7. CASE Disconnect
    BY <1>7 DEF Disconnect, Goes
  <1>8. CASE Close
    BY <1>8, FreshTypes DEF Close, Goes
  <1> QED BY <1>1, <1>2, <1>3, <1>4, <1>5, <1>6, <1>7, <1>8

LEMMA TypesRadio == ASSUME WorkerTypes, Radio PROVE WorkerTypes'
  <1>0. UNCHANGED unstopped
    BY DEF Radio
  <1> USE <1>0, ProbeAssumption DEF WorkerTypes, Requests, Variables
  <1>1. CASE ScanReports
    BY <1>1 DEF ScanReports
  <1>2. CASE WindowReports
    <2> PICK d \in Devices \ probe.seen :
           /\ Room
           /\ IF poc.target = None /\ ~poc.discovered /\ d \in Coyotes
              THEN Discover(d)
              ELSE probe' = [probe EXCEPT !.seen = @ \cup {d}] /\ UNCHANGED <<poc, file>>
      BY <1>2 DEF WindowReports
    <2>1. /\ IsFiniteSet(probe.seen \cup {d})
          /\ Cardinality(probe.seen \cup {d}) = Cardinality(probe.seen) + 1
      BY FS_AddElement
    <2>2. Cardinality(probe.seen) \in Nat
      BY FS_CardinalityType
    <2>3. /\ probe' \in Variables /\ probe'.seen = probe.seen \cup {d}
          /\ probe'.handle = probe.handle
      <3>1. probe.seen \cup {d} \subseteq Devices
        OBVIOUS
      <3>2. CASE poc.target = None /\ ~poc.discovered /\ d \in Coyotes
        <4>1. probe' = [probe EXCEPT !.seen = @ \cup {d}, !.address = d]
          BY <3>2 DEF Discover
        <4> QED BY <3>1, <4>1
      <3>3. CASE ~(poc.target = None /\ ~poc.discovered /\ d \in Coyotes)
        BY <3>1, <3>3
      <3> QED BY <3>2, <3>3
    <2>4. Cardinality(probe'.seen) <= SeenMax
      BY <2>1, <2>2, <2>3 DEF Room
    <2>5. poc' \in Requests /\ file' \in Devices \cup {None}
      BY DEF Discover, Devices
    <2>6. /\ UNCHANGED <<worker, todo, scans, unstopped, tries, coords, asked, link, ceiling, lost>>
          /\ worker = "window"
      BY <1>2 DEF WindowReports, Radio
    <2> QED BY <2>1, <2>3, <2>4, <2>5, <2>6
  <1>3. CASE Completes
    BY <1>3 DEF Completes
  <1>4. CASE GoesAway
    BY <1>4 DEF GoesAway
  <1> QED BY <1>1, <1>2, <1>3, <1>4 DEF Radio

\* The requests; the page, whose count of idle frames starts again before it reaches its end.
LEMMA TypesCalls == ASSUME WorkerTypes, PageTypes, Calls PROVE WorkerTypes' /\ PageTypes'
  <1>1. Head(calls) \in {"start", "stop"} \cup Probes
        /\ Tail(calls) \in Seq({"start", "stop"} \cup Probes)
    BY DEF Calls, PageTypes
  <1>2. /\ poc' \in Requests
        /\ worker' \in {worker, "waking", "exited"}
    <2>1. CASE Start
      <3>1. CASE poc.running
        BY <2>1, <3>1 DEF Start, WorkerTypes
      <3>2. CASE ~poc.running
        <4>1. PICK started \in BOOLEAN :
                /\ poc' = [poc EXCEPT !.running = started, !.stop = FALSE, !.action = None,
                                      !.target = file]
                /\ worker' = (IF started THEN "waking" ELSE "exited")
          BY <2>1, <3>2 DEF Start
        <4>2. file \in Devices \cup {None}
          BY DEF WorkerTypes
        <4> QED BY <4>1, <4>2 DEF Requests, WorkerTypes
      <3> QED BY <3>1, <3>2
    <2>2. CASE Stop
      BY <2>2 DEF Stop, WorkerTypes, Requests
    <2>3. ASSUME NEW action \in Probes, Action(action) PROVE poc' \in Requests /\ worker' = worker
      BY <2>3 DEF Action, WorkerTypes, Requests
    <2>4. Start \/ Stop \/ \E action \in Probes : Action(action)
      BY <1>1 DEF Calls
    <2> QED BY <2>1, <2>2, <2>3, <2>4
  <1>3. UNCHANGED <<todo, scans, unstopped, tries, probe, coords, file, asked, link,
                   ceiling, lost, page, keys>>
        /\ calls' = Tail(calls)
    BY DEF Calls
  <1>4. WorkerTypes'
    BY <1>2, <1>3 DEF WorkerTypes
  <1>5. PageTypes'
    BY <1>1, <1>3 DEF PageTypes
  <1> QED BY <1>4, <1>5

LEMMA TypesFrame ==
  ASSUME PageTypes, NEW key \in {"none", "A", "Left", "Minus", "Plus"}, Frame(key)
  PROVE  page' \in PageStates /\ calls' \in Seq({"start", "stop"} \cup Probes)
  <1> PICK answered \in BOOLEAN :
        LET active == answered /\ poc.running
            idle == IF page.sequence = 0 THEN page.idle ELSE IF active THEN 0 ELSE page.idle + 1
            steps == page.sequence # 0 /\ idle >= IdleFrames
            starts == key = "A" /\ ~active
        IN  /\ page' = [at |-> IF key = "Plus" THEN "closed" ELSE "open",
                        idle |-> IF steps THEN 0 ELSE idle,
                        sequence |-> IF starts THEN 1
                                     ELSE IF steps THEN NextStep(page.sequence) ELSE page.sequence]
            /\ calls' = (IF steps /\ page.sequence = 1 THEN <<"start", "btm">> ELSE <<>>) \o
                        (CASE key = "Minus" -> <<"stop">>
                           [] starts -> <<"start", "btdrv">>
                           [] key = "Left" -> (IF active THEN <<>> ELSE <<"start">>) \o <<"btdrv">>
                           [] OTHER -> <<>>)
    BY DEF Frame
  <1> DEFINE Asked == Seq({"start", "stop"} \cup Probes)
  <1>1. page' \in PageStates
    BY OneKeyAssumption DEF PageTypes, PageStates, NextStep
  <1>2. /\ <<>> \in Asked /\ <<"start", "btm">> \in Asked /\ <<"stop">> \in Asked
        /\ <<"start", "btdrv">> \in Asked /\ <<"start">> \in Asked /\ <<"btdrv">> \in Asked
    BY DEF Probes
  <1>3. \A a, b \in Asked : a \o b \in Asked
    OBVIOUS
  <1> HIDE DEF Asked
  <1>4. calls' \in Asked
    BY <1>2, <1>3
  <1> QED BY <1>1, <1>4 DEF Asked

LEMMA TypesPage ==
  ASSUME WorkerTypes, PageTypes, Shows \/ Reopens
  PROVE  WorkerTypes' /\ PageTypes'
  <1>1. UNCHANGED workerVars
    BY DEF Shows, Reopens
  <1>2. WorkerTypes'
    BY <1>1 DEF WorkerTypes, workerVars
  <1>3. CASE Reopens
    <2>1. page' \in PageStates /\ UNCHANGED <<calls, keys>>
      BY <1>3 DEF Reopens, PageTypes, PageStates
    <2> QED BY <1>2, <2>1 DEF PageTypes
  <1>4. CASE Shows
    <2>1. PICK key \in {"none", "A", "Left", "Minus", "Plus"} : Frame(key)
      BY <1>4 DEF Shows
    <2>2. keys' \in 0..MaxKeys
      BY <1>4, OneKeyAssumption DEF Shows, PageTypes
    <2>3. page' \in PageStates /\ calls' \in Seq({"start", "stop"} \cup Probes)
      BY <2>1, TypesFrame
    <2> QED BY <1>2, <2>2, <2>3 DEF PageTypes
  <1> QED BY <1>3, <1>4

LEMMA TypesStep == WorkerTypes /\ PageTypes /\ [Next]_vars => WorkerTypes' /\ PageTypes'
  <1> SUFFICES ASSUME WorkerTypes, PageTypes, [Next]_vars PROVE WorkerTypes' /\ PageTypes'
    OBVIOUS
  <1>1. Works \/ Radio => WorkerTypes'
    BY TypesThread, TypesDriver, TypesScans, TypesStops, TypesConnection, TypesRadio
       DEF Works, Steps
  <1>2. UNCHANGED <<page, calls, keys>> => PageTypes'
    BY DEF PageTypes
  <1>3. UNCHANGED vars => WorkerTypes' /\ UNCHANGED <<page, calls, keys>>
    BY DEF vars, workerVars, WorkerTypes
  <1> QED BY <1>1, <1>2, <1>3, TypesCalls, TypesPage DEF Next, Worker, External

(* The worker, the slot and the page keep their types (ble_poc.c, ble_poc_view.c): at most
   SeenMax devices are remembered, at most Attempts tries are made, and the idle frames of
   the page never reach the number that steps its sequence. *)
THEOREM OneKeyType == Spec => []TypeOK
  <1>1. Init => HeldByPlace /\ WorkerTypes /\ PageTypes
    BY HeldInit, TypesInit
  <1>2. HeldByPlace /\ WorkerTypes /\ PageTypes /\ [Next]_vars
        => HeldByPlace' /\ WorkerTypes' /\ PageTypes'
    BY HeldStep, TypesStep
  <1> QED BY <1>1, <1>2, TypesMakeTypeOK, PTL DEF Spec

-----------------------------------------------------------------------------
(* The address of a run. *)

Scanning == {"initialising", "general", "generalPolls", "smart", "smartPolls", "paired",
             "pairedWaits"}
Chosen == {"connecting", "awaiting", "gatt", "starting", "baseline", "wheel", "capped",
           "reaction", "stopping", "peeking", "disconnecting"}

Idle == BetweenProbes \cup {"initialising"}

\* The strengthening: the worker is there exactly while a run is, so that nothing but a
\* start, which reads the file, sets the target of a run that has ended; a probe begins
\* without an address; and the scans of the btm probe report the target or nothing.
TargetByRun ==
  /\ TargetKept
  /\ poc.running <=> worker # "exited"
  /\ worker \in Idle => probe.address = None
  /\ worker \in Scanning /\ poc.target # None => probe.address \in {None, poc.target}

\* A step that leaves the run, its target and the file alone, and comes to none of the
\* places where the address matters but with the one it had there, or with none.
LEMMA TargetFrame ==
  ASSUME TargetByRun, poc'.target = poc.target, poc'.running = poc.running, UNCHANGED file,
         worker # "exited" <=> worker' # "exited",
         worker' = "concluding" => worker = "concluding" /\ probe'.address = probe.address,
         worker' \in Chosen => worker \in Chosen /\ probe'.address = probe.address,
         worker' \in Idle =>
           probe'.address = None \/ (worker \in Idle /\ probe'.address = probe.address),
         worker' \in Scanning =>
           probe'.address = None \/ (worker \in Scanning /\ probe'.address = probe.address)
  PROVE  TargetByRun'
  <1>1. (poc.running /\ file # None => poc.target = file)'
    BY DEF TargetByRun, TargetKept
  <1>2. (worker \in Chosen /\ poc.target # None => probe.address = poc.target)'
    BY DEF TargetByRun, TargetKept, Chosen
  <1>3. (worker = "concluding" /\ poc.target # None => probe.address # None)'
    BY DEF TargetByRun, TargetKept
  <1>4. (poc.running <=> worker # "exited")'
    BY DEF TargetByRun
  <1>5. (worker \in Scanning /\ poc.target # None => probe.address \in {None, poc.target})'
    BY DEF TargetByRun
  <1>6. (worker \in Idle => probe.address = None)'
    BY DEF TargetByRun
  <1> QED BY <1>1, <1>2, <1>3, <1>4, <1>5, <1>6 DEF TargetByRun, TargetKept, Chosen

\* Only the window finds a target, and only for a run that has none: the file had none.
LEMMA TargetWindow == ASSUME WorkerTypes, TargetByRun, WindowReports PROVE TargetByRun'
  <1> PICK d \in Devices \ probe.seen :
         IF poc.target = None /\ ~poc.discovered /\ d \in Coyotes
         THEN Discover(d)
         ELSE probe' = [probe EXCEPT !.seen = @ \cup {d}] /\ UNCHANGED <<poc, file>>
    BY DEF WindowReports
  <1>1. UNCHANGED worker /\ worker = "window"
    BY DEF WindowReports
  <1>2. CASE poc.target = None /\ ~poc.discovered /\ d \in Coyotes
    <2>1. poc' = [poc EXCEPT !.target = d, !.discovered = TRUE] /\ file' \in {d, file}
      BY <1>2 DEF Discover
    <2>2. file = None
      BY <1>1, <1>2 DEF TargetByRun, TargetKept
    <2>3. poc'.target = d /\ poc'.running = poc.running
      BY <2>1 DEF WorkerTypes, Requests
    <2> QED BY <1>1, <2>1, <2>2, <2>3 DEF TargetByRun, TargetKept, Scanning, Idle, BetweenProbes
  <1>3. CASE ~(poc.target = None /\ ~poc.discovered /\ d \in Coyotes)
    BY <1>1, <1>3, TargetFrame DEF Scanning, Chosen, Idle, BetweenProbes
  <1> QED BY <1>2, <1>3

\* Every other step of the worker.  Leave ends the run; FallBack gives the driver-level probe
\* that found no device the address of the run, and EndPaired the btm probe.
LEMMA TargetWorks == ASSUME WorkerTypes, TargetByRun, Works PROVE TargetByRun'
  <1> USE DEF WorkerTypes, Requests, Variables
  <1>1. CASE Wake \/ Take
    BY <1>1, TargetFrame DEF Wake, Take, Goes, Scanning, Chosen, Idle, BetweenProbes
  <1>2. CASE Choose
    <2>1. worker' \in {"initialising", "bringing", "cold", "leaving"} /\ worker = "choosing"
      BY <1>2 DEF Choose
    <2>2. probe'.address = None /\ UNCHANGED <<poc, file>>
      BY <1>2 DEF Choose, TargetByRun, Idle, BetweenProbes
    <2> QED BY <2>1, <2>2, TargetFrame DEF Chosen
  <1>3. CASE Leave
    BY <1>3 DEF TargetByRun, TargetKept, Leave, Goes, Scanning, Idle, BetweenProbes
  <1>4. CASE Cold \/ EndCold \/ Bring \/ Register \/ ConnectEarly
    BY <1>4, TargetFrame, FreshTypes
       DEF Cold, EndCold, Bring, BringUp, StackUp, Register, ConnectEarly, Goes,
           Scanning, Chosen, Idle, BetweenProbes
  <1>5. CASE Enable \/ EndPhase \/ OpenWindow \/ CloseWindow \/ Conclude
    BY <1>5, TargetFrame, FreshTypes
       DEF Enable, EndPhase, OpenWindow, CloseWindow, Conclude, Goes, Scanning, Chosen,
           Idle, BetweenProbes
  <1>6. CASE FallBack
    BY <1>6 DEF TargetByRun, TargetKept, FallBack, Goes, Scanning, Idle, BetweenProbes
  <1>7. CASE Initialise \/ BeginPaired \/ \E kind \in {"general", "smart"} : BeginPass(kind)
    BY <1>7, TargetFrame
       DEF Initialise, BeginPaired, BeginPass, Goes, Polls, Scanning, Chosen,
           Idle, BetweenProbes
  <1>8. ASSUME NEW kind \in {"general", "smart"}, EndPass(kind) PROVE TargetByRun'
    <2>1. worker \in Scanning /\ worker' \in Scanning /\ worker' \notin Idle
      BY <1>8 DEF EndPass, Goes, Polls, After, Scanning, Idle, BetweenProbes
    <2>2. UNCHANGED <<poc, file>>
      BY <1>8 DEF EndPass
    <2>3. CASE UNCHANGED probe
      BY <2>1, <2>2, <2>3, TargetFrame DEF Scanning, Chosen, BetweenProbes, Idle
    <2>4. ASSUME NEW d \in Devices, poc.target \in {None, d}, probe' = [probe EXCEPT !.address = d]
          PROVE  TargetByRun'
      BY <2>1, <2>2, <2>4 DEF TargetByRun, TargetKept, Scanning, Idle, BetweenProbes
    <2> QED BY <1>8, <2>3, <2>4 DEF EndPass
  <1>9. CASE EndPaired
    <2>1. worker \in Scanning /\ worker' \in {"closing", "connecting"} /\ UNCHANGED <<poc, file>>
      BY <1>9 DEF EndPaired, Scanning
    <2>2. poc.target # None => probe'.address = poc.target
      BY <1>9, <2>1 DEF EndPaired, TargetByRun
    <2> QED BY <2>1, <2>2 DEF TargetByRun, TargetKept, Scanning, Idle, BetweenProbes
  <1>10. CASE Connect \/ Connected \/ NotConnected \/ ReadTable
    BY <1>10, TargetFrame
       DEF Connect, Connected, NotConnected, ReadTable, Goes, Scanning, Chosen,
           Idle, BetweenProbes
  <1>11. CASE Transport \/ StopTransport \/ EndPeek \/ Disconnect \/ Close
    BY <1>11, TargetFrame, FreshTypes
       DEF Transport, Phase, WheelEnds, ReactionEnds, StopTransport, EndPeek, Disconnect,
           Close, Goes, Scanning, Chosen, Idle, BetweenProbes
  <1> QED BY <1>1, <1>2, <1>3, <1>4, <1>5, <1>6, <1>7, <1>8, <1>9, <1>10, <1>11
          DEF Works, Steps, Stops

LEMMA TargetCalls == ASSUME WorkerTypes, TargetByRun, Calls PROVE TargetByRun'
  <1> USE DEF WorkerTypes, Requests
  <1>1. UNCHANGED <<probe, file>>
    BY DEF Calls
  <1>2. CASE Start /\ ~poc.running
    BY <1>1, <1>2 DEF Start, TargetByRun, TargetKept, Scanning, Idle, BetweenProbes
  <1>3. CASE ~(Start /\ ~poc.running)
    BY <1>1, <1>3, TargetFrame DEF Calls, Start, Stop, Action, Scanning, Chosen,
                                    Idle, BetweenProbes
  <1> QED BY <1>2, <1>3

LEMMA TargetStep == WorkerTypes /\ TargetByRun /\ [Next]_vars => TargetByRun'
  <1> SUFFICES ASSUME WorkerTypes, TargetByRun, [Next]_vars PROVE TargetByRun'
    OBVIOUS
  <1>1. CASE UNCHANGED <<worker, poc, probe, file>>
    BY <1>1, TargetFrame
  <1>2. CASE ScanReports
    BY <1>2, TargetFrame DEF ScanReports, Scanning, Chosen, Idle, BetweenProbes
  <1>3. CASE Completes \/ GoesAway \/ Shows \/ Reopens \/ UNCHANGED vars
    BY <1>1, <1>3 DEF Completes, GoesAway, Shows, Reopens, vars, workerVars
  <1> QED BY <1>2, <1>3, TargetWindow, TargetWorks, TargetCalls
          DEF Next, Worker, External, Radio

(* The address a run found, or that the file held when it started, is its target, and a
   saved address is the target of every later run (ble_poc.c:2499-2511,
   ble_poc_view.c:264-283); the btm probe of a run that has a target connects to that address
   and to no other one (ble_poc.c:2977, 2995-3010, 3597-3645). *)
THEOREM TargetIsKept == Spec => []TargetKept
  <1>1. Init => WorkerTypes /\ PageTypes /\ TargetByRun
    BY TypesInit, FreshTypes DEF Init, ProbeInit, TargetByRun, TargetKept, Scanning,
                                  Idle, BetweenProbes
  <1>2. WorkerTypes /\ PageTypes /\ TargetByRun /\ [Next]_vars
        => WorkerTypes' /\ PageTypes' /\ TargetByRun'
    BY TypesStep, TargetStep
  <1>3. TargetByRun => TargetKept
    BY DEF TargetByRun
  <1> QED BY <1>1, <1>2, <1>3, PTL DEF Spec
=============================================================================
