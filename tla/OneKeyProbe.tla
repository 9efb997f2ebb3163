------------------------------ MODULE OneKeyProbe ------------------------------
(***************************************************************************)
(* The BLE diagnostic page of the NRO (ble_poc_view.c) over the worker of  *)
(* ProbeWorker: one key runs the driver-level probe and, in a run of its   *)
(* own, the btm probe.  A frame of the page is one step; the requests it   *)
(* makes are the next ones, and the worker moves between any two.          *)
(***************************************************************************)
EXTENDS ProbeWorker, Sequences

CONSTANTS
  IdleFrames,    \* PROBE_SEQUENCE_IDLE_FRAMES, 30
  MaxKeys        \* bound: keys pressed on the page

ASSUME OneKeyAssumption == IdleFrames \in Nat \ {0} /\ MaxKeys \in Nat

VARIABLES
  page,     \* the page: where it is, g_probe_sequence, g_probe_idle_frames
  calls,    \* requests of this frame not made yet
  keys      \* keys pressed

vars == <<workerVars, page, calls, keys>>

Init ==
  /\ ProbeInit /\ calls = <<>> /\ keys = 0
  /\ page = [at |-> "first", sequence |-> 0, idle |-> 0]

-----------------------------------------------------------------------------
(* The page. *)

\* Mutant: the second step leaves the sequence where it is.
NextStepForgets(step) == IF step = 1 THEN 1 ELSE 0

NextStep(step) == IF step = 1 THEN 2 ELSE 0

\* A frame: the status is read, and may not be; the sequence is stepped; then the
\* keys, of which the first frame swallows the one that opened the page.
Frame(key) ==
  \E answered \in BOOLEAN :
    LET active == answered /\ poc.running
        idle == IF page.sequence = 0 THEN page.idle ELSE IF active THEN 0 ELSE page.idle + 1
        steps == page.sequence # 0 /\ idle >= IdleFrames
        starts == key = "A" /\ ~active
    IN  /\ page' = [at |-> IF key = "Plus" THEN "closed" ELSE "open",
                    idle |-> IF steps THEN 0 ELSE idle,
                    sequence |-> IF starts THEN 1
                                 ELSE IF steps THEN NextStep(page.sequence) ELSE page.sequence]
        /\ calls' = (IF steps /\ page.sequence = 1 THEN <<"start", "btm">> ELSE <<>>) \o
                    (CASE key = "Minus" -> <<"stop">>
                       [] starts -> <<"start", "btdrv">>
                       [] key = "Left" -> (IF active THEN <<>> ELSE <<"start">>) \o <<"btdrv">>
                       [] OTHER -> <<>>)

Shows ==
  /\ page.at # "closed" /\ calls = <<>>
  /\ \/ Frame("none") /\ UNCHANGED keys
     \/ page.at = "open" /\ keys < MaxKeys /\ keys' = keys + 1
         /\ \E key \in {"A", "Left", "Minus", "Plus"} : Frame(key)
  /\ UNCHANGED workerVars

Reopens ==
  /\ page.at = "closed" /\ calls = <<>>
  /\ page' = [page EXCEPT !.at = "first"]
  /\ UNCHANGED <<workerVars, calls, keys>>

-----------------------------------------------------------------------------
(* The requests. *)

\* pocSendStart reads the address file, then POC_START: a run in progress refuses; the
\* worker that ended is waited for; the thread may not start.
Start ==
  IF poc.running
  THEN UNCHANGED <<worker, poc>>
  ELSE /\ worker = "exited"
       /\ \E started \in BOOLEAN :
            /\ poc' = [poc EXCEPT !.running = started, !.stop = FALSE, !.action = None,
                                  !.target = file]
            /\ worker' = (IF started THEN "waking" ELSE "exited")

\* POC_ACTION: one slot, whatever it held.
Action(action) == poc' = [poc EXCEPT !.action = action] /\ UNCHANGED worker

Stop == poc' = [poc EXCEPT !.stop = TRUE] /\ UNCHANGED worker

Calls ==
  /\ calls # <<>> /\ calls' = Tail(calls)
  /\ CASE Head(calls) = "start" -> Start
       [] Head(calls) = "stop" -> Stop
       [] OTHER -> Action(Head(calls))
  /\ UNCHANGED <<todo, open, scans, unstopped, tries, probe, coords, file, asked, link,
                 ceiling, lost, page, keys>>

Worker == Works /\ UNCHANGED <<page, calls, keys>>
External == Radio /\ UNCHANGED <<page, calls, keys>>

Next == Shows \/ Reopens \/ Calls \/ Worker \/ External
Spec == Init /\ [][Next]_vars

\* The page's thread and the worker's are scheduled; nothing forces a key, the user or the radio.
FairSpec == Spec /\ WF_vars(Shows \/ Calls) /\ WF_vars(Worker)

-----------------------------------------------------------------------------
(* The worker, the slot and the page keep their types. *)
TypeOK ==
  /\ worker \in Places /\ todo \subseteq Probes /\ open \subseteq Services
  /\ poc \in [running : BOOLEAN, stop : BOOLEAN, action : Probes \cup {None},
              target : Devices \cup {None}, discovered : BOOLEAN]
  /\ unstopped \subseteq scans /\ scans \subseteq {"driver", "general", "smart", "paired"}
  /\ tries \in 0..Attempts
  /\ probe \in [client : {None, "given"}, address : Devices \cup {None},
                seen : SUBSET Devices, handle : Devices \cup {None}]
  /\ Cardinality(probe.seen) <= SeenMax
  /\ coords \in BOOLEAN /\ file \in Devices \cup {None}
  /\ asked \subseteq Devices /\ link \subseteq Devices /\ ceiling \subseteq Devices
  /\ lost \in BOOLEAN
  /\ page \in [at : {"closed", "first", "open"}, sequence : 0..2, idle : 0..IdleFrames - 1]
  /\ calls \in Seq({"start", "stop"} \cup Probes) /\ keys \in 0..MaxKeys

(* Whatever is refused and whenever the run is stopped, a worker that is between probes
   holds no service and no event, and no scan of the radio but one whose stop was refused
   (ble_poc.c:2060-2091, 2531-2577, 3660-3677); and the stack is never brought up inside the
   session that talks to btm, which opens the driver's service only for the peek at the end
   of its transport (ble_poc.c:1066-1071, 3597-3599, 3748-3753). *)
NothingLeftOpen ==
  /\ worker \in {"exited", "waking", "taking", "choosing", "leaving"} =>
       open = {} /\ scans \subseteq unstopped
  /\ "btm" \in open => "bleEvent" \notin open
  /\ {"btdrv", "btm"} \subseteq open => worker = "peeking"

(* However the phases of the transport end, the device is capped again before the link
   goes down, unless a packet was lost (ble_poc.c:1161-1246). *)
CappedAtDisconnect == worker = "stopping" /\ ~lost => probe.handle \notin ceiling

(* The address a run found, or that the file held when it started, is its target, and a
   saved address is the target of every later run (ble_poc.c:2499-2511,
   ble_poc_view.c:264-283).  The btm probe of a run that has a target connects to that
   address and to no other one, whatever its scans report (ble_poc.c:2977, 2995-3010,
   3597-3645).  The driver-level probe takes the first device its phase is told of, of
   whatever kind, and has an address to connect to when the run has a target
   (ble_poc.c:2366-2369, 2563-2567). *)
TargetKept ==
  /\ poc.running /\ file # None => poc.target = file
  /\ worker \in {"connecting", "awaiting", "gatt", "starting", "baseline", "wheel", "capped",
                 "reaction", "stopping", "peeking", "disconnecting"} /\ poc.target # None =>
       probe.address = poc.target
  /\ worker = "concluding" /\ poc.target # None => probe.address # None

(* On an open page the one-key sequence comes to its end: whether the runs start, work or
   are stopped (ble_poc_view.c:372-398). *)
SequenceEnds == page.sequence # 0 ~> (page.sequence = 0 \/ page.at = "closed")

-----------------------------------------------------------------------------
(* ble_poc.c:2922: "btm answers 0x668F while the BLE thread is still settling ..., so the
   start is retried".  The results that are polled are those of a scan that was started. *)
ScanIsStarted ==
  /\ worker = "generalPolls" => "general" \in scans
  /\ worker = "smartPolls" => "smart" \in scans

(* ble_poc.c:2516-2518: "No address configured yet? Recognise the device from its
   advertisement and write it out for the btm session that follows".  When the window lists a
   Coyote the run has an address, that of the Coyote or the one it had. *)
FoundIsUsed ==
  [][\A d \in Coyotes \cap (probe'.seen \ probe.seen) : poc'.target # None]_vars
=============================================================================
