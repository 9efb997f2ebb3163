------------------------------ MODULE ProbeWorker ------------------------------
(***************************************************************************)
(* The two diagnostic runs of the BLE worker thread (ble_poc.c): the       *)
(* driver-level probe, which brings the radio's BLE stack up, scans and    *)
(* looks for the Coyote, and the btm probe, which connects through the     *)
(* system's manager, reads the GATT table and drives the device.  The      *)
(* console's services, the radio and the devices are external: every call  *)
(* may be refused, and what is reported is chosen freely.  A step is what  *)
(* the worker does up to a call that waits.                                *)
(***************************************************************************)
EXTENDS Naturals, FiniteSets

CONSTANTS
  None,         \* no address, no interface, no action
  Coyotes,      \* addresses whose advertisement is a Coyote's
  Strangers,    \* other addresses
  Saved,        \* the Coyotes the address file may name before the first run
  Present,      \* the devices that may be connected before the first run
  Attempts,     \* 3: tries of InitializeBle and of the connect
  SeenMax       \* 4: devices the window remembers

Devices == Coyotes \cup Strangers

ASSUME ProbeAssumption ==
  /\ None \notin Devices /\ Coyotes \cap Strangers = {}
  /\ Saved \subseteq Coyotes /\ Present \subseteq Devices
  /\ Attempts \in Nat \ {0} /\ SeenMax \in Nat \ {0}

VARIABLES
  worker,      \* where the worker thread is
  todo,        \* PocWorker: the probes asked for
  poc,         \* g_poc: running, stop_requested, pending_action, target_address,
               \* address_discovered
  open,        \* the services and events this process holds
  scans,       \* the scans the radio runs for this process
  unstopped,   \* (external) those of them whose stop was refused
  tries,       \* attempts made
  probe,       \* the probe's own variables, which end with it
  coords,      \* g_btm_proto_ready: the coordinates of the protocol are known
  file,        \* the address file on the SD card
  asked,       \* (external) connects the radio has accepted and not completed
  link,        \* (external) devices that are connected
  ceiling,     \* (external) devices whose ceilings this session has raised
  lost         \* a write of this session was lost

workerVars == <<worker, todo, poc, open, scans, unstopped, tries, probe, coords, file,
                asked, link, ceiling, lost>>

Probes == {"btdrv", "btm"}
Places == {"exited", "waking", "taking", "choosing", "leaving",
           "cold", "coldConnect", "bringing", "registering", "early", "enabling", "scanning",
           "phaseOver", "window", "fallback", "concluding",
           "initialising", "general", "generalPolls", "smart", "smartPolls", "paired",
           "pairedWaits", "connecting", "awaiting", "gatt", "starting", "baseline", "wheel",
           "capped", "reaction", "stopping", "peeking", "disconnecting", "closing"}
Services == {"btdrv", "bleEvent", "bt", "btEvent", "btm", "scanEvent", "connEvent", "gattEvent"}

Fresh == [client |-> None, address |-> None, seen |-> {}, handle |-> None]

ProbeInit ==
  /\ worker = "exited" /\ todo = {}
  /\ poc = [running |-> FALSE, stop |-> FALSE, action |-> None, target |-> None,
            discovered |-> FALSE]
  /\ open = {} /\ scans = {} /\ unstopped = {} /\ tries = 0 /\ probe = Fresh
  /\ coords = FALSE
  /\ file \in {None} \cup Saved
  /\ asked = {} /\ link \in SUBSET Present
  /\ ceiling = {} /\ lost = FALSE

Goes(from, to) == worker = from /\ worker' = to
May(set, item) == set' \in {set, set \cup {item}}

\* The radio accepts a connect; there is nothing to complete for a device that is connected.
Accepts(d) == asked' = asked \cup ({d} \ link)

\* A scan is stopped, or the stop is refused: its result is not looked at.
StopsScan(kind) ==
  \/ scans' = scans \ {kind} /\ unstopped' = unstopped \ {kind}
  \/ scans' = scans /\ unstopped' = unstopped \cup ({kind} \cap scans)

-----------------------------------------------------------------------------
(* The thread. *)

\* 300 ms after its start the worker turns to the actions.
Wake ==
  /\ Goes("waking", "taking") /\ todo' = {}
  /\ UNCHANGED <<poc, open, scans, tries, probe, coords, file, asked, link, ceiling, lost>>

\* pocTakeAction and pocHandleAction, until the slot is found empty.
Take ==
  /\ worker = "taking"
  /\ todo' = todo \cup ({poc.action} \ {None})
  /\ poc' = [poc EXCEPT !.action = None]
  /\ worker' = (IF poc.action = None THEN "choosing" ELSE "taking")
  /\ UNCHANGED <<open, scans, tries, probe, coords, file, asked, link, ceiling, lost>>

\* The btm probe first, then the driver-level one, which begins with a control connect
\* where there is an address for it.
Choose ==
  /\ worker = "choosing"
  /\ worker' = (CASE "btm" \in todo -> "initialising"
                  [] todo = {"btdrv"} -> IF poc.target = None THEN "bringing" ELSE "cold"
                  [] OTHER -> "leaving")
  /\ todo' = todo \ {IF "btm" \in todo THEN "btm" ELSE "btdrv"}
  /\ UNCHANGED <<poc, open, scans, tries, probe, coords, file, asked, link, ceiling, lost>>

Leave ==
  /\ Goes("leaving", "exited") /\ poc' = [poc EXCEPT !.running = FALSE, !.stop = FALSE]
  /\ UNCHANGED <<todo, open, scans, tries, probe, coords, file, asked, link, ceiling, lost>>

-----------------------------------------------------------------------------
(* The driver-level probe. *)

\* The control connect in a session of its own, with an interface no connect takes.
Cold ==
  /\ worker = "cold"
  /\ \/ worker' = "bringing" /\ UNCHANGED open
     \/ worker' = "coldConnect" /\ open' = open \cup {"btdrv"}
  /\ UNCHANGED <<todo, poc, scans, tries, probe, coords, file, asked, link, ceiling, lost>>

EndCold ==
  /\ Goes("coldConnect", "bringing") /\ open' = open \ {"btdrv"}
  /\ UNCHANGED <<todo, poc, scans, tries, probe, coords, file, asked, link, ceiling, lost>>

\* btdrvInitializeBle is answered, and the manager may say which interface it gave.
StackUp ==
  /\ open' = open \cup {"btdrv", "bleEvent"}
  /\ \E client \in {None, "given"} :
       /\ probe' = [probe EXCEPT !.client = client]
       /\ IF client = None /\ tries + 1 < Attempts
          THEN worker' = "bringing" /\ tries' = tries + 1
          ELSE worker' = "registering" /\ tries' = 0

\* Mutant: the attempt that is refused leaves what the one before it opened.
BringUpLeaky ==
  \/ StackUp
  \/ worker' = "choosing" /\ tries' = 0 /\ probe' = Fresh /\ UNCHANGED open

\* A new attempt first closes what the last one opened; a refusal ends the probe, and what
\* the probe knew with it.
BringUp ==
  \/ StackUp
  \/ worker' = "choosing" /\ open' = open \ {"btdrv", "bleEvent"}
     /\ tries' = 0 /\ probe' = Fresh

Bring ==
  /\ worker = "bringing" /\ BringUp
  /\ UNCHANGED <<todo, poc, scans, coords, file, asked, link, ceiling, lost>>

\* pocBtEventsOpen: the user-side channel, and its event.
BtOpened == {open, open \cup {"bt"}, open \cup {"bt", "btEvent"}}

\* pocRegisterGattClientStep: the interface given is returned, a new one is asked for; an
\* event names it, on this channel or on the other, or the one given is used again.
Register ==
  /\ Goes("registering", "early") /\ open' \in BtOpened
  /\ \E client \in {"given", probe.client} : probe' = [probe EXCEPT !.client = client]
  /\ UNCHANGED <<todo, poc, scans, tries, coords, file, asked, link, ceiling, lost>>

\* pocFindClientIfByConnect and the first connect; the radio may accept them.
ConnectEarly ==
  /\ Goes("early", "enabling")
  /\ IF probe.client # None /\ poc.target # None THEN Accepts(poc.target) \/ UNCHANGED asked
     ELSE UNCHANGED asked
  /\ UNCHANGED <<todo, poc, open, scans, tries, probe, coords, file, link, ceiling, lost>>

\* EnableBle, then the phase's filter and scan; a stopped run skips phase and window.
Enable ==
  /\ worker = "enabling"
  /\ IF poc.stop
     THEN worker' = "fallback" /\ UNCHANGED scans
     ELSE worker' = "scanning" /\ May(scans, "driver")
  /\ UNCHANGED <<todo, poc, open, tries, probe, coords, file, asked, link, ceiling, lost>>

\* The phase keeps the first device it is told of.
ScanReports ==
  /\ worker = "scanning" /\ "driver" \in scans /\ ~poc.stop /\ probe.address = None
  /\ \E d \in Devices : probe' = [probe EXCEPT !.address = d]
  /\ UNCHANGED <<worker, todo, poc, open, scans, tries, coords, file, asked, link, ceiling, lost>>

EndPhase ==
  /\ Goes("scanning", "phaseOver") /\ StopsScan("driver")
  /\ UNCHANGED <<todo, poc, open, tries, probe, coords, file, asked, link, ceiling, lost>>

\* The window starts a scan of its own.
OpenWindow ==
  /\ worker = "phaseOver"
  /\ IF poc.stop
     THEN worker' = "fallback" /\ UNCHANGED scans
     ELSE worker' = "window" /\ May(scans, "driver")
  /\ UNCHANGED <<todo, poc, open, tries, probe, coords, file, asked, link, ceiling, lost>>

\* Mutant: the address found is written to the file and not used in this run.
DiscoverForLater(d) ==
  /\ file' \in {d, file} /\ poc' = [poc EXCEPT !.discovered = TRUE]
  /\ probe' = [probe EXCEPT !.seen = @ \cup {d}, !.address = d]

\* The device is the Coyote: the address is used from here on, and saved if the file
\* can be written (pocSaveDiscoveredAddress).  address_discovered is never taken back.
Discover(d) ==
  /\ file' \in {d, file} /\ poc' = [poc EXCEPT !.target = d, !.discovered = TRUE]
  /\ probe' = [probe EXCEPT !.seen = @ \cup {d}, !.address = d]

Room == Cardinality(probe.seen) < SeenMax

\* A report in the window: only a device that is new, and among the first, is looked at.
WindowReports ==
  /\ worker = "window" /\ "driver" \in scans /\ ~poc.stop
  /\ \E d \in Devices \ probe.seen :
       /\ Room
       /\ IF poc.target = None /\ ~poc.discovered /\ d \in Coyotes
          THEN Discover(d)
          ELSE probe' = [probe EXCEPT !.seen = @ \cup {d}] /\ UNCHANGED <<poc, file>>
  /\ UNCHANGED <<worker, todo, open, scans, tries, coords, asked, link, ceiling, lost>>

\* The list of the window ends with it.
CloseWindow ==
  /\ Goes("window", "fallback") /\ StopsScan("driver")
  /\ probe' = [probe EXCEPT !.seen = {}]
  /\ UNCHANGED <<todo, poc, open, tries, coords, file, asked, link, ceiling, lost>>

\* Without a report the configured address is the one to connect to.
FallBack ==
  /\ Goes("fallback", "concluding") /\ open' = open \ {"bt", "btEvent"}
  /\ probe' = [probe EXCEPT !.address = IF @ = None THEN poc.target ELSE @]
  /\ UNCHANGED <<todo, poc, scans, tries, coords, file, asked, link, ceiling, lost>>

\* The connect with the registered interface and the matrix, then everything is closed.
Conclude ==
  /\ Goes("concluding", "choosing")
  /\ IF probe.address # None /\ probe.client # None
     THEN Accepts(probe.address) \/ UNCHANGED asked
     ELSE UNCHANGED asked
  /\ open' = open \ {"btdrv", "bleEvent"} /\ probe' = Fresh
  /\ UNCHANGED <<todo, poc, scans, tries, coords, file, link, ceiling, lost>>

-----------------------------------------------------------------------------
(* The btm probe: scans. *)

Initialise ==
  /\ worker = "initialising"
  /\ \/ worker' = "choosing" /\ UNCHANGED open
     \/ worker' = "general" /\ open' \in {open \cup {"btm"}, open \cup {"btm", "scanEvent"}}
  /\ UNCHANGED <<todo, poc, scans, tries, probe, coords, file, asked, link, ceiling, lost>>

\* The result code is cleared before the loop of attempts, which runs while it is not
\* zero: no attempt is made.
StartsScan(kind) == UNCHANGED scans

Polls(kind) == IF kind = "general" THEN "generalPolls" ELSE "smartPolls"
After(kind) == IF kind = "general" THEN "smart" ELSE "paired"

BeginPass(kind) ==
  /\ Goes(kind, Polls(kind)) /\ StartsScan(kind)
  /\ UNCHANGED <<todo, poc, open, tries, probe, coords, file, asked, link, ceiling, lost>>

\* pocBtmScanPass: the manager's list may name the target, or any device when there is
\* none; the general pass comes first.
EndPass(kind) ==
  /\ Goes(Polls(kind), After(kind)) /\ StopsScan(kind)
  /\ \/ UNCHANGED probe
     \/ /\ ~poc.stop /\ probe.address = None
        /\ \E d \in Devices : poc.target \in {None, d} /\ probe' = [probe EXCEPT !.address = d]
  /\ UNCHANGED <<todo, poc, open, tries, coords, file, asked, link, ceiling, lost>>

BeginPaired ==
  /\ Goes("paired", "pairedWaits") /\ May(scans, "paired")
  /\ UNCHANGED <<todo, poc, open, tries, probe, coords, file, asked, link, ceiling, lost>>

\* The scan for paired devices ends and the user-side channel is opened; a device no scan
\* reported is connected to all the same when it is the configured one.
EndPaired ==
  /\ worker = "pairedWaits" /\ StopsScan("paired") /\ open' \in BtOpened
  /\ probe' = [probe EXCEPT !.address = IF @ = None THEN poc.target ELSE @]
  /\ worker' = (IF probe'.address = None THEN "closing" ELSE "connecting") /\ tries' = 0
  /\ UNCHANGED <<todo, poc, coords, file, asked, link, ceiling, lost>>

-----------------------------------------------------------------------------
(* The btm probe: the connection. *)

\* pocBtmConnectRetry and the first half of pocBtmConnectTry.
Connect ==
  /\ worker = "connecting"
  /\ IF poc.stop \/ tries = Attempts
     THEN worker' = "closing" /\ tries' = 0 /\ UNCHANGED <<asked, open>>
     ELSE /\ tries' = tries + 1
          /\ \/ worker' = "connecting" /\ UNCHANGED <<asked, open>>
             \/ /\ Accepts(probe.address)
                /\ \/ worker' = "awaiting" /\ open' = open \cup {"connEvent"}
                   \/ worker' = "connecting" /\ UNCHANGED open
  /\ UNCHANGED <<todo, poc, scans, probe, coords, file, link, ceiling, lost>>

\* A connection is seen: an event with the address, or the first of the manager's list,
\* whichever device that is.  The wait for its services may have an event.
Connected ==
  /\ Goes("awaiting", "gatt") /\ tries' = 0
  /\ open' \in {open \ {"connEvent"}, (open \ {"connEvent"}) \cup {"gattEvent"}}
  /\ \E d \in link : probe' = [probe EXCEPT !.handle = d]
  /\ UNCHANGED <<todo, poc, scans, coords, file, asked, link, ceiling, lost>>

\* The time is over, or the run is stopped; the request stays with the manager.
NotConnected ==
  /\ Goes("awaiting", "connecting") /\ open' = open \ {"connEvent"}
  /\ UNCHANGED <<todo, poc, scans, tries, probe, coords, file, asked, link, ceiling, lost>>

\* pocBtmLogGatt: what the table has replaces what was found before, and what it lacks
\* is kept from the last connection.
ReadTable ==
  /\ worker = "gatt"
  /\ \E found \in BOOLEAN : coords' = (coords \/ found)
  /\ worker' = (IF coords' THEN "starting" ELSE "disconnecting")
  /\ open' = open \ {"gattEvent"}
  /\ UNCHANGED <<todo, poc, scans, tries, probe, file, asked, link, ceiling, lost>>

-----------------------------------------------------------------------------
(* The btm probe: the transport. *)

\* pocBtmTransportSetChannelLimits: a BF packet, which the radio may lose.
Announces(raised) ==
  \/ /\ probe.handle \in link /\ UNCHANGED lost
     /\ ceiling' = (IF raised THEN ceiling \cup {probe.handle} ELSE ceiling \ {probe.handle})
  \/ lost' = TRUE /\ UNCHANGED ceiling

Phase(from, to, raised) ==
  /\ Goes(from, to) /\ Announces(raised)
  /\ UNCHANGED <<todo, poc, open, scans, tries, probe, coords, file, asked, link>>

\* Mutant: a stop during the wheel phase skips what follows its pump.
WheelLeaves ==
  IF poc.stop
  THEN /\ Goes("wheel", "stopping")
       /\ UNCHANGED <<todo, poc, open, scans, tries, probe, coords, file, asked, link,
                      ceiling, lost>>
  ELSE Phase("wheel", "capped", FALSE)

\* The pump of a phase returns early when the run is stopped; the device is capped then too.
WheelEnds == Phase("wheel", "capped", FALSE)
ReactionEnds == Phase("reaction", "stopping", FALSE)

Transport ==
  \/ Phase("starting", "baseline", FALSE) \/ Phase("baseline", "wheel", TRUE) \/ WheelEnds
  \/ Phase("capped", "reaction", TRUE) \/ ReactionEnds

\* The transport ends with a look into the driver's event queues (pocBtmEventPeek), for
\* which btdrv is opened beside btm, or refused.
StopTransport ==
  /\ worker = "stopping"
  /\ \/ worker' = "disconnecting" /\ UNCHANGED open
     \/ worker' = "peeking" /\ open' = open \cup {"btdrv"}
  /\ UNCHANGED <<todo, poc, scans, tries, probe, coords, file, asked, link, ceiling, lost>>

EndPeek ==
  /\ Goes("peeking", "disconnecting") /\ open' = open \ {"btdrv"}
  /\ UNCHANGED <<todo, poc, scans, tries, probe, coords, file, asked, link, ceiling, lost>>

\* What a device that is released remembers of its ceilings is not followed.
Disconnect ==
  /\ Goes("disconnecting", "closing") /\ link' = link \ {probe.handle}
  /\ lost' = FALSE /\ ceiling' = {}
  /\ UNCHANGED <<todo, poc, open, scans, tries, probe, coords, file, asked>>

Close ==
  /\ Goes("closing", "choosing") /\ open' = open \ {"bt", "btEvent", "scanEvent", "btm"}
  /\ probe' = Fresh
  /\ UNCHANGED <<todo, poc, scans, tries, coords, file, asked, link, ceiling, lost>>

\* The steps that stop no scan, and those that stop one.
Steps ==
  \/ Wake \/ Take \/ Choose \/ Leave
  \/ Cold \/ EndCold \/ Bring \/ Register \/ ConnectEarly
  \/ Enable \/ OpenWindow \/ FallBack \/ Conclude
  \/ Initialise \/ (\E kind \in {"general", "smart"} : BeginPass(kind))
  \/ BeginPaired \/ Connect \/ Connected \/ NotConnected \/ ReadTable
  \/ Transport \/ StopTransport \/ EndPeek \/ Disconnect \/ Close

Stops ==
  \/ EndPhase \/ CloseWindow \/ EndPaired
  \/ \E kind \in {"general", "smart"} : EndPass(kind)

Works == (Steps /\ UNCHANGED unstopped) \/ Stops

\* What the radio does in its own time: it reports, completes a connect it was asked for,
\* or a device goes away.
Completes ==
  /\ \E d \in asked : asked' = asked \ {d} /\ link' = link \cup {d}
  /\ UNCHANGED <<worker, todo, poc, open, scans, tries, probe, coords, file, ceiling, lost>>

Transporting == {"starting", "baseline", "wheel", "capped", "reaction"}

GoesAway ==
  /\ \E d \in link :
       /\ link' = link \ {d}
       /\ lost' = (lost \/ (d = probe.handle /\ worker \in Transporting))
  /\ UNCHANGED <<worker, todo, poc, open, scans, tries, probe, coords, file, asked, ceiling>>

Radio == (ScanReports \/ WindowReports \/ Completes \/ GoesAway) /\ UNCHANGED unstopped
=============================================================================
