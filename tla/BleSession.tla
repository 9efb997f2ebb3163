----------------------------- MODULE BleSession -----------------------------
(***************************************************************************)
(* The BLE mode of the sysmodule (ble_poc.c): the IPC thread starts, stops *)
(* and feeds a session through two mutex-protected structures, g_ble_* and *)
(* g_poc; a worker thread connects, applies what was staged, ticks the     *)
(* Coyote session and tears it down.  The device and the Bluetooth stack   *)
(* are external.  A step is what one thread does under one lock.           *)
(***************************************************************************)
EXTENDS Coyote, Sequences, SequencesExt

CONSTANTS
  None,            \* nothing staged
  QueueMax,        \* POC_BLE_STRENGTH_QUEUE, 16
  CeilingPairs,    \* the ceilings a client asks for
  Values,          \* the values of its strength requests
  Uploads,         \* the waveforms it uploads: the channels and the number of slots
  DeviceStarts,    \* the states the device may be found in
  DrainTicks,      \* packets the closing pump has time for, 10
  LinkSlots,       \* bound: packets the radio holds before a write fails
  MaxRequests,     \* bound: strength, waveform and ceiling requests
  MaxStarts        \* bound: runs started

ASSUME BleAssumption ==
  /\ CeilingPairs \subseteq Limits /\ Values \subseteq Strengths
  /\ Uploads \subseteq [on : SUBSET Channels, count : 1..Capacity]
  /\ DeviceStarts \subseteq Devices /\ Slots <= Capacity
  /\ QueueMax \in Nat /\ DrainTicks \in Nat /\ LinkSlots \in Nat
  /\ MaxRequests \in Nat /\ MaxStarts \in Nat

VARIABLES
  ipc,        \* the IPC thread: where it is in a request, and which start it serves
  ble,        \* g_ble_*: active, ceilings, what is staged, and the status
  poc,        \* g_poc: running, stop_requested, ble_session_requested
  worker,     \* the worker thread
  drained,    \* packets the closing pump has written
  session,    \* g_btm_transport.session
  heard,      \* b1_count > 0
  link, air,  \* packets and notifications on their way (external)
  device,     \* (external)
  answers,    \* the firmware hands notifications to this process (external)
  lost,       \* a packet was lost
  drift,      \* a request met the end of a range or a full queue
  dropped,    \* a change of the ceilings dropped what the gate owed
  zeroed,     \* the closing zero of both channels was written
  requests, starts    \* counters of the bounds

bleVars == <<ipc, ble, poc>>
transport == <<session, heard, link, air, device, answers, lost>>
ghosts == <<drift, dropped, zeroed>>
budget == <<requests, starts>>
vars == <<bleVars, worker, drained, transport, ghosts, budget>>

Ops == [channel : Channels, mode : {"Decrease", "Increase", "Absolute"}, value : Strengths]
BleStates == {"Idle", "Connecting", "Connected", "Failed"}
Places == {"idle", "requesting", "checking", "joining", "withdrawing", "failing", "stopping"}
Running == {"waking", "connecting", "applying", "pumping", "draining", "ending", "leaving"}

Init ==
  /\ ipc = [at |-> "idle", kind |-> "poc"]
  /\ ble = [active |-> FALSE, limits |-> Zeros, newLimits |-> None, upload |-> None,
            ops |-> <<>>, state |-> "Idle", connected |-> FALSE, strength |-> Zeros]
  /\ poc = [running |-> FALSE, stop |-> FALSE, requested |-> FALSE]
  /\ worker = "exited" /\ drained = 0
  /\ session = SessionInit(Zeros, "Required") /\ heard = FALSE
  /\ link = <<>> /\ air = <<>> /\ device \in DeviceStarts /\ answers \in BOOLEAN
  /\ lost = FALSE /\ drift = FALSE /\ dropped = FALSE /\ zeroed = FALSE
  /\ requests = 0 /\ starts = 0

-----------------------------------------------------------------------------
(* BLE_START and POC_START. *)

At(place) == ipc' = [ipc EXCEPT !.at = place]

\* blePocSessionStart takes the session; one that is active refuses.
SessionStart ==
  /\ ipc.at = "idle" /\ ~ble.active /\ starts < MaxStarts /\ starts' = starts + 1
  /\ \E limits \in CeilingPairs :
       ble' = [active |-> TRUE, limits |-> limits, newLimits |-> None, upload |-> None,
               ops |-> <<>>, state |-> "Connecting", connected |-> FALSE,
               strength |-> Zeros]
  /\ ipc' = [at |-> "requesting", kind |-> "ble"]
  /\ drift' = (drift \/ worker \in Running)
  /\ UNCHANGED <<poc, worker, drained, transport, dropped, zeroed, requests>>

SessionRequest ==
  /\ ipc.at = "requesting" /\ At("checking")
  /\ poc' = [poc EXCEPT !.requested = TRUE]
  /\ UNCHANGED <<ble, worker, drained, transport, ghosts, budget>>

PocStart ==
  /\ ipc.at = "idle" /\ starts < MaxStarts /\ starts' = starts + 1
  /\ ipc' = [at |-> "checking", kind |-> "poc"]
  /\ UNCHANGED <<ble, poc, worker, drained, transport, ghosts, requests>>

\* Mutant: a start does not look whether a run is in progress.
CheckBlind == At("joining") /\ UNCHANGED <<ble, poc>>

\* blePocStart: a run in progress refuses.
Check ==
  /\ At(IF ~poc.running THEN "joining" ELSE IF ipc.kind = "ble" THEN "withdrawing" ELSE "idle")
  /\ UNCHANGED <<ble, poc>>

StartCheck ==
  /\ ipc.at = "checking" /\ Check
  /\ UNCHANGED <<worker, drained, transport, ghosts, budget>>

\* The last worker has exited: its thread is closed and a new one started, or that fails.
Launch ==
  /\ ipc.at = "joining" /\ worker = "exited"
  /\ \/ /\ poc' = [poc EXCEPT !.running = TRUE, !.stop = FALSE]
        /\ worker' = "waking" /\ At("idle")
     \/ /\ poc' = [poc EXCEPT !.running = FALSE, !.stop = FALSE]
        /\ worker' = "exited" /\ At(IF ipc.kind = "ble" THEN "withdrawing" ELSE "idle")
  /\ UNCHANGED <<ble, drained, transport, ghosts, budget>>

\* The start failed: the request is withdrawn, then the session given back.
Withdraw ==
  /\ ipc.at = "withdrawing" /\ At("failing")
  /\ poc' = [poc EXCEPT !.requested = FALSE]
  /\ UNCHANGED <<ble, worker, drained, transport, ghosts, budget>>

GiveBack ==
  /\ ipc.at = "failing" /\ At("idle")
  /\ ble' = [ble EXCEPT !.active = FALSE, !.state = "Failed"]
  /\ UNCHANGED <<poc, worker, drained, transport, ghosts, budget>>

-----------------------------------------------------------------------------
(* BLE_STOP, POC_STOP, and the inputs; without a session they go to the socket server. *)

SessionStop ==
  /\ ipc.at = "idle" /\ ble.active /\ At("stopping")
  /\ UNCHANGED <<ble, poc, worker, drained, transport, ghosts, budget>>

PocStop ==
  /\ ipc.at \in {"idle", "stopping"} /\ At("idle")
  /\ poc' = [poc EXCEPT !.stop = TRUE]
  /\ UNCHANGED <<ble, worker, drained, transport, ghosts, budget>>

Stage(staged) ==
  /\ ipc.at = "idle" /\ ble.active /\ requests < MaxRequests /\ requests' = requests + 1
  /\ ble' = staged
  /\ UNCHANGED <<ipc, poc, worker, drained, transport, dropped, zeroed, starts>>

Queued(op) ==
  IF Len(ble.ops) < QueueMax THEN [ble EXCEPT !.ops = Append(ble.ops, op)] ELSE ble

\* A strength request that finds the queue full is dropped without an error.
SessionSend ==
  \E op \in Ops :
    /\ op.value \in Values
    /\ Stage(Queued(op))
    /\ drift' = (drift \/ Len(ble.ops) >= QueueMax)

SessionUpload == \E u \in Uploads : Stage([ble EXCEPT !.upload = u]) /\ UNCHANGED drift
SessionSetLimits ==
  \E limits \in CeilingPairs : Stage([ble EXCEPT !.newLimits = limits]) /\ UNCHANGED drift

-----------------------------------------------------------------------------
(* The worker: starting. *)

\* 300 ms after its start the worker looks, without the lock, whether a session was
\* asked for; a run without one is a probe, of which only the end is modelled.
Wake ==
  /\ worker = "waking"
  /\ worker' = (IF poc.requested THEN "connecting" ELSE "leaving")
  /\ poc' = [poc EXCEPT !.requested = FALSE]
  /\ UNCHANGED <<ipc, ble, drained, transport, ghosts, budget>>

ConnectFails ==
  /\ worker = "connecting" /\ worker' = "ending"
  /\ ble' = [ble EXCEPT !.state = "Failed", !.connected = FALSE]
  /\ UNCHANGED <<ipc, poc, drained, transport, ghosts, budget>>

\* A write of the session; the radio may lose it, and does when it holds too much.
Radio(packets) ==
  \/ packets = <<>> /\ UNCHANGED <<link, lost>>
  \/ packets # <<>> /\ Len(link) < LinkSlots /\ link' = link \o packets /\ UNCHANGED lost
  \/ packets # <<>> /\ lost' = TRUE /\ UNCHANGED link

\* pocBtmTransportStart and the session's own waveform: BF goes out, then a zero is owed.
\* A stop that comes when the connection is up does not keep the transport from starting.
Connects ==
  /\ worker = "connecting" /\ worker' = "applying"
  /\ LET up == OnConnected(SessionInit(ble.limits, "Required"))
         zero == SetStrengthZero(SetStrengthZero(up, "A"), "B")
     IN  session' = SetWaveform(SetWaveform(zero, "A", Slots), "B", Slots)
  /\ heard' = FALSE /\ air' = <<>> /\ Radio(<<Bf(session')>>)
  /\ ble' = [ble EXCEPT !.state = "Connected", !.connected = TRUE]
  /\ zeroed' = FALSE /\ dropped' = FALSE /\ drift' = ~ble.active
  /\ UNCHANGED <<ipc, poc, drained, device, answers, budget>>

-----------------------------------------------------------------------------
(* The worker: streaming. *)

Owes(gate) == \E ch \in Channels : gate.pending[ch] # 0 \/ gate.zero[ch]

\* What one staged request makes of the session and of the strength in the status.
Delta(op, current) ==
  CASE op.mode = "Decrease" -> -op.value
    [] op.mode = "Increase" -> op.value
    [] OTHER -> op.value - current
ApplyOp(acc, op, limits) ==
  LET current == acc.strength[op.channel]
      delta == Delta(op, current)
      next == Within(current + delta, limits[op.channel])
      adjusted == AdjustStrength(acc.session, op.channel, delta)
  IN  [session |-> adjusted, strength |-> [acc.strength EXCEPT ![op.channel] = next],
       drift |-> \/ acc.drift \/ next # current + delta
                 \/ adjusted.gate.pending[op.channel]
                      # acc.session.gate.pending[op.channel] + delta]

\* Mutant: the ceilings announced are the old ones.
LimitsForgotten(s, limits) == OnConnected(s)

\* The ceilings go out at once, and the gate starts over.
SetChannelLimits(s, limits) == OnConnected([s EXCEPT !.limits = limits])

Uploaded(s) ==
  IF ble.upload = None THEN s
  ELSE FoldLeft(LAMBDA t, ch : IF ch \in ble.upload.on
                               THEN SetWaveform(t, ch, ble.upload.count) ELSE t,
                s, <<"A", "B">>)

\* Mutant: the streaming loop does not look at the stop request.
ContinuesDeaf == TRUE

\* The condition of the streaming loop.
Continues == ~poc.stop

\* pocBleSessionApplyInputs: ceilings, then the waveform, then the strengths in order.
ApplyInputs ==
  LET limits == IF ble.newLimits = None THEN ble.limits ELSE ble.newLimits
      capped == IF ble.newLimits = None THEN session ELSE SetChannelLimits(session, limits)
      start == [session |-> Uploaded(capped), strength |-> ble.strength, drift |-> drift]
      done == FoldLeft(LAMBDA acc, op : ApplyOp(acc, op, limits), start, ble.ops)
  IN  /\ worker = "applying" /\ Continues /\ worker' = "pumping"
      /\ session' = done.session
      /\ ble' = [ble EXCEPT !.limits = limits, !.newLimits = None, !.upload = None,
                            !.ops = <<>>, !.strength = done.strength]
      /\ drift' = done.drift
      /\ dropped' = (dropped \/ (ble.newLimits # None /\
           (Owes(session.gate) \/ \E ch \in Channels : ble.strength[ch] > limits[ch])))
      /\ Radio(IF ble.newLimits = None THEN <<>> ELSE <<Bf(capped)>>)
      /\ UNCHANGED <<ipc, poc, drained, heard, air, device, answers, zeroed, budget>>

\* What one step of a pump makes of the session: notifications first, then a tick.
Heard(s) == [s EXCEPT !.gate = FoldLeft(LAMBDA gate, b1 : OnB1(gate, b1), s.gate, air)]
Plain(packet) == \A ch \in Channels : packet.change[ch] = NoChange

\* While nothing was ever heard, a gate that waits is opened without an answer.
Rearmed(s) ==
  [s EXCEPT !.gate = OnB1(s.gate, [sequence |-> s.gate.inflight, strength |-> Zeros])]

Pump ==
  \E elapsed \in {0, Interval}, rearm \in BOOLEAN :
    LET ready == Heard(session)
        ticked == Tick(ready, elapsed)
        out == IF Writes(ready, elapsed) /\ ~Plain(B0(ready)) THEN <<B0(ready)>> ELSE <<>>
    IN  /\ heard' = (heard \/ air # <<>>) /\ air' = <<>>
        /\ rearm => ~heard' /\ ticked.gate.waiting
        /\ session' = (IF rearm THEN Rearmed(ticked) ELSE ticked)
        /\ Radio(out)
        /\ zeroed' = (zeroed \/ (worker = "draining" /\ out # <<>>))

PumpOnce ==
  /\ worker = "pumping" /\ worker' = "applying"
  /\ IF poc.stop THEN UNCHANGED <<session, heard, air, link, lost, zeroed>> ELSE Pump
  /\ UNCHANGED <<ipc, ble, poc, drained, device, answers, drift, dropped, budget>>

-----------------------------------------------------------------------------
(* The worker: ending. *)

\* Mutant: the waveform is silenced and a zero asked for, and the ceilings stay.
ClosingUncapped(s) ==
  LET silent == ClearWaveform(ClearWaveform(OnConnected(s), "A"), "B")
  IN  SetStrengthZero(SetStrengthZero(silent, "A"), "B")

\* Cap the device, stop the waveform, ask for zero.
Closing(s) ==
  LET capped == SetChannelLimits(s, Zeros)
      silent == ClearWaveform(ClearWaveform(capped, "A"), "B")
  IN  SetStrengthZero(SetStrengthZero(silent, "A"), "B")

\* A stop, or the hour of the watchdog, ends the streaming.
Close ==
  /\ worker = "applying" /\ worker' = "draining" /\ drained' = 0
  /\ session' = Closing(session)
  /\ Radio(<<Bf(session')>>)
  /\ UNCHANGED <<ipc, ble, poc, heard, air, device, answers, ghosts, budget>>

\* The closing pump looks at the stop request like any other: after a stop it does nothing.
Drain ==
  /\ worker = "draining" /\ ~poc.stop /\ drained < DrainTicks /\ drained' = drained + 1
  /\ Pump
  /\ UNCHANGED <<ipc, ble, poc, worker, device, answers, drift, dropped, budget>>

TransportStop ==
  /\ worker = "draining" /\ (poc.stop \/ drained = DrainTicks) /\ worker' = "ending"
  /\ session' = OnDisconnected(session)
  /\ drained' = 0
  /\ UNCHANGED <<ipc, ble, poc, heard, link, air, device, answers, lost, ghosts, budget>>

\* btmBleDisconnect takes the link down, then the session is given back.
SessionEnds ==
  /\ worker = "ending" /\ worker' = "leaving"
  /\ link' = <<>> /\ air' = <<>> /\ lost' = FALSE
  /\ drift' = FALSE /\ dropped' = FALSE /\ zeroed' = FALSE
  /\ ble' = [ble EXCEPT !.active = FALSE,
                        !.state = IF ble.state = "Connected" THEN "Idle" ELSE ble.state]
  /\ UNCHANGED <<ipc, poc, drained, session, heard, device, answers, budget>>

WorkerExits ==
  /\ worker = "leaving" /\ worker' = "exited"
  /\ poc' = [poc EXCEPT !.running = FALSE, !.stop = FALSE]
  /\ UNCHANGED <<ipc, ble, drained, transport, ghosts, budget>>

-----------------------------------------------------------------------------
DeviceReads ==
  /\ link # <<>> /\ device' = DeviceTakes(device, Head(link)) /\ link' = Tail(link)
  /\ air' = IF answers /\ Confirms(device, Head(link))
            THEN Append(air, [sequence |-> Head(link).sequence, strength |-> device'.strength])
            ELSE air
  /\ UNCHANGED <<bleVars, worker, drained, session, heard, answers, lost, ghosts, budget>>

Worker == \/ Wake \/ ConnectFails \/ Connects \/ ApplyInputs \/ PumpOnce \/ Drain
          \/ TransportStop \/ SessionEnds \/ WorkerExits
          \/ (poc.stop /\ Close)
Deadline == ~poc.stop /\ Close
Serve == \/ SessionRequest \/ StartCheck \/ Launch \/ Withdraw \/ GiveBack
         \/ (ipc.at = "stopping" /\ PocStop)
Ask == \/ SessionStart \/ PocStart \/ SessionStop \/ (ipc.at = "idle" /\ PocStop)
       \/ SessionSend \/ SessionUpload \/ SessionSetLimits

Next == Worker \/ Deadline \/ Serve \/ Ask \/ DeviceReads
Spec == Init /\ [][Next]_vars

\* Both threads are scheduled; nothing forces a client to ask, the watchdog or the device.
FairSpec == Spec /\ WF_vars(Worker) /\ WF_vars(Serve)

-----------------------------------------------------------------------------
(* Both structures and the session keep their types; the staged strengths never outgrow
   their queue. *)
TypeOK ==
  /\ ipc \in [at : Places, kind : {"ble", "poc"}]
  /\ ble \in [active : BOOLEAN, limits : Limits, newLimits : Limits \cup {None},
              upload : Uploads \cup {None}, ops : Seq(Ops), state : BleStates,
              connected : BOOLEAN, strength : Limits]
  /\ Len(ble.ops) <= QueueMax
  /\ poc \in [running : BOOLEAN, stop : BOOLEAN, requested : BOOLEAN]
  /\ worker \in Running \cup {"exited"} /\ drained \in 0..DrainTicks
  /\ session \in Sessions /\ device \in Devices
  /\ link \in Seq(Packets) /\ air \in Seq(Notifications)
  /\ {heard, answers, lost, drift, dropped, zeroed} \subseteq BOOLEAN
  /\ requests \in 0..MaxRequests /\ starts \in 0..MaxStarts

\* The device once everything on its way has arrived.
Eventually == FoldLeft(DeviceTakes, device, link)
Streaming == worker \in {"applying", "pumping"}

(* The strength in the status and the ceilings in force are what the device has, once
   what is on the link and what the gate still owes are counted in: no staged request is
   lost, applied twice or applied before the ceilings that cap it.  Excepted are lost
   packets and what drift and dropped name (ble_poc.c:1284-1390). *)
LedgerExact ==
  Streaming /\ ble.active /\ ~lost /\ ~drift /\ ~dropped =>
    /\ Eventually.limits = ble.limits
    /\ \A ch \in Channels :
         ble.strength[ch] = session.gate.pending[ch]
                            + (IF session.gate.zero[ch] THEN 0 ELSE Eventually.strength[ch])

(* However a session ends, the device it leaves behind is capped at 0 on both channels
   before the link goes down, unless the packet was lost (ble_poc.c:1429-1441). *)
CappedAtEnd ==
  worker = "ending" /\ ble.state = "Connected" /\ ~lost => Eventually.limits = Zeros

(* A stop ends the run it finds, wherever the worker is (ble_poc.c:1420, 1451-1496). *)
StopEnds == (poc.stop /\ worker \in Running) ~> worker = "exited"

(* A start never waits for a worker that goes on running: the join of blePocStart ends
   (ble_poc.c:3812-3842). *)
JoinEnds == ipc.at = "joining" ~> ipc.at # "joining"

-----------------------------------------------------------------------------
(* include/dglab/transport/ble_poc.h on blePocSessionIsActive: "True while a session is
   requested or running". *)
ActiveWhileRunning == Streaming => ble.active

(* common/include/dglab/ipc.h:82: SetStrength sets "strength 0..200".  Once nothing is
   staged, owed or on its way, the device has the strength that was asked for last, unless
   a change of the ceilings dropped the request. *)
StrengthReached ==
  Streaming /\ ble.active /\ ~lost /\ ~dropped /\ ble.ops = <<>> /\ ~Owes(session.gate) /\ link = <<>> =>
    device.strength = ble.strength

(* docs/ipc.md:49: a stop writes BF = 0, clears the waveform and goes to zero before it
   disconnects. *)
ZeroedAtEnd == worker = "ending" /\ ble.state = "Connected" /\ poc.stop /\ ~lost => zeroed
=============================================================================
