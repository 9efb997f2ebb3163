----------------------------- MODULE CoyoteLink -----------------------------
(***************************************************************************)
(* A Coyote session (coyote_v3_session.c) with its user and its device: a  *)
(* link that carries packets out and notifications back and may lose       *)
(* either, a device that confirms a change only when it changed something, *)
(* and a wheel on the device that changes strengths by itself.             *)
(***************************************************************************)
EXTENDS Coyote, Sequences, SequencesExt

CONSTANTS
  Requests,        \* the relative changes a user asks for
  WaveformSizes,   \* the waveforms a user sets
  Ceilings,        \* the limits a session is created with, on both channels
  Delays,          \* the elapsed times a tick is called with
  LinkSlots,       \* bound: packets the link holds before a write fails
  MaxRequests,     \* bound: calls of the user
  MaxTurns,        \* bound: turns of the wheel
  MaxLosses        \* bound: packets and notifications lost

ASSUME LinkAssumption ==
  /\ Requests \subseteq Int /\ WaveformSizes \subseteq 1..Capacity
  /\ Ceilings \subseteq Strengths /\ Delays \subseteq Nat
  /\ LinkSlots \in Nat /\ MaxRequests \in Nat /\ MaxTurns \in Nat /\ MaxLosses \in Nat

VARIABLES
  session,     \* DglabCoyoteV3Session
  link,        \* packets written that the device has not read (external)
  air,         \* notifications the device sent that have not arrived (external)
  device,      \* strengths and ceilings of the device (external)
  mute,        \* the change in flight will not be confirmed: lost, or it changed nothing
  wanted,      \* per channel: the sum of the changes asked for since the last zero
  applied,     \* per channel: the sum of the changes the device took since the last zero
  saturated,   \* a sum of waiting changes met the ends of its range
  requests, turns, losses    \* counters of the bounds

ledger == <<wanted, applied, saturated>>
budget == <<requests, turns, losses>>
vars == <<session, link, air, device, mute, ledger, budget>>

Init ==
  /\ \E c \in Ceilings, f \in {"Required", "None"} :
       session = SessionInit([ch \in Channels |-> c], f)
  /\ device \in {[strength |-> [ch \in Channels |-> c], limits |-> [ch \in Channels |-> c]] :
                   c \in Ceilings}
  /\ link = <<>> /\ air = <<>> /\ mute = FALSE
  /\ wanted = Zeros /\ applied = Zeros /\ saturated = FALSE
  /\ requests = 0 /\ turns = 0 /\ losses = 0

Plain(packet) == packet.kind = "B0" /\ \A ch \in Channels : packet.change[ch] = NoChange

\* A packet that changes nothing is not followed on its way: only its waveform matters.
Write(packet) ==
  \/ Plain(packet) /\ UNCHANGED <<link, mute, losses>>
  \/ /\ ~Plain(packet) /\ Len(link) < LinkSlots
     /\ link' = Append(link, packet) /\ UNCHANGED <<mute, losses>>
  \/ /\ ~Plain(packet) /\ Len(link) >= LinkSlots /\ losses < MaxLosses
     /\ losses' = losses + 1 /\ mute' = (mute \/ packet.sequence # 0) /\ UNCHANGED link

-----------------------------------------------------------------------------
Connect ==
  /\ ~session.connected
  /\ session' = OnConnected(session)
  /\ link' = <<Bf(session)>> /\ air' = <<>> /\ mute' = FALSE
  /\ wanted' = Zeros /\ applied' = Zeros /\ saturated' = FALSE
  /\ UNCHANGED <<device, budget>>

Disconnect ==
  /\ session.connected
  /\ session' = OnDisconnected(session)
  /\ link' = <<>> /\ air' = <<>> /\ mute' = FALSE
  /\ wanted' = Zeros /\ applied' = Zeros /\ saturated' = FALSE
  /\ UNCHANGED <<device, budget>>

TickBy(elapsed) ==
  /\ session.connected
  /\ session' = Tick(session, elapsed)
  /\ IF Writes(session, elapsed) THEN Write(B0(session)) ELSE UNCHANGED <<link, mute, losses>>
  /\ UNCHANGED <<air, device, ledger, requests, turns>>

Ask(asked) ==
  /\ requests < MaxRequests /\ requests' = requests + 1
  /\ session' = asked
  /\ UNCHANGED <<link, air, device, mute, applied, turns, losses>>

UserAdjusts == \E ch \in Channels, d \in Requests :
  /\ Ask(AdjustStrength(session, ch, d))
  /\ IF session.connected
     THEN /\ wanted' = [wanted EXCEPT ![ch] = @ + d]
          /\ saturated' = (saturated \/ session'.gate.pending[ch] # session.gate.pending[ch] + d)
     ELSE UNCHANGED <<wanted, saturated>>

UserZeroes == \E ch \in Channels :
  /\ Ask(SetStrengthZero(session, ch))
  /\ wanted' = [wanted EXCEPT ![ch] = 0] /\ UNCHANGED saturated

UserPlays == \E ch \in Channels, n \in WaveformSizes :
  Ask(SetWaveform(session, ch, n)) /\ UNCHANGED <<wanted, saturated>>
UserClears == \E ch \in Channels :
  Ask(ClearWaveform(session, ch)) /\ UNCHANGED <<wanted, saturated>>

-----------------------------------------------------------------------------
\* What a packet, and a sequence of packets, makes of the sum of a channel.
Taken(packet, ch, sum) ==
  CASE packet.change[ch].mode = "Absolute" -> 0
    [] packet.change[ch].mode = "Relative" -> sum + packet.change[ch].value
    [] OTHER -> sum
After(packets, ch, sum) == FoldLeft(LAMBDA s, p : Taken(p, ch, s), sum, packets)

DeviceReads ==
  /\ link # <<>>
  /\ device' = DeviceTakes(device, Head(link))
  /\ link' = Tail(link)
  /\ air' = IF Confirms(device, Head(link))
            THEN Append(air, [sequence |-> Head(link).sequence, strength |-> device'.strength])
            ELSE air
  /\ mute' = (mute \/ (Head(link).sequence # 0 /\ ~Confirms(device, Head(link))))
  /\ applied' = [ch \in Channels |-> Taken(Head(link), ch, applied[ch])]
  /\ UNCHANGED <<session, wanted, saturated, budget>>

WheelTurns ==
  /\ session.connected /\ turns < MaxTurns /\ turns' = turns + 1
  /\ \E ch \in Channels, d \in {-1, 1} :
       /\ device.strength[ch] + d \in 0..device.limits[ch]
       /\ device' = [device EXCEPT !.strength[ch] = @ + d]
  /\ air' = Append(air, [sequence |-> 0, strength |-> device'.strength])
  /\ UNCHANGED <<session, link, mute, ledger, requests, losses>>

NotificationArrives ==
  /\ air # <<>>
  /\ session' = [session EXCEPT !.gate = OnB1(session.gate, Head(air))]
  /\ air' = Tail(air)
  /\ UNCHANGED <<link, device, mute, ledger, budget>>

PacketLost ==
  /\ link # <<>> /\ losses < MaxLosses
  /\ losses' = losses + 1 /\ link' = Tail(link)
  /\ mute' = (mute \/ Head(link).sequence # 0)
  /\ UNCHANGED <<session, air, device, ledger, requests, turns>>

NotificationLost ==
  /\ air # <<>> /\ losses < MaxLosses
  /\ losses' = losses + 1 /\ air' = Tail(air)
  /\ mute' = (mute \/ Head(air).sequence # 0)
  /\ UNCHANGED <<session, link, device, ledger, requests, turns>>

Step == \E elapsed \in Delays : TickBy(elapsed)

Next ==
  \/ Connect \/ Disconnect \/ Step
  \/ UserAdjusts \/ UserZeroes \/ UserPlays \/ UserClears
  \/ DeviceReads \/ WheelTurns \/ NotificationArrives \/ PacketLost \/ NotificationLost

Spec == Init /\ [][Next]_vars

\* The worker ticks for ever, the device reads what it receives and the radio delivers.
FairSpec == Spec /\ WF_vars(Step) /\ WF_vars(DeviceReads) /\ WF_vars(NotificationArrives)

-----------------------------------------------------------------------------
(* Every field keeps its type, whatever sums and numbers the calls build up. *)
TypeOK ==
  /\ session \in Sessions /\ device \in Devices
  /\ link \in Seq(Packets) /\ air \in Seq(Notifications)
  /\ mute \in BOOLEAN /\ saturated \in BOOLEAN
  /\ wanted \in [Channels -> Int] /\ applied \in [Channels -> Int]
  /\ requests \in Nat /\ turns \in Nat /\ losses \in Nat

Numbered(queue) == {i \in DOMAIN queue : queue[i].sequence # 0}

(* With feedback at most one change is under way: one numbered packet, or one
   confirmation, and it is the one the gate waits for.  A turn of the wheel, an old
   confirmation or a lost packet never lets a second change out
   (coyote_v3_strength.c:94-97 and 120-133). *)
OneInFlight ==
  /\ \A i, j \in Numbered(link) : i = j
  /\ \A i, j \in Numbered(air) : i = j
  /\ Numbered(link) = {} \/ Numbered(air) = {}
  /\ \A i \in Numbered(link) : session.gate.waiting /\ link[i].sequence = session.gate.inflight
  /\ \A i \in Numbered(air) : session.gate.waiting /\ air[i].sequence = session.gate.inflight

(* While nothing is lost, what the device took, what is on its way and what the session
   still owes add up to what the user asked for: a change made while another is in
   flight is neither dropped nor sent twice, and a zero cancels what was asked before it
   and nothing after it (coyote_v3_strength.c:39-61, 70-83). *)
NothingForgotten ==
  losses = 0 /\ ~saturated =>
    \A ch \in Channels :
      wanted[ch] = session.gate.pending[ch]
                   + (IF session.gate.zero[ch] THEN 0 ELSE After(link, ch, applied[ch]))

(* A zero that was asked for reaches the device unless the link breaks or loses a
   packet, or the change in flight is one the device does not confirm
   (coyote_v3_strength.c:77-83). *)
ZeroDelivered ==
  \A ch \in Channels :
    session.gate.zero[ch] ~> (device.strength[ch] = 0 \/ mute \/ losses > 0 \/ ~session.connected)

(* What tests/protocol/test_coyote_v3_strength.c:181 says of such a zero: it has to wait
   like any other change, "it is not lost". *)
ZeroIsNotLost ==
  \A ch \in Channels :
    session.gate.zero[ch] ~> (device.strength[ch] = 0 \/ losses > 0 \/ ~session.connected)
=============================================================================
