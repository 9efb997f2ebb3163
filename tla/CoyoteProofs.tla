---------------------------- MODULE CoyoteProofs ----------------------------
(***************************************************************************)
(* Proofs about the strength gate and the session: every field keeps its   *)
(* type, at most one strength change is under way, and what the user asked *)
(* for is taken, on its way or owed, for all ranges, bounds and schedules  *)
(* of CoyoteLink.                                                          *)
(***************************************************************************)
EXTENDS CoyoteLink, WellFoundedInduction, TLAPS

(* The clamp returns a change the packet's byte can carry. *)
LEMMA ClampType ==
  ASSUME NEW v \in Int
  PROVE  ClampToStrengthRange(v) \in Deltas
BY CoyoteAssumption DEF ClampToStrengthRange, Deltas

(* Sequence numbers run from 1 and never reach the reserved 0. *)
LEMMA NextSequenceRange ==
  ASSUME NEW s \in Sequences
  PROVE  NextSequence(s) \in Sequences /\ NextSequence(s) # 0
BY CoyoteAssumption DEF NextSequence, Sequences

(* What a packet carries is well typed, and so is its number. *)
LEMMA PacketType ==
  ASSUME NEW gate \in Gates
  PROVE  /\ PacketChange(gate) \in [Channels -> Changes]
         /\ PacketSequence(gate) \in Sequences
<1>1. ASSUME NEW ch \in Channels PROVE ChannelChange(gate, ch) \in Changes
  <2>1. gate.pending[ch] \in Int
    BY <1>1, CoyoteAssumption DEF Gates, Deltas
  <2>2. ClampToStrengthRange(gate.pending[ch]) \in Deltas /\ 0 \in Deltas
    BY <2>1, ClampType, CoyoteAssumption DEF Deltas
  <2> QED BY <1>1, <2>2 DEF ChannelChange, Changes, ToZero, NoChange, Gates
<1>2. NoChange \in Changes
  BY CoyoteAssumption DEF NoChange, Changes, Deltas
<1>3. PacketChange(gate) \in [Channels -> Changes]
  BY <1>1, <1>2 DEF PacketChange
<1>4. gate.sequence \in Sequences /\ 0 \in Sequences
  BY CoyoteAssumption DEF Gates, Sequences
<1>5. PacketSequence(gate) \in Sequences
  BY <1>4, NextSequenceRange DEF PacketSequence
<1> QED BY <1>3, <1>5

(* A fresh gate is a gate. *)
LEMMA GateInitType ==
  ASSUME NEW feedback \in {"Required", "None"}
  PROVE  GateInit(feedback) \in Gates
BY CoyoteAssumption
   DEF GateInit, Gates, Zeros, Nothing, Deltas, Sequences, Limits, Strengths

(* The user's calls and a notification keep the gate well typed. *)
LEMMA GateCallsType ==
  ASSUME NEW gate \in Gates
  PROVE  /\ \A ch \in Channels, d \in Int : Adjust(gate, ch, d) \in Gates
         /\ \A ch \in Channels : RequestZero(gate, ch) \in Gates
         /\ \A b1 \in Notifications : OnB1(gate, b1) \in Gates
<1>1. ASSUME NEW ch \in Channels, NEW d \in Int PROVE Adjust(gate, ch, d) \in Gates
  <2>1. gate.pending[ch] + d \in Int
    BY CoyoteAssumption DEF Gates, Deltas
  <2>2. ClampToStrengthRange(gate.pending[ch] + d) \in Deltas
    BY <2>1, ClampType
  <2> QED BY <2>2 DEF Adjust, Gates
<1>2. ASSUME NEW ch \in Channels PROVE RequestZero(gate, ch) \in Gates
  <2>1. 0 \in Deltas
    BY CoyoteAssumption DEF Deltas
  <2> QED BY <2>1 DEF RequestZero, Gates
<1>3. ASSUME NEW b1 \in Notifications PROVE OnB1(gate, b1) \in Gates
  <2>1. 0 \in Sequences
    BY CoyoteAssumption DEF Sequences
  <2> QED BY <2>1 DEF OnB1, Gates, Notifications
<1> QED BY <1>1, <1>2, <1>3

(* Building a packet keeps the gate well typed. *)
LEMMA ApplyType ==
  ASSUME NEW gate \in Gates
  PROVE  ApplyToPacket(gate) \in Gates
<1>1. 0 \in Deltas
  BY CoyoteAssumption DEF Deltas
<1>2. PacketSequence(gate) \in Sequences
  BY PacketType
<1> QED BY <1>1, <1>2 DEF ApplyToPacket, Gates

(* A numbered packet leaves only through an open gate and closes it behind itself; an
   unnumbered one leaves the gate as it was. *)
LEMMA ApplyGate ==
  ASSUME NEW gate \in Gates
  PROVE  /\ ApplyToPacket(gate).feedback = gate.feedback
         /\ PacketSequence(gate) = 0 =>
              /\ ApplyToPacket(gate).waiting = gate.waiting
              /\ ApplyToPacket(gate).inflight = gate.inflight
              /\ ApplyToPacket(gate).sequence = gate.sequence
         /\ PacketSequence(gate) # 0 =>
              /\ gate.feedback = "Required" /\ ~gate.waiting
              /\ ApplyToPacket(gate).waiting
              /\ ApplyToPacket(gate).inflight = PacketSequence(gate)
              /\ ApplyToPacket(gate).sequence = PacketSequence(gate)
<1>1. ASSUME PacketSequence(gate) # 0 PROVE gate.feedback = "Required" /\ ~gate.waiting
  <2>1. Changing(gate) /\ gate.feedback = "Required"
    BY <1>1 DEF PacketSequence
  <2>2. ~Closed(gate)
    BY <2>1 DEF Changing, PacketChange
  <2> QED BY <2>1, <2>2 DEF Closed
<1>2. PacketSequence(gate) = 0 =>
        /\ ApplyToPacket(gate).waiting = gate.waiting
        /\ ApplyToPacket(gate).inflight = gate.inflight
        /\ ApplyToPacket(gate).sequence = gate.sequence
        /\ ApplyToPacket(gate).feedback = gate.feedback
  BY DEF ApplyToPacket, Gates
<1>3. PacketSequence(gate) # 0 =>
        /\ ApplyToPacket(gate).waiting = TRUE
        /\ ApplyToPacket(gate).inflight = PacketSequence(gate)
        /\ ApplyToPacket(gate).sequence = PacketSequence(gate)
        /\ ApplyToPacket(gate).feedback = gate.feedback
  BY DEF ApplyToPacket, Gates
<1> QED BY <1>1, <1>2, <1>3

-----------------------------------------------------------------------------
(* Every call of the session returns a session. *)
LEMMA SessionCallsType ==
  ASSUME NEW s \in Sessions
  PROVE  /\ OnConnected(s) \in Sessions /\ OnDisconnected(s) \in Sessions
         /\ \A ch \in Channels, d \in Int : AdjustStrength(s, ch, d) \in Sessions
         /\ \A ch \in Channels : SetStrengthZero(s, ch) \in Sessions
         /\ \A ch \in Channels, n \in Int : SetWaveform(s, ch, n) \in Sessions
         /\ \A ch \in Channels : ClearWaveform(s, ch) \in Sessions
<1>1. 0 \in 0..Capacity /\ 0 \in 0..(Interval - 1)
  BY CoyoteAssumption
<1>2. s.gate \in Gates /\ s.gate.feedback \in {"Required", "None"}
  BY DEF Sessions, Gates
<1>3. Rewound(s.wave) \in [Channels -> Waveforms]
  BY <1>1 DEF Rewound, Sessions, Waveforms
<1>4. GateInit(s.gate.feedback) \in Gates
  BY <1>2, GateInitType
<1>5. OnConnected(s) \in Sessions /\ OnDisconnected(s) \in Sessions
  BY <1>1, <1>3, <1>4 DEF OnConnected, OnDisconnected, SessionRestart, Sessions
<1>6. ASSUME NEW ch \in Channels, NEW d \in Int PROVE AdjustStrength(s, ch, d) \in Sessions
  <2>1. Adjust(s.gate, ch, d) \in Gates
    BY <1>2, GateCallsType
  <2> QED BY <2>1 DEF AdjustStrength, Sessions
<1>7. ASSUME NEW ch \in Channels PROVE SetStrengthZero(s, ch) \in Sessions
  <2>1. RequestZero(s.gate, ch) \in Gates
    BY <1>2, GateCallsType
  <2> QED BY <2>1 DEF SetStrengthZero, Sessions
<1>8. ASSUME NEW ch \in Channels, NEW n \in Int PROVE SetWaveform(s, ch, n) \in Sessions
  <2>1. n \in 1..Capacity => [count |-> n, position |-> 0] \in Waveforms
    BY <1>1, CoyoteAssumption DEF Waveforms
  <2> QED BY <2>1 DEF SetWaveform, Sessions
<1>9. ASSUME NEW ch \in Channels PROVE ClearWaveform(s, ch) \in Sessions
  <2>1. [count |-> 0, position |-> 0] \in Waveforms
    BY <1>1 DEF Waveforms
  <2> QED BY <2>1 DEF ClearWaveform, Sessions
<1> QED BY <1>5, <1>6, <1>7, <1>8, <1>9

(* The playback never runs past the end of its waveform. *)
LEMMA FillType ==
  ASSUME NEW w \in Waveforms
  PROVE  FillChannelWaveform(w) \in Waveforms
<1>1. w.count \in Nat /\ w.position \in Nat /\ w.count <= Capacity /\ Slots \in Nat
  BY CoyoteAssumption DEF Waveforms
<1> DEFINE from == IF w.position >= w.count THEN 0 ELSE w.position
           to == IF from + Slots > w.count THEN w.count ELSE from + Slots
<1>2. to \in 0..Capacity
  BY <1>1, CoyoteAssumption
<1> QED BY <1>2 DEF FillChannelWaveform, Waveforms

(* A tick keeps the session well typed; what is left of the time is less than an interval. *)
LEMMA TickType ==
  ASSUME NEW s \in Sessions, NEW e \in Nat
  PROVE  Tick(s, e) \in Sessions
<1>1. s.elapsed \in Nat /\ s.elapsed < Interval /\ Interval \in Nat \ {0}
  BY CoyoteAssumption DEF Sessions
<1>2. ~Writes(s, e) /\ s.connected => s.elapsed + e \in 0..(Interval - 1)
  BY <1>1 DEF Writes
<1>3. (s.elapsed + e - Interval) % Interval \in 0..(Interval - 1)
  BY <1>1
<1>4. ApplyToPacket(s.gate) \in Gates
  BY ApplyType DEF Sessions
<1>5. [ch \in Channels |-> FillChannelWaveform(s.wave[ch])] \in [Channels -> Waveforms]
  BY FillType DEF Sessions
<1>6. CASE ~s.connected
  BY <1>6 DEF Tick, Sessions
<1>7. CASE s.connected /\ ~Writes(s, e)
  BY <1>7, <1>2 DEF Tick, Sessions
<1>8. CASE s.connected /\ Writes(s, e)
  BY <1>8, <1>3, <1>4, <1>5 DEF Tick, Sessions
<1> QED BY <1>6, <1>7, <1>8

(* Both kinds of packet are packets. *)
LEMMA WrittenType ==
  ASSUME NEW s \in Sessions
  PROVE  B0(s) \in Packets /\ Bf(s) \in Packets
<1>1. s.gate \in Gates /\ s.limits \in Limits
  BY DEF Sessions
<1>2. PacketChange(s.gate) \in [Channels -> Changes] /\ PacketSequence(s.gate) \in Sequences
  BY <1>1, PacketType
<1>3. Zeros \in Limits /\ 0 \in Sequences /\ NoChange \in Changes
  BY CoyoteAssumption
     DEF Zeros, Limits, Strengths, Sequences, NoChange, Changes, Deltas
<1> QED BY <1>1, <1>2, <1>3 DEF B0, Bf, Packets

(* Whatever the device reads, its strengths stay under its ceilings' range. *)
LEMMA DeviceType ==
  ASSUME NEW d \in Devices, NEW p \in Packets
  PROVE  DeviceTakes(d, p) \in Devices
<1>1. ASSUME NEW v \in Int, NEW limit \in Strengths PROVE Within(v, limit) \in Strengths
  BY CoyoteAssumption DEF Within, Strengths
<1>2. \A ch \in Channels : d.strength[ch] \in Strengths /\ d.limits[ch] \in Strengths
                           /\ p.limits[ch] \in Strengths
  BY DEF Devices, Packets, Limits
<1>3. \A ch \in Channels : d.strength[ch] \in Int /\ p.change[ch].value \in Int
  BY <1>2, CoyoteAssumption DEF Packets, Changes, Deltas, Strengths
<1>4. [ch \in Channels |-> Within(d.strength[ch], p.limits[ch])] \in Limits
  BY <1>1, <1>2, <1>3 DEF Limits
<1>5. Changed(d, p.change) \in Limits
  BY <1>1, <1>2, <1>3 DEF Changed, Limits
<1> QED BY <1>4, <1>5 DEF DeviceTakes, Devices, Packets

-----------------------------------------------------------------------------
(* The system starts well typed. *)
LEMMA InitType == Init => TypeOK
<1> SUFFICES ASSUME Init PROVE TypeOK
  OBVIOUS
<1>1. PICK c \in Ceilings, f \in {"Required", "None"} :
        session = SessionInit([ch \in Channels |-> c], f)
  BY DEF Init
<1>2. Zeros \in [Channels -> Int] /\ 0 \in 0..(Interval - 1) /\ 0 \in 0..Capacity
  BY CoyoteAssumption DEF Zeros
<1>3. [ch \in Channels |-> c] \in Limits
  BY LinkAssumption DEF Limits
<1>4. session \in Sessions
  BY <1>1, <1>2, <1>3, GateInitType DEF SessionInit, Sessions, Waveforms
<1>5. device \in Devices
  BY LinkAssumption DEF Init, Devices, Limits
<1>6. link \in Seq(Packets) /\ air \in Seq(Notifications)
  BY DEF Init
<1>7. mute \in BOOLEAN /\ saturated \in BOOLEAN /\ wanted = Zeros /\ applied = Zeros
      /\ requests \in Nat /\ turns \in Nat /\ losses \in Nat
  BY DEF Init
<1> QED BY <1>2, <1>4, <1>5, <1>6, <1>7 DEF TypeOK

(* A write keeps the link, the loss counter and the mute flag well typed. *)
LEMMA WriteType ==
  ASSUME TypeOK, NEW p \in Packets, Write(p)
  PROVE  link' \in Seq(Packets) /\ mute' \in BOOLEAN /\ losses' \in Nat
<1>1. CASE Plain(p) /\ UNCHANGED <<link, mute, losses>>
  BY <1>1 DEF TypeOK
<1>2. CASE link' = Append(link, p) /\ UNCHANGED <<mute, losses>>
  BY <1>2 DEF TypeOK
<1>3. CASE losses' = losses + 1 /\ mute' = (mute \/ p.sequence # 0) /\ UNCHANGED link
  <2>1. mute' \in BOOLEAN
    BY <1>3
  <2> QED BY <1>3, <2>1 DEF TypeOK
<1> QED BY <1>1, <1>2, <1>3 DEF Write

(* Every step keeps the types. *)
LEMMA NextType == TypeOK /\ [Next]_vars => TypeOK'
<1> SUFFICES ASSUME TypeOK, [Next]_vars PROVE TypeOK'
  OBVIOUS
<1> USE DEF TypeOK
<1>0. Zeros \in [Channels -> Int]
  BY DEF Zeros
<1>1. CASE Connect
  <2>1. session' \in Sessions /\ Bf(session) \in Packets
    BY <1>1, SessionCallsType, WrittenType DEF Connect
  <2>2. link' \in Seq(Packets) /\ air' \in Seq(Notifications)
    BY <1>1, <2>1 DEF Connect
  <2>3. mute' \in BOOLEAN /\ saturated' \in BOOLEAN /\ wanted' = Zeros /\ applied' = Zeros
        /\ UNCHANGED <<device, requests, turns, losses>>
    BY <1>1 DEF Connect, budget
  <2> QED BY <1>0, <2>1, <2>2, <2>3
<1>2. CASE Disconnect
  <2>1. session' \in Sessions
    BY <1>2, SessionCallsType DEF Disconnect
  <2>2. link' \in Seq(Packets) /\ air' \in Seq(Notifications)
    BY <1>2 DEF Disconnect
  <2>3. mute' \in BOOLEAN /\ saturated' \in BOOLEAN /\ wanted' = Zeros /\ applied' = Zeros
        /\ UNCHANGED <<device, requests, turns, losses>>
    BY <1>2 DEF Disconnect, budget
  <2> QED BY <1>0, <2>1, <2>2, <2>3
<1>3. CASE Step
  <2>1. PICK e \in Delays : TickBy(e)
    BY <1>3 DEF Step
  <2>2. session' \in Sessions
    BY <2>1, TickType, LinkAssumption DEF TickBy
  <2>3. link' \in Seq(Packets) /\ mute' \in BOOLEAN /\ losses' \in Nat
    BY <2>1, WrittenType, WriteType DEF TickBy
  <2> QED BY <2>1, <2>2, <2>3 DEF TickBy, ledger
<1>4. CASE UserAdjusts
  <2>1. PICK ch \in Channels, d \in Requests :
          /\ Ask(AdjustStrength(session, ch, d))
          /\ IF session.connected
             THEN /\ wanted' = [wanted EXCEPT ![ch] = @ + d]
                  /\ saturated' = (saturated \/ session'.gate.pending[ch]
                                                # session.gate.pending[ch] + d)
             ELSE UNCHANGED <<wanted, saturated>>
    BY <1>4 DEF UserAdjusts
  <2>2. session' \in Sessions
    BY <2>1, SessionCallsType, LinkAssumption DEF Ask
  <2>3. wanted' \in [Channels -> Int]
    BY <2>1, LinkAssumption
  <2>4. saturated' \in BOOLEAN
    BY <2>1
  <2> QED BY <2>1, <2>2, <2>3, <2>4 DEF Ask
<1>5. CASE UserZeroes
  <2>1. PICK ch \in Channels :
          /\ Ask(SetStrengthZero(session, ch))
          /\ wanted' = [wanted EXCEPT ![ch] = 0] /\ UNCHANGED saturated
    BY <1>5 DEF UserZeroes
  <2>2. session' \in Sessions
    BY <2>1, SessionCallsType DEF Ask
  <2> QED BY <2>1, <2>2 DEF Ask
<1>6. CASE UserPlays
  <2>1. PICK ch \in Channels, n \in WaveformSizes :
          Ask(SetWaveform(session, ch, n)) /\ UNCHANGED <<wanted, saturated>>
    BY <1>6 DEF UserPlays
  <2>2. n \in Int
    BY <2>1, LinkAssumption, CoyoteAssumption
  <2>3. SetWaveform(session, ch, n) \in Sessions
    BY <2>2, SessionCallsType
  <2> QED BY <2>1, <2>3 DEF Ask
<1>7. CASE UserClears
  <2>1. PICK ch \in Channels :
          Ask(ClearWaveform(session, ch)) /\ UNCHANGED <<wanted, saturated>>
    BY <1>7 DEF UserClears
  <2>2. session' \in Sessions
    BY <2>1, SessionCallsType DEF Ask
  <2> QED BY <2>1, <2>2 DEF Ask
<1>8. CASE DeviceReads
  <2>1. Head(link) \in Packets /\ Tail(link) \in Seq(Packets)
    BY <1>8 DEF DeviceReads
  <2>2. device' \in Devices
    BY <1>8, <2>1, DeviceType DEF DeviceReads
  <2>3. [sequence |-> Head(link).sequence, strength |-> device'.strength] \in Notifications
    BY <2>1, <2>2 DEF Notifications, Packets, Devices
  <2>4. air' \in Seq(Notifications)
    BY <1>8, <2>3 DEF DeviceReads
  <2>5. \A ch \in Channels : Taken(Head(link), ch, applied[ch]) \in Int
    BY <2>1, CoyoteAssumption DEF Taken, Packets, Changes, Deltas
  <2>6. applied' \in [Channels -> Int]
    BY <1>8, <2>5 DEF DeviceReads
  <2>7. mute' \in BOOLEAN
    BY <1>8 DEF DeviceReads
  <2> QED BY <1>8, <2>1, <2>2, <2>4, <2>6, <2>7 DEF DeviceReads, budget
<1>9. CASE WheelTurns
  <2>1. PICK ch \in Channels, d \in {-1, 1} :
          /\ device.strength[ch] + d \in 0..device.limits[ch]
          /\ device' = [device EXCEPT !.strength[ch] = @ + d]
    BY <1>9 DEF WheelTurns
  <2>2. device.limits[ch] \in Strengths
    BY <2>1 DEF Devices, Limits
  <2>3. device.strength[ch] + d \in Strengths
    BY <2>1, <2>2, CoyoteAssumption DEF Strengths
  <2>4. device' \in Devices
    BY <2>1, <2>3 DEF Devices, Limits
  <2>5. [sequence |-> 0, strength |-> device'.strength] \in Notifications
    BY <2>4, CoyoteAssumption DEF Notifications, Devices, Sequences
  <2> QED BY <1>9, <2>4, <2>5 DEF WheelTurns, ledger
<1>10. CASE NotificationArrives
  <2>1. Head(air) \in Notifications /\ Tail(air) \in Seq(Notifications)
    BY <1>10 DEF NotificationArrives
  <2>2. OnB1(session.gate, Head(air)) \in Gates
    BY <2>1, GateCallsType DEF Sessions
  <2>3. session' \in Sessions
    BY <1>10, <2>2 DEF NotificationArrives, Sessions
  <2> QED BY <1>10, <2>1, <2>3 DEF NotificationArrives, ledger, budget
<1>11. CASE PacketLost
  <2>1. Tail(link) \in Seq(Packets) /\ mute' \in BOOLEAN
    BY <1>11 DEF PacketLost
  <2> QED BY <1>11, <2>1 DEF PacketLost, ledger
<1>12. CASE NotificationLost
  <2>1. Tail(air) \in Seq(Notifications) /\ mute' \in BOOLEAN
    BY <1>12 DEF NotificationLost
  <2> QED BY <1>12, <2>1 DEF NotificationLost, ledger
<1>13. CASE UNCHANGED vars
  BY <1>13 DEF vars, ledger, budget
<1> QED
  BY <1>1, <1>2, <1>3, <1>4, <1>5, <1>6, <1>7, <1>8, <1>9, <1>10, <1>11, <1>12, <1>13 DEF Next

(* The session, the device and everything on its way between them keep their types in
   every behaviour. *)
THEOREM TypeCorrect == Spec => []TypeOK
BY InitType, NextType, PTL DEF Spec

-----------------------------------------------------------------------------
(* OneInFlight alone is not inductive: that the gate waits says nothing of what a packet
   built next will carry.  The gate waits exactly while it has a number in flight, which
   is the last one it gave out, and it does so only if feedback is required. *)
GateSound(gate) ==
  /\ gate.waiting <=> gate.inflight # 0
  /\ gate.waiting => gate.feedback = "Required" /\ gate.inflight = gate.sequence

InFlightInv == TypeOK /\ GateSound(session.gate) /\ OneInFlight

(* Numbers of a queue that grows by an unnumbered element, and of one that loses its
   first element. *)
LEMMA NumberedAppend ==
  ASSUME NEW S, NEW q \in Seq(S), NEW p \in S, p.sequence = 0
  PROVE  /\ Numbered(Append(q, p)) = Numbered(q)
         /\ \A i \in Numbered(q) : Append(q, p)[i] = q[i]
<1>1. \A i \in 1..Len(q) : Append(q, p)[i] = q[i]
  OBVIOUS
<1>2. Append(q, p)[Len(q) + 1] = p /\ DOMAIN Append(q, p) = 1..(Len(q) + 1)
  OBVIOUS
<1> QED BY <1>1, <1>2 DEF Numbered

LEMMA NumberedFirst ==
  ASSUME NEW S, NEW q \in Seq(S), NEW p \in S, Numbered(q) = {}
  PROVE  \A i \in Numbered(Append(q, p)) : i = Len(q) + 1 /\ Append(q, p)[i] = p
<1>1. \A i \in 1..Len(q) : Append(q, p)[i] = q[i]
  OBVIOUS
<1>2. Append(q, p)[Len(q) + 1] = p /\ DOMAIN Append(q, p) = 1..(Len(q) + 1)
  OBVIOUS
<1> QED BY <1>1, <1>2 DEF Numbered

LEMMA NumberedTail ==
  ASSUME NEW S, NEW q \in Seq(S), q # <<>>
  PROVE  /\ \A i \in Numbered(Tail(q)) : i + 1 \in Numbered(q) /\ Tail(q)[i] = q[i + 1]
         /\ Head(q) = q[1] /\ (Head(q).sequence # 0 => 1 \in Numbered(q))
         /\ \A i \in Numbered(Tail(q)) : i \in Nat \ {0}
<1>1. DOMAIN Tail(q) = 1..(Len(q) - 1) /\ Len(q) \in Nat \ {0} /\ DOMAIN q = 1..Len(q)
  OBVIOUS
<1>2. \A i \in 1..(Len(q) - 1) : Tail(q)[i] = q[i + 1]
  OBVIOUS
<1>3. Head(q) = q[1]
  OBVIOUS
<1> QED BY <1>1, <1>2, <1>3 DEF Numbered

(* Losing the first element of a queue keeps the invariant, as long as the gate does not
   move. *)
LEMMA TailKeepsOne ==
  ASSUME TypeOK, OneInFlight, UNCHANGED session,
         \/ link # <<>> /\ link' = Tail(link) /\ UNCHANGED air
         \/ air # <<>> /\ air' = Tail(air) /\ UNCHANGED link
  PROVE  OneInFlight'
<1>1. CASE link # <<>> /\ link' = Tail(link) /\ UNCHANGED air
  <2>1. \A i \in Numbered(Tail(link)) : i + 1 \in Numbered(link) /\ Tail(link)[i] = link[i + 1]
                                        /\ i \in Nat \ {0}
    BY <1>1, NumberedTail DEF TypeOK
  <2>2. Numbered(air)' = Numbered(air) /\ Numbered(link)' = Numbered(Tail(link))
    BY <1>1 DEF Numbered
  <2>3. \A i, j \in Numbered(Tail(link)) : i = j
    BY <2>1 DEF OneInFlight
  <2>4. Numbered(Tail(link)) = {} \/ Numbered(air) = {}
    BY <2>1 DEF OneInFlight
  <2> QED BY <1>1, <2>1, <2>2, <2>3, <2>4 DEF OneInFlight
<1>2. CASE air # <<>> /\ air' = Tail(air) /\ UNCHANGED link
  <2>1. \A i \in Numbered(Tail(air)) : i + 1 \in Numbered(air) /\ Tail(air)[i] = air[i + 1]
                                       /\ i \in Nat \ {0}
    BY <1>2, NumberedTail DEF TypeOK
  <2>2. Numbered(link)' = Numbered(link) /\ Numbered(air)' = Numbered(Tail(air))
    BY <1>2 DEF Numbered
  <2>3. \A i, j \in Numbered(Tail(air)) : i = j
    BY <2>1 DEF OneInFlight
  <2>4. Numbered(Tail(air)) = {} \/ Numbered(link) = {}
    BY <2>1 DEF OneInFlight
  <2> QED BY <1>2, <2>1, <2>2, <2>3, <2>4 DEF OneInFlight
<1> QED BY <1>1, <1>2

(* A call of the user moves neither the gate nor its number. *)
LEMMA CallsKeepGate ==
  ASSUME NEW s \in Sessions
  PROVE  \A t : \/ \E ch \in Channels, d \in Int : t = AdjustStrength(s, ch, d)
                \/ \E ch \in Channels : t = SetStrengthZero(s, ch)
                \/ \E ch \in Channels, n \in Int : t = SetWaveform(s, ch, n)
                \/ \E ch \in Channels : t = ClearWaveform(s, ch)
           => /\ t.gate.waiting = s.gate.waiting /\ t.gate.inflight = s.gate.inflight
              /\ t.gate.sequence = s.gate.sequence /\ t.gate.feedback = s.gate.feedback
<1>1. \A ch \in Channels, d \in Int : LET t == AdjustStrength(s, ch, d) IN
        /\ t.gate.waiting = s.gate.waiting /\ t.gate.inflight = s.gate.inflight
        /\ t.gate.sequence = s.gate.sequence /\ t.gate.feedback = s.gate.feedback
  BY DEF AdjustStrength, Adjust, Sessions, Gates
<1>2. \A ch \in Channels : LET t == SetStrengthZero(s, ch) IN
        /\ t.gate.waiting = s.gate.waiting /\ t.gate.inflight = s.gate.inflight
        /\ t.gate.sequence = s.gate.sequence /\ t.gate.feedback = s.gate.feedback
  BY DEF SetStrengthZero, RequestZero, Sessions, Gates
<1>3. \A ch \in Channels, n \in Int : SetWaveform(s, ch, n).gate = s.gate
  BY DEF SetWaveform, Sessions
<1>4. \A ch \in Channels : ClearWaveform(s, ch).gate = s.gate
  BY DEF ClearWaveform, Sessions
<1> QED BY <1>1, <1>2, <1>3, <1>4

(* If the gate, its number, the link and the air stay, so does the invariant. *)
LEMMA SameGate ==
  ASSUME OneInFlight, GateSound(session.gate),
         session'.gate.waiting = session.gate.waiting,
         session'.gate.inflight = session.gate.inflight,
         session'.gate.sequence = session.gate.sequence,
         session'.gate.feedback = session.gate.feedback,
         UNCHANGED <<link, air>>
  PROVE  OneInFlight' /\ GateSound(session.gate)'
<1>1. Numbered(link)' = Numbered(link) /\ Numbered(air)' = Numbered(air)
  BY DEF Numbered
<1> QED BY <1>1 DEF OneInFlight, GateSound

(* What a user asks for. *)
LEMMA AskKeepsOne ==
  ASSUME TypeOK, OneInFlight, GateSound(session.gate),
         UserAdjusts \/ UserZeroes \/ UserPlays \/ UserClears
  PROVE  OneInFlight' /\ GateSound(session.gate)'
<1>1. UNCHANGED <<link, air>>
  BY DEF UserAdjusts, UserZeroes, UserPlays, UserClears, Ask
<1>2. Requests \subseteq Int /\ WaveformSizes \subseteq Int /\ session \in Sessions
  BY LinkAssumption, CoyoteAssumption DEF TypeOK
<1>3. \/ \E ch \in Channels, d \in Int : session' = AdjustStrength(session, ch, d)
      \/ \E ch \in Channels : session' = SetStrengthZero(session, ch)
      \/ \E ch \in Channels, n \in Int : session' = SetWaveform(session, ch, n)
      \/ \E ch \in Channels : session' = ClearWaveform(session, ch)
  BY <1>2 DEF UserAdjusts, UserZeroes, UserPlays, UserClears, Ask
<1>4. /\ session'.gate.waiting = session.gate.waiting
      /\ session'.gate.inflight = session.gate.inflight
      /\ session'.gate.sequence = session.gate.sequence
      /\ session'.gate.feedback = session.gate.feedback
  BY <1>2, <1>3, CallsKeepGate
<1> QED BY <1>1, <1>4, SameGate

(* A tick sends a numbered packet only when nothing is under way. *)
LEMMA TickKeepsOne ==
  ASSUME TypeOK, OneInFlight, GateSound(session.gate), Step
  PROVE  OneInFlight' /\ GateSound(session.gate)'
<1>1. PICK e \in Delays : TickBy(e)
  BY DEF Step
<1>2. session \in Sessions /\ session.gate \in Gates /\ link \in Seq(Packets)
  BY DEF TypeOK, Sessions
<1>3. CASE ~Writes(session, e)
  <2>1. session'.gate = session.gate /\ UNCHANGED <<link, air>>
    BY <1>1, <1>2, <1>3 DEF TickBy, Tick, Sessions
  <2> QED BY <2>1, SameGate
<1>4. CASE Writes(session, e) /\ PacketSequence(session.gate) = 0
  <2>1. session'.gate = ApplyToPacket(session.gate)
    BY <1>1, <1>2, <1>4 DEF TickBy, Tick, Sessions, Writes
  <2>2. /\ session'.gate.waiting = session.gate.waiting
        /\ session'.gate.inflight = session.gate.inflight
        /\ session'.gate.sequence = session.gate.sequence
        /\ session'.gate.feedback = session.gate.feedback
    BY <1>2, <1>4, <2>1, ApplyGate
  <2>3. B0(session) \in Packets /\ B0(session).sequence = 0
    BY <1>2, <1>4, WrittenType DEF B0
  <2>4. UNCHANGED air /\ (UNCHANGED link \/ link' = Append(link, B0(session)))
    BY <1>1, <1>4 DEF TickBy, Write
  <2>5. CASE UNCHANGED link
    BY <2>2, <2>4, <2>5, SameGate
  <2>6. CASE link' = Append(link, B0(session))
    <3>1. /\ Numbered(link') = Numbered(link)
          /\ \A i \in Numbered(link) : link'[i] = link[i]
      BY <1>2, <2>3, <2>6, NumberedAppend
    <3>2. Numbered(link)' = Numbered(link) /\ Numbered(air)' = Numbered(air)
      BY <2>4, <3>1 DEF Numbered
    <3> QED BY <2>2, <2>4, <3>1, <3>2 DEF OneInFlight, GateSound
  <2> QED BY <2>4, <2>5, <2>6
<1>5. CASE Writes(session, e) /\ PacketSequence(session.gate) # 0
  <2>1. session'.gate = ApplyToPacket(session.gate)
    BY <1>1, <1>2, <1>5 DEF TickBy, Tick, Sessions, Writes
  <2>2. /\ session.gate.feedback = "Required" /\ ~session.gate.waiting
        /\ session'.gate.feedback = "Required" /\ session'.gate.waiting
        /\ session'.gate.inflight = PacketSequence(session.gate)
        /\ session'.gate.sequence = PacketSequence(session.gate)
    BY <1>2, <1>5, <2>1, ApplyGate
  <2>3. Numbered(link) = {} /\ Numbered(air) = {}
    BY <2>2 DEF OneInFlight
  <2>4. B0(session) \in Packets /\ B0(session).sequence = PacketSequence(session.gate)
    BY <1>2, WrittenType DEF B0
  <2>5. UNCHANGED air /\ (UNCHANGED link \/ link' = Append(link, B0(session)))
    BY <1>1, <1>5 DEF TickBy, Write
  <2>6. Numbered(air)' = {}
    BY <2>3, <2>5 DEF Numbered
  <2>7. \A i \in Numbered(link') : link'[i] = B0(session) /\ \A j \in Numbered(link') : i = j
    <3>1. CASE UNCHANGED link
      BY <2>3, <3>1 DEF Numbered
    <3>2. CASE link' = Append(link, B0(session))
      BY <1>2, <2>3, <2>4, <3>2, NumberedFirst
    <3> QED BY <2>5, <3>1, <3>2
  <2> QED BY <1>5, <2>2, <2>4, <2>6, <2>7 DEF OneInFlight, GateSound, Numbered
<1> QED BY <1>3, <1>4, <1>5

(* The device answers the one packet it reads, and nothing else is under way. *)
LEMMA ReadKeepsOne ==
  ASSUME TypeOK, OneInFlight, GateSound(session.gate), DeviceReads
  PROVE  OneInFlight' /\ GateSound(session.gate)'
<1>1. UNCHANGED session /\ link # <<>> /\ link' = Tail(link)
  BY DEF DeviceReads
<1>2. GateSound(session.gate)'
  BY <1>1
<1>3. CASE ~Confirms(device, Head(link))
  <2>1. UNCHANGED air
    BY <1>3 DEF DeviceReads
  <2> QED BY <1>1, <1>2, <2>1, TailKeepsOne
<1>4. CASE Confirms(device, Head(link))
  <2> DEFINE b1 == [sequence |-> Head(link).sequence, strength |-> device'.strength]
  <2>1. Head(link).sequence # 0 /\ air' = Append(air, b1)
    BY <1>4 DEF Confirms, DeviceReads
  <2>2. /\ \A i \in Numbered(Tail(link)) : i + 1 \in Numbered(link) /\ i \in Nat \ {0}
        /\ Head(link) = link[1] /\ 1 \in Numbered(link)
    BY <1>1, <2>1, NumberedTail DEF TypeOK
  <2>3. /\ session.gate.waiting /\ Head(link).sequence = session.gate.inflight
        /\ Numbered(air) = {}
    BY <2>2 DEF OneInFlight
  <2>4. Numbered(Tail(link)) = {}
    <3>1. \A i \in Numbered(Tail(link)) : i + 1 = 1
      BY <2>2 DEF OneInFlight
    <3> QED BY <2>2, <3>1
  <2>5. air \in Seq(Notifications \cup {b1})
    BY DEF TypeOK
  <2>6. \A i \in Numbered(air') : i = Len(air) + 1 /\ air'[i] = b1
    BY <2>1, <2>3, <2>5, NumberedFirst
  <2>7. Numbered(link)' = {} /\ b1.sequence = session.gate.inflight
    BY <1>1, <2>3, <2>4 DEF Numbered
  <2>8. \A i, j \in Numbered(air') : i = j
    BY <2>6
  <2>9. \A i \in Numbered(air') : session.gate.waiting /\ air'[i].sequence = session.gate.inflight
    BY <2>3, <2>6, <2>7
  <2> QED BY <1>1, <1>2, <2>7, <2>8, <2>9 DEF OneInFlight, Numbered
<1> QED BY <1>3, <1>4

(* The notification that opens the gate was the last thing under way. *)
LEMMA ArrivalKeepsOne ==
  ASSUME TypeOK, OneInFlight, GateSound(session.gate), NotificationArrives
  PROVE  OneInFlight' /\ GateSound(session.gate)'
<1>1. /\ air # <<>> /\ air' = Tail(air) /\ UNCHANGED link
      /\ session'.gate = OnB1(session.gate, Head(air))
      /\ session.gate \in Gates
  BY DEF NotificationArrives, TypeOK, Sessions
<1>2. /\ \A i \in Numbered(Tail(air)) : i + 1 \in Numbered(air) /\ Tail(air)[i] = air[i + 1]
                                        /\ i \in Nat \ {0}
      /\ Head(air) = air[1] /\ (Head(air).sequence # 0 => 1 \in Numbered(air))
  BY <1>1, NumberedTail DEF TypeOK
<1>3. Numbered(air)' = Numbered(Tail(air)) /\ Numbered(link)' = Numbered(link)
  BY <1>1 DEF Numbered
<1>4. CASE Head(air).sequence = 0
  <2>1. /\ session'.gate.waiting = session.gate.waiting
        /\ session'.gate.inflight = session.gate.inflight
        /\ session'.gate.sequence = session.gate.sequence
        /\ session'.gate.feedback = session.gate.feedback
    BY <1>1, <1>4 DEF OnB1, Gates
  <2>2. \A i, j \in Numbered(Tail(air)) : i = j
    BY <1>2 DEF OneInFlight
  <2>3. Numbered(link) = {} \/ Numbered(Tail(air)) = {}
    BY <1>2 DEF OneInFlight
  <2>4. \A i \in Numbered(Tail(air)) :
          session.gate.waiting /\ Tail(air)[i].sequence = session.gate.inflight
    <3>1. TAKE i \in Numbered(Tail(air))
    <3>2. i + 1 \in Numbered(air) /\ Tail(air)[i] = air[i + 1]
      BY <1>2
    <3>3. session.gate.waiting /\ air[i + 1].sequence = session.gate.inflight
      BY <3>2 DEF OneInFlight
    <3> QED BY <3>2, <3>3
  <2>5. \A i \in Numbered(air)' :
          session'.gate.waiting /\ air'[i].sequence = session'.gate.inflight
    BY <1>1, <1>3, <2>1, <2>4
  <2>6. /\ \A i, j \in Numbered(link) : i = j
        /\ \A i \in Numbered(link)' :
             session'.gate.waiting /\ link'[i].sequence = session'.gate.inflight
    BY <1>1, <1>3, <2>1 DEF OneInFlight
  <2>7. GateSound(session.gate)'
    BY <2>1 DEF GateSound
  <2> QED BY <1>3, <2>2, <2>3, <2>5, <2>6, <2>7 DEF OneInFlight
<1>5. CASE Head(air).sequence # 0
  <2>1. /\ session.gate.waiting /\ Head(air).sequence = session.gate.inflight
        /\ Numbered(link) = {}
    BY <1>2, <1>5 DEF OneInFlight
  <2>2. session'.gate.waiting = FALSE /\ session'.gate.inflight = 0
    BY <1>1, <1>5, <2>1 DEF OnB1, Gates
  <2>3. Numbered(Tail(air)) = {}
    <3>1. \A i \in Numbered(Tail(air)) : i + 1 = 1
      BY <1>2, <1>5 DEF OneInFlight
    <3> QED BY <1>2, <3>1
  <2> QED BY <1>3, <2>1, <2>2, <2>3 DEF OneInFlight, GateSound
<1> QED BY <1>4, <1>5

(* The invariant holds at the start and in every step. *)
LEMMA InFlightInductive ==
  /\ Init => InFlightInv
  /\ InFlightInv /\ [Next]_vars => InFlightInv'
<1>1. Init => InFlightInv
  <2>1. Init => TypeOK
    BY InitType
  <2>2. Init => OneInFlight
    BY DEF Init, OneInFlight, Numbered
  <2>3. Init => GateSound(session.gate)
    BY DEF Init, GateSound, SessionInit, GateInit
  <2> QED BY <2>1, <2>2, <2>3 DEF InFlightInv
<1>2. InFlightInv /\ [Next]_vars => InFlightInv'
  <2> SUFFICES ASSUME TypeOK, OneInFlight, GateSound(session.gate), [Next]_vars
               PROVE  OneInFlight' /\ GateSound(session.gate)'
    BY NextType DEF InFlightInv
  <2>1. CASE Connect
    <3>1. Numbered(link)' = {} /\ Numbered(air)' = {}
      BY <2>1 DEF Connect, Numbered, Bf
    <3>2. session'.gate = GateInit(session.gate.feedback)
      BY <2>1 DEF Connect, OnConnected, SessionRestart, TypeOK, Sessions
    <3> QED BY <3>1, <3>2 DEF OneInFlight, GateSound, GateInit
  <2>2. CASE Disconnect
    <3>1. Numbered(link)' = {} /\ Numbered(air)' = {}
      BY <2>2 DEF Disconnect, Numbered
    <3>2. session'.gate = GateInit(session.gate.feedback)
      BY <2>2 DEF Disconnect, OnDisconnected, SessionRestart, TypeOK, Sessions
    <3> QED BY <3>1, <3>2 DEF OneInFlight, GateSound, GateInit
  <2>3. CASE Step
    BY <2>3, TickKeepsOne
  <2>4. CASE UserAdjusts \/ UserZeroes \/ UserPlays \/ UserClears
    BY <2>4, AskKeepsOne
  <2>5. CASE DeviceReads
    BY <2>5, ReadKeepsOne
  <2>6. CASE WheelTurns
    <3>1. UNCHANGED <<session, link>> /\ \E p : p.sequence = 0 /\ air' = Append(air, p)
      BY <2>6 DEF WheelTurns
    <3>2. PICK p : p.sequence = 0 /\ air' = Append(air, p)
      BY <3>1
    <3>3. /\ Numbered(air') = Numbered(air)
          /\ \A i \in Numbered(air) : air'[i] = air[i]
      <4>1. air \in Seq(Notifications \cup {p}) /\ p \in Notifications \cup {p}
        BY DEF TypeOK
      <4> QED BY <3>2, <4>1, NumberedAppend
    <3>4. Numbered(air)' = Numbered(air) /\ Numbered(link)' = Numbered(link)
      BY <3>1, <3>3 DEF Numbered
    <3> QED BY <3>1, <3>3, <3>4 DEF OneInFlight, GateSound
  <2>7. CASE NotificationArrives
    BY <2>7, ArrivalKeepsOne
  <2>8. CASE PacketLost \/ NotificationLost
    BY <2>8, TailKeepsOne DEF PacketLost, NotificationLost
  <2>9. CASE UNCHANGED vars
    BY <2>9, SameGate DEF vars
  <2> QED BY <2>1, <2>2, <2>3, <2>4, <2>5, <2>6, <2>7, <2>8, <2>9 DEF Next
<1> QED BY <1>1, <1>2

(* At most one strength change is under way, with its number the one the gate waits
   for, for every range of sequence numbers and every pattern of losses. *)
THEOREM AtMostOneInFlight == Spec => []OneInFlight
<1>1. InFlightInv => OneInFlight
  BY DEF InFlightInv
<1> QED BY <1>1, InFlightInductive, PTL DEF Spec
-----------------------------------------------------------------------------
(* Sums over a queue of packets. *)

\* A set of numbers with 0 and, with each number, the next one.
LEMMA EveryNumber ==
  ASSUME NEW S, 0 \in S, \A n \in Nat : n \in S => n + 1 \in S
  PROVE  Nat \subseteq S
<1> DEFINE less == {p \in Nat \X Nat : p[1] < p[2]}
           B == Nat \ S
<1> SUFFICES ASSUME B # {} PROVE FALSE
  OBVIOUS
<1>1. \E m \in B : \A k \in B : ~ (<<k, m>> \in less)
  <2>1. B \subseteq Nat /\ B # {}
    OBVIOUS
  <2> HIDE DEF less, B
  <2>2. IsWellFoundedOn(less, Nat)
    BY NatLessThanWellFounded DEF less, OpToRel
  <2> QED BY <2>1, <2>2, WFMin
<1>2. PICK m \in B : \A k \in B : ~ (<<k, m>> \in less)
  BY <1>1
<1>3. m \in Nat \ {0} /\ m - 1 \in Nat /\ m - 1 + 1 = m
  OBVIOUS
<1>4. m - 1 \in S
  <2>1. <<m - 1, m>> \in less
    BY <1>3
  <2> QED BY <1>2, <1>3, <2>1
<1> QED BY <1>3, <1>4

\* The last of the first n + 1 places is the greatest of its set.
LEMMA LastPlace ==
  ASSUME NEW n \in Nat, NEW s \in SUBSET (1..(n + 1)), n + 1 \in s
  PROVE  Max(s) = n + 1 /\ s \ {Max(s)} \in SUBSET (1..n)
<1>1. \A x \in s : x \in Int /\ n + 1 >= x
  OBVIOUS
<1>2. Max(s) \in s /\ \A y \in s : Max(s) >= y
  BY <1>1 DEF Max
<1>3. Max(s) = n + 1
  <2>1. Max(s) \in Int /\ n + 1 >= Max(s) /\ Max(s) >= n + 1
    BY <1>1, <1>2
  <2> QED BY <2>1
<1>4. \A x \in s : x # n + 1 => x \in 1..n
  OBVIOUS
<1> QED BY <1>3, <1>4

\* The sums over the sets of places, as the fold of the library builds them.
Folds(h, n, packets, ch, sum) ==
  h = [s \in SUBSET (1..n) |-> IF s = {} THEN sum
                               ELSE Taken(packets[Max(s)], ch, h[s \ {Max(s)}])]

LEMMA FoldsExist ==
  ASSUME NEW n \in Nat, NEW packets, NEW ch, NEW sum
  PROVE  \E h : Folds(h, n, packets, ch, sum)
<1> DEFINE S == {k \in Nat : \E h : Folds(h, k, packets, ch, sum)}
<1>1. 0 \in S
  <2> DEFINE h == [s \in SUBSET (1..0) |-> sum]
  <2>1. SUBSET (1..0) = {{}}
    OBVIOUS
  <2>2. Folds(h, 0, packets, ch, sum)
    BY <2>1 DEF Folds
  <2> QED BY <2>2
<1>2. ASSUME NEW k \in Nat, k \in S PROVE k + 1 \in S
  <2>1. PICK h : Folds(h, k, packets, ch, sum)
    BY <1>2
  <2> DEFINE D == SUBSET (1..(k + 1))
             g == [s \in D |-> IF k + 1 \in s
                               THEN Taken(packets[k + 1], ch, h[s \ {k + 1}]) ELSE h[s]]
             body(s) == IF s = {} THEN sum ELSE Taken(packets[Max(s)], ch, g[s \ {Max(s)}])
  <2>2. ASSUME NEW s \in D PROVE g[s] = body(s)
    <3>1. CASE k + 1 \in s
      <4>1. Max(s) = k + 1 /\ s \ {Max(s)} \in SUBSET (1..k)
        BY <3>1, LastPlace
      <4>2. s \ {Max(s)} \in D /\ k + 1 \notin s \ {Max(s)}
        BY <4>1
      <4>3. g[s \ {Max(s)}] = h[s \ {Max(s)}]
        BY <4>2
      <4> QED BY <3>1, <4>1, <4>3
    <3>2. CASE k + 1 \notin s
      <4>1. s \in SUBSET (1..k) /\ s \ {Max(s)} \in SUBSET (1..k)
        <5>1. \A x \in s : x \in 1..k
          BY <3>2
        <5> QED BY <5>1
      <4>2. s \ {Max(s)} \in D /\ k + 1 \notin s \ {Max(s)}
        BY <4>1
      <4>3. g[s] = h[s] /\ g[s \ {Max(s)}] = h[s \ {Max(s)}]
        BY <3>2, <4>2
      <4>4. h[s] = IF s = {} THEN sum ELSE Taken(packets[Max(s)], ch, h[s \ {Max(s)}])
        BY <2>1, <4>1 DEF Folds
      <4> QED BY <4>3, <4>4
    <3> QED BY <3>1, <3>2
  <2>3. g = [s \in D |-> g[s]]
    OBVIOUS
  <2> HIDE DEF g
  <2>4. Folds(g, k + 1, packets, ch, sum)
    BY <2>2, <2>3 DEF Folds
  <2> QED BY <2>4
<1> HIDE DEF S
<1>3. Nat \subseteq S
  BY <1>1, <1>2, EveryNumber
<1> QED BY <1>3 DEF S

LEMMA FoldsOnce ==
  ASSUME NEW n \in Nat, NEW packets, NEW ch, NEW sum, NEW g, NEW h,
         Folds(g, n, packets, ch, sum), Folds(h, n, packets, ch, sum)
  PROVE  g = h
<1> DEFINE S == {k \in Nat : k <= n => \A s \in SUBSET (1..k) : g[s] = h[s]}
<1>0. \A s \in SUBSET (1..n) :
        /\ g[s] = IF s = {} THEN sum ELSE Taken(packets[Max(s)], ch, g[s \ {Max(s)}])
        /\ h[s] = IF s = {} THEN sum ELSE Taken(packets[Max(s)], ch, h[s \ {Max(s)}])
  BY DEF Folds
<1>1. 0 \in S
  <2>1. \A s \in SUBSET (1..0) : s = {} /\ s \in SUBSET (1..n)
    OBVIOUS
  <2> QED BY <1>0, <2>1
<1>2. ASSUME NEW k \in Nat, k \in S PROVE k + 1 \in S
  <2> SUFFICES ASSUME k + 1 <= n, NEW s \in SUBSET (1..(k + 1)) PROVE g[s] = h[s]
    OBVIOUS
  <2>1. \A t \in SUBSET (1..k) : g[t] = h[t]
    BY <1>2
  <2>2. CASE k + 1 \in s
    <3>1. s \ {Max(s)} \in SUBSET (1..k) /\ s \in SUBSET (1..n) /\ s # {}
      BY <2>2, LastPlace
    <3> QED BY <1>0, <2>1, <3>1
  <2>3. CASE k + 1 \notin s
    <3>1. \A x \in s : x \in 1..k
      BY <2>3
    <3> QED BY <2>1, <3>1
  <2> QED BY <2>2, <2>3
<1> HIDE DEF S
<1>3. n \in S
  BY <1>1, <1>2, EveryNumber
<1>4. \A s \in SUBSET (1..n) : g[s] = h[s]
  <2>1. n <= n
    OBVIOUS
  <2> QED BY <1>3, <2>1 DEF S
<1> QED BY <1>4 DEF Folds

LEMMA AfterFolds ==
  ASSUME NEW packets \in Seq(Packets), NEW ch, NEW sum
  PROVE  \E h : /\ Folds(h, Len(packets), packets, ch, sum)
                /\ After(packets, ch, sum) = h[1..Len(packets)]
<1> DEFINE n == Len(packets)
<1>1. n \in Nat /\ DOMAIN packets = 1..n
  OBVIOUS
<1> HIDE DEF n
<1>2. After(packets, ch, sum) = (CHOOSE h : Folds(h, n, packets, ch, sum))[1..n]
  BY <1>1 DEF After, FoldLeft, MapThenFoldSet, Folds
<1>3. \E h : Folds(h, n, packets, ch, sum)
  BY <1>1, FoldsExist
<1>4. Folds(CHOOSE h : Folds(h, n, packets, ch, sum), n, packets, ch, sum)
  BY <1>3
<1> QED BY <1>2, <1>4 DEF n

\* The sums over the first places.
LEMMA FoldsStep ==
  ASSUME NEW n \in Nat, NEW packets, NEW ch, NEW sum, NEW h, Folds(h, n, packets, ch, sum)
  PROVE  /\ h[1..0] = sum
         /\ \A k \in 1..n : h[1..k] = Taken(packets[k], ch, h[1..(k - 1)])
<1>1. \A s \in SUBSET (1..n) :
        h[s] = IF s = {} THEN sum ELSE Taken(packets[Max(s)], ch, h[s \ {Max(s)}])
  BY DEF Folds
<1>2. 1..0 = {} /\ {} \in SUBSET (1..n)
  OBVIOUS
<1>3. ASSUME NEW k \in 1..n PROVE h[1..k] = Taken(packets[k], ch, h[1..(k - 1)])
  <2> DEFINE s == 1..k
             j == k - 1
  <2>1. j \in Nat /\ k = j + 1 /\ s \in SUBSET (1..(j + 1)) /\ j + 1 \in s
    OBVIOUS
  <2>2. Max(s) = k
    <3> HIDE DEF j, s
    <3> QED BY <2>1, LastPlace
  <2>3. s \ {k} = 1..(k - 1) /\ s # {} /\ s \in SUBSET (1..n)
    OBVIOUS
  <2>4. h[s] = Taken(packets[Max(s)], ch, h[s \ {Max(s)}])
    BY <1>1, <2>3
  <2> QED BY <2>2, <2>3, <2>4
<1> QED BY <1>1, <1>2, <1>3

LEMMA AfterNone ==
  ASSUME NEW ch, NEW sum
  PROVE  After(<<>>, ch, sum) = sum
<1>1. <<>> \in Seq(Packets) /\ Len(<<>>) = 0
  OBVIOUS
<1>2. PICK h : Folds(h, Len(<<>>), <<>>, ch, sum) /\ After(<<>>, ch, sum) = h[1..Len(<<>>)]
  BY <1>1, AfterFolds
<1>3. h[1..0] = sum
  BY <1>1, <1>2, FoldsStep
<1> QED BY <1>1, <1>2, <1>3

\* A packet that joins the queue is taken last.
LEMMA AfterAppend ==
  ASSUME NEW packets \in Seq(Packets), NEW p \in Packets, NEW ch, NEW sum
  PROVE  After(Append(packets, p), ch, sum) = Taken(p, ch, After(packets, ch, sum))
<1> DEFINE n == Len(packets)
           more == Append(packets, p)
<1>1. /\ n \in Nat /\ more \in Seq(Packets) /\ Len(more) = n + 1 /\ more[n + 1] = p
      /\ \A k \in 1..n : more[k] = packets[k]
  OBVIOUS
<1> HIDE DEF n, more
<1>2. PICK h : Folds(h, n, packets, ch, sum) /\ After(packets, ch, sum) = h[1..n]
  BY AfterFolds DEF n
<1>3. PICK g : Folds(g, n + 1, more, ch, sum) /\ After(more, ch, sum) = g[1..(n + 1)]
  BY <1>1, AfterFolds
<1>4. h[1..0] = sum /\ \A k \in 1..n : h[1..k] = Taken(packets[k], ch, h[1..(k - 1)])
  BY <1>1, <1>2, FoldsStep
<1>5. g[1..0] = sum /\ \A k \in 1..(n + 1) : g[1..k] = Taken(more[k], ch, g[1..(k - 1)])
  BY <1>1, <1>3, FoldsStep
<1> DEFINE S == {k \in Nat : k <= n => g[1..k] = h[1..k]}
<1>6. 0 \in S
  BY <1>4, <1>5
<1>7. ASSUME NEW k \in Nat, k \in S PROVE k + 1 \in S
  <2> SUFFICES ASSUME k + 1 <= n PROVE g[1..(k + 1)] = h[1..(k + 1)]
    OBVIOUS
  <2>1. k + 1 \in 1..n /\ k + 1 \in 1..(n + 1) /\ (k + 1) - 1 = k /\ g[1..k] = h[1..k]
    BY <1>1, <1>7
  <2> QED BY <1>1, <1>4, <1>5, <2>1
<1>8. g[1..n] = h[1..n]
  <2> HIDE DEF S
  <2>1. n \in S
    BY <1>1, <1>6, <1>7, EveryNumber
  <2>2. n <= n
    BY <1>1
  <2> QED BY <2>1, <2>2 DEF S
<1>9. n + 1 \in 1..(n + 1) /\ (n + 1) - 1 = n
  BY <1>1
<1>10. g[1..(n + 1)] = Taken(p, ch, g[1..n])
  BY <1>1, <1>5, <1>9
<1> QED BY <1>2, <1>3, <1>8, <1>10 DEF more

\* The first packet of the queue is taken first.
LEMMA AfterTail ==
  ASSUME NEW packets \in Seq(Packets), packets # <<>>, NEW ch, NEW sum
  PROVE  After(packets, ch, sum) = After(Tail(packets), ch, Taken(Head(packets), ch, sum))
<1> DEFINE rest == Tail(packets)
           n == Len(rest)
           first == Taken(Head(packets), ch, sum)
<1>1. /\ rest \in Seq(Packets) /\ n \in Nat /\ Len(packets) = n + 1 /\ packets[1] = Head(packets)
      /\ \A k \in 1..n : rest[k] = packets[k + 1]
  OBVIOUS
<1> HIDE DEF n, rest
<1>2. PICK h : Folds(h, n, rest, ch, first) /\ After(rest, ch, first) = h[1..n]
  BY <1>1, AfterFolds DEF n
<1>3. PICK g : Folds(g, n + 1, packets, ch, sum) /\ After(packets, ch, sum) = g[1..(n + 1)]
  BY <1>1, AfterFolds
<1>4. h[1..0] = first /\ \A k \in 1..n : h[1..k] = Taken(rest[k], ch, h[1..(k - 1)])
  BY <1>1, <1>2, FoldsStep
<1>5. g[1..0] = sum /\ \A k \in 1..(n + 1) : g[1..k] = Taken(packets[k], ch, g[1..(k - 1)])
  BY <1>1, <1>3, FoldsStep
<1> DEFINE S == {k \in Nat : k <= n => g[1..(k + 1)] = h[1..k]}
<1>6. 0 \in S
  <2>1. 1 \in 1..(n + 1) /\ 1 - 1 = 0 /\ 0 + 1 = 1
    BY <1>1
  <2> QED BY <1>1, <1>4, <1>5, <2>1
<1>7. ASSUME NEW k \in Nat, k \in S PROVE k + 1 \in S
  <2> SUFFICES ASSUME k + 1 <= n PROVE g[1..((k + 1) + 1)] = h[1..(k + 1)]
    OBVIOUS
  <2>1. /\ k + 1 \in 1..n /\ (k + 1) + 1 \in 1..(n + 1)
        /\ (k + 1) - 1 = k /\ ((k + 1) + 1) - 1 = k + 1 /\ g[1..(k + 1)] = h[1..k]
    BY <1>1, <1>7
  <2> QED BY <1>1, <1>4, <1>5, <2>1
<1>8. g[1..(n + 1)] = h[1..n]
  <2> HIDE DEF S
  <2>1. n \in S
    BY <1>1, <1>6, <1>7, EveryNumber
  <2>2. n <= n
    BY <1>1
  <2> QED BY <2>1, <2>2 DEF S
<1> QED BY <1>2, <1>3, <1>8 DEF rest

LEMMA TakenType ==
  ASSUME NEW p \in Packets, NEW ch \in Channels, NEW sum \in Int
  PROVE  Taken(p, ch, sum) \in Int
<1>1. p.change[ch].value \in Int
  BY CoyoteAssumption DEF Packets, Changes, Deltas
<1> QED BY <1>1 DEF Taken

LEMMA AfterType ==
  ASSUME NEW packets \in Seq(Packets), NEW ch \in Channels, NEW sum \in Int
  PROVE  After(packets, ch, sum) \in Int
<1> DEFINE n == Len(packets)
<1>1. n \in Nat /\ \A k \in 1..n : packets[k] \in Packets
  OBVIOUS
<1> HIDE DEF n
<1>2. PICK h : Folds(h, n, packets, ch, sum) /\ After(packets, ch, sum) = h[1..n]
  BY AfterFolds DEF n
<1>3. h[1..0] = sum /\ \A k \in 1..n : h[1..k] = Taken(packets[k], ch, h[1..(k - 1)])
  BY <1>1, <1>2, FoldsStep
<1> DEFINE S == {k \in Nat : k <= n => h[1..k] \in Int}
<1>4. 0 \in S
  BY <1>3
<1>5. ASSUME NEW k \in Nat, k \in S PROVE k + 1 \in S
  <2> SUFFICES ASSUME k + 1 <= n PROVE h[1..(k + 1)] \in Int
    OBVIOUS
  <2>1. k + 1 \in 1..n /\ (k + 1) - 1 = k /\ h[1..k] \in Int
    BY <1>1, <1>5
  <2>2. packets[k + 1] \in Packets
    BY <1>1, <2>1
  <2>3. Taken(packets[k + 1], ch, h[1..k]) \in Int
    BY <2>1, <2>2, TakenType
  <2> QED BY <1>3, <2>1, <2>3
<1>6. h[1..n] \in Int
  <2> HIDE DEF S
  <2>1. n \in S
    BY <1>1, <1>4, <1>5, EveryNumber
  <2>2. n <= n
    BY <1>1
  <2> QED BY <2>1, <2>2 DEF S
<1> QED BY <1>2, <1>6

-----------------------------------------------------------------------------
(* Nothing that was asked for is forgotten. *)

\* What the session owes and what is on its way, of one channel.
Owed(gate, packets, ch, sum) ==
  gate.pending[ch] + (IF gate.zero[ch] THEN 0 ELSE After(packets, ch, sum))

\* Without a connection nothing is owed, on its way or taken: a zero asked for then starts
\* the books over from there.
IdleLedger ==
  ~session.connected =>
    /\ link = <<>>
    /\ \A ch \in Channels : /\ applied[ch] = 0 /\ session.gate.pending[ch] = 0
                            /\ ~session.gate.zero[ch]

LedgerInv == TypeOK /\ NothingForgotten /\ IdleLedger

\* Per channel: the packet carries nothing, the zero, or all that waits.
LEMMA PacketCarries ==
  ASSUME NEW gate \in Gates, NEW ch \in Channels
  PROVE  \/ /\ PacketChange(gate)[ch].mode = "NoChange"
            /\ ApplyToPacket(gate).pending[ch] = gate.pending[ch]
            /\ ApplyToPacket(gate).zero[ch] = gate.zero[ch]
         \/ /\ PacketChange(gate)[ch].mode = "Absolute"
            /\ ApplyToPacket(gate).pending[ch] = gate.pending[ch]
            /\ gate.zero[ch] /\ ~ApplyToPacket(gate).zero[ch]
         \/ /\ PacketChange(gate)[ch].mode = "Relative"
            /\ PacketChange(gate)[ch].value = gate.pending[ch]
            /\ ApplyToPacket(gate).pending[ch] = 0
            /\ ~gate.zero[ch] /\ ~ApplyToPacket(gate).zero[ch]
<1> DEFINE c == PacketChange(gate)[ch]
           g == ApplyToPacket(gate)
<1>1. gate.pending[ch] \in Deltas
  BY DEF Gates
<1>2. \/ c = NoChange
      \/ c = ToZero /\ gate.zero[ch]
      \/ c = [mode |-> "Relative", value |-> gate.pending[ch]] /\ ~gate.zero[ch]
  <2>1. ClampToStrengthRange(gate.pending[ch]) = gate.pending[ch]
    BY <1>1, CoyoteAssumption DEF ClampToStrengthRange, Deltas
  <2> QED BY <2>1 DEF PacketChange, ChannelChange
<1>3. /\ g.pending[ch] = IF c.mode = "Relative" THEN 0 ELSE gate.pending[ch]
      /\ g.zero[ch] = IF c.mode = "Absolute" THEN FALSE ELSE gate.zero[ch]
  BY DEF ApplyToPacket, Gates
<1> HIDE DEF c, g
<1>4. CASE c = NoChange
  BY <1>3, <1>4 DEF NoChange, c, g
<1>5. CASE c = ToZero /\ gate.zero[ch]
  BY <1>3, <1>5 DEF ToZero, c, g
<1>6. CASE c = [mode |-> "Relative", value |-> gate.pending[ch]] /\ ~gate.zero[ch]
  BY <1>3, <1>6 DEF c, g
<1> QED BY <1>2, <1>4, <1>5, <1>6

\* A packet moves from what is owed to what is on its way, and changes the sum of neither.
LEMMA PacketMoves ==
  ASSUME NEW gate \in Gates, NEW packets \in Seq(Packets), NEW p \in Packets,
         p.change = PacketChange(gate), NEW ch \in Channels, NEW sum \in Int
  PROVE  Owed(ApplyToPacket(gate), Append(packets, p), ch, sum) = Owed(gate, packets, ch, sum)
<1> DEFINE a == After(packets, ch, sum)
           g == ApplyToPacket(gate)
<1>1. a \in Int /\ gate.pending[ch] \in Int
  BY AfterType, CoyoteAssumption DEF Gates, Deltas
<1>2. After(Append(packets, p), ch, sum) = Taken(p, ch, a)
  BY AfterAppend
<1> HIDE DEF a
<1>3. CASE p.change[ch].mode = "NoChange"
  BY <1>1, <1>2, <1>3, PacketCarries DEF Owed, Taken, a
<1>4. CASE p.change[ch].mode = "Absolute"
  BY <1>1, <1>2, <1>4, PacketCarries DEF Owed, Taken, a
<1>5. CASE p.change[ch].mode = "Relative"
  BY <1>1, <1>2, <1>5, PacketCarries DEF Owed, Taken, a
<1> QED BY <1>3, <1>4, <1>5, PacketCarries

LEMMA LedgerInit == Init => NothingForgotten /\ IdleLedger
<1> SUFFICES ASSUME Init PROVE NothingForgotten /\ IdleLedger
  OBVIOUS
<1>1. /\ link = <<>> /\ session.gate.pending = Zeros /\ session.gate.zero = Nothing
      /\ wanted = Zeros /\ applied = Zeros
  BY DEF Init, SessionInit, GateInit
<1>2. \A ch \in Channels : After(link, ch, applied[ch]) = 0
  BY <1>1, AfterNone DEF Zeros
<1> QED BY <1>1, <1>2 DEF NothingForgotten, IdleLedger, Zeros, Nothing

\* Nothing is asked for, and what the session owes and what is on its way keep their sum.
LEMMA LedgerKept ==
  ASSUME TypeOK, NothingForgotten, UNCHANGED <<wanted, saturated>>,
         losses' = 0 => losses = 0 /\ \A ch \in Channels :
           Owed(session'.gate, link', ch, applied'[ch]) = Owed(session.gate, link, ch, applied[ch])
  PROVE  NothingForgotten'
BY DEF NothingForgotten, Owed

\* The books of an untouched link and gate.
LEMMA LedgerStays ==
  ASSUME TypeOK, NothingForgotten, IdleLedger, UNCHANGED <<wanted, saturated, link, applied, losses>>,
         session'.gate.pending = session.gate.pending, session'.gate.zero = session.gate.zero,
         session'.connected = session.connected
  PROVE  NothingForgotten' /\ IdleLedger'
BY DEF NothingForgotten, IdleLedger

\* A fresh connection, or none: nothing is owed and nothing on its way changes a strength.
LEMMA LedgerRestarts ==
  ASSUME TypeOK, Connect \/ Disconnect
  PROVE  NothingForgotten' /\ IdleLedger'
<1>1. /\ session'.gate.pending = Zeros /\ session'.gate.zero = Nothing
      /\ wanted' = Zeros /\ applied' = Zeros
  <2>1. session'.gate = GateInit(session.gate.feedback)
    BY DEF Connect, Disconnect, OnConnected, OnDisconnected, SessionRestart, TypeOK, Sessions
  <2> QED BY <2>1 DEF Connect, Disconnect, GateInit
<1>2. \A ch \in Channels : After(link', ch, 0) = 0
  <2>1. CASE Connect
    <3>1. Bf(session) \in Packets /\ link' = Append(<<>>, Bf(session)) /\ <<>> \in Seq(Packets)
      BY <2>1, WrittenType DEF Connect, TypeOK
    <3>2. \A ch \in Channels : Taken(Bf(session), ch, 0) = 0
      BY DEF Taken, Bf, NoChange
    <3> DEFINE p == Bf(session)
    <3> HIDE DEF p
    <3>3. \A ch \in Channels : After(Append(<<>>, p), ch, 0) = Taken(p, ch, After(<<>>, ch, 0))
      BY <3>1, AfterAppend DEF p
    <3> QED BY <3>1, <3>2, <3>3, AfterNone DEF p
  <2>2. CASE Disconnect
    BY <2>2, AfterNone DEF Disconnect
  <2> QED BY <2>1, <2>2
<1>3. NothingForgotten'
  BY <1>1, <1>2 DEF NothingForgotten, Zeros, Nothing
<1>4. IdleLedger'
  BY <1>1 DEF IdleLedger, Zeros, Nothing, Connect, Disconnect, OnConnected, OnDisconnected,
              SessionRestart, TypeOK, Sessions
<1> QED BY <1>3, <1>4

LEMMA TickLedger ==
  ASSUME TypeOK, NothingForgotten, IdleLedger, NEW e \in Delays, TickBy(e)
  PROVE  NothingForgotten' /\ IdleLedger'
<1>1. /\ session \in Sessions /\ session.gate \in Gates /\ link \in Seq(Packets)
      /\ \A ch \in Channels : applied[ch] \in Int
      /\ losses \in Nat /\ session.connected
  BY DEF TypeOK, Sessions, TickBy
<1>2. UNCHANGED <<wanted, saturated, applied>> /\ session' = Tick(session, e)
  BY DEF TickBy, ledger
<1>3. CASE ~Writes(session, e)
  <2>1. session'.gate = session.gate /\ session'.connected = session.connected
    BY <1>1, <1>2, <1>3 DEF Tick, Sessions
  <2>2. UNCHANGED <<link, losses>>
    BY <1>3 DEF TickBy
  <2> QED BY <1>2, <2>1, <2>2, LedgerStays
<1>4. CASE Writes(session, e)
  <2>1. session'.gate = ApplyToPacket(session.gate) /\ session'.connected
    BY <1>1, <1>2, <1>4 DEF Tick, Sessions, Writes
  <2> DEFINE p == B0(session)
  <2>2. p \in Packets /\ p.change = PacketChange(session.gate) /\ p.kind = "B0"
    BY <1>1, WrittenType DEF B0
  <2>3. Write(p)
    BY <1>4 DEF TickBy
  <2> HIDE DEF p
  <2>4. CASE Plain(p) /\ UNCHANGED <<link, losses>>
    <3>1. \A ch \in Channels : PacketChange(session.gate)[ch].mode = "NoChange"
      BY <2>2, <2>4 DEF Plain, NoChange
    <3>2. \A ch \in Channels : /\ session'.gate.pending[ch] = session.gate.pending[ch]
                              /\ session'.gate.zero[ch] = session.gate.zero[ch]
      BY <1>1, <2>1, <3>1, PacketCarries
    <3> QED BY <1>1, <1>2, <2>1, <2>4, <3>2 DEF NothingForgotten, IdleLedger
  <2>5. CASE link' = Append(link, p) /\ UNCHANGED losses
    <3>1. \A ch \in Channels :
            Owed(session'.gate, link', ch, applied'[ch]) = Owed(session.gate, link, ch, applied[ch])
      BY <1>1, <1>2, <2>1, <2>2, <2>5, PacketMoves
    <3>2. NothingForgotten'
      BY <1>2, <2>5, <3>1, LedgerKept
    <3> QED BY <2>1, <3>2 DEF IdleLedger
  <2>6. CASE losses' = losses + 1
    BY <1>1, <2>1, <2>6 DEF NothingForgotten, IdleLedger
  <2> QED BY <2>3, <2>4, <2>5, <2>6 DEF Write
<1> QED BY <1>3, <1>4

\* What the user asks for is entered on both sides.
LEMMA AskLedger ==
  ASSUME TypeOK, NothingForgotten, IdleLedger,
         UserAdjusts \/ UserZeroes \/ UserPlays \/ UserClears
  PROVE  NothingForgotten' /\ IdleLedger'
<1>1. UNCHANGED <<link, applied, losses>>
  BY DEF UserAdjusts, UserZeroes, UserPlays, UserClears, Ask
<1>2. /\ session \in Sessions /\ session.gate \in Gates /\ link \in Seq(Packets)
      /\ applied \in [Channels -> Int] /\ wanted \in [Channels -> Int] /\ saturated \in BOOLEAN
  BY DEF TypeOK, Sessions
<1>3. \A ch \in Channels : /\ After(link, ch, applied[ch]) \in Int
                          /\ session.gate.pending[ch] \in Int
  BY <1>2, AfterType, CoyoteAssumption DEF Gates, Deltas
<1>4. CASE UserAdjusts
  <2>1. PICK ch \in Channels, d \in Requests :
          /\ session' = AdjustStrength(session, ch, d)
          /\ IF session.connected
             THEN /\ wanted' = [wanted EXCEPT ![ch] = @ + d]
                  /\ saturated' = (saturated \/ session'.gate.pending[ch] # session.gate.pending[ch] + d)
             ELSE UNCHANGED <<wanted, saturated>>
    BY <1>4 DEF UserAdjusts, Ask
  <2>2. CASE ~session.connected
    <3>1. session' = session
      BY <2>1, <2>2 DEF AdjustStrength
    <3> QED BY <1>1, <2>1, <2>2, <3>1, LedgerStays
  <2>3. CASE session.connected
    <3>1. /\ session'.connected /\ session'.gate.zero = session.gate.zero
          /\ \A c \in Channels : c # ch => session'.gate.pending[c] = session.gate.pending[c]
      BY <1>2, <2>1, <2>3 DEF AdjustStrength, Adjust, Sessions, Gates
    <3>2. d \in Int /\ wanted' = [wanted EXCEPT ![ch] = @ + d]
      BY <2>1, <2>3, LinkAssumption
    <3>3. ~saturated' => ~saturated /\ session'.gate.pending[ch] = session.gate.pending[ch] + d
      BY <2>1, <2>3
    <3>4. ASSUME losses' = 0, ~saturated', NEW c \in Channels
          PROVE  wanted'[c] = Owed(session'.gate, link', c, applied'[c])
      <4>1. wanted[c] = Owed(session.gate, link, c, applied[c])
        BY <1>1, <3>3, <3>4 DEF NothingForgotten, Owed
      <4>2. session'.gate.zero[c] = session.gate.zero[c]
        BY <3>1
      <4>3. CASE c # ch
        BY <1>1, <1>2, <3>1, <3>2, <4>1, <4>2, <4>3 DEF Owed
      <4>4. CASE c = ch
        <5>1. wanted'[c] = wanted[c] + d /\ session'.gate.pending[c] = session.gate.pending[c] + d
          BY <1>2, <3>2, <3>3, <3>4, <4>4
        <5> QED BY <1>1, <1>2, <1>3, <3>2, <4>1, <4>2, <5>1 DEF Owed
      <4> QED BY <4>3, <4>4
    <3> QED BY <3>1, <3>4 DEF NothingForgotten, IdleLedger, Owed
  <2> QED BY <2>2, <2>3
<1>5. CASE UserZeroes
  <2>1. PICK ch \in Channels :
          /\ session' = SetStrengthZero(session, ch)
          /\ wanted' = [wanted EXCEPT ![ch] = 0] /\ UNCHANGED saturated
    BY <1>5 DEF UserZeroes, Ask
  <2>2. CASE ~session.connected
    <3>1. session' = session
      BY <2>1, <2>2 DEF SetStrengthZero
    <3>2. \A c \in Channels : Owed(session.gate, link, c, applied[c]) = 0
      BY <2>2, AfterNone DEF IdleLedger, Owed
    <3>3. \A c \in Channels : wanted'[c] \in {wanted[c], 0}
      BY <1>2, <2>1
    <3>4. NothingForgotten'
      BY <1>1, <2>1, <3>1, <3>2, <3>3 DEF NothingForgotten, Owed
    <3> QED BY <1>1, <3>1, <3>4 DEF IdleLedger
  <2>3. CASE session.connected
    <3>1. /\ session'.connected /\ session'.gate.pending[ch] = 0 /\ session'.gate.zero[ch]
          /\ \A c \in Channels : c # ch =>
               /\ session'.gate.pending[c] = session.gate.pending[c]
               /\ session'.gate.zero[c] = session.gate.zero[c]
      BY <1>2, <2>1, <2>3 DEF SetStrengthZero, RequestZero, Sessions, Gates
    <3>2. \A c \in Channels : wanted'[c] = IF c = ch THEN 0 ELSE wanted[c]
      BY <1>2, <2>1
    <3> QED BY <1>1, <2>1, <3>1, <3>2 DEF NothingForgotten, IdleLedger
  <2> QED BY <2>2, <2>3
<1>6. CASE UserPlays \/ UserClears
  <2>1. UNCHANGED <<wanted, saturated>> /\ session'.gate = session.gate
        /\ session'.connected = session.connected
    BY <1>2, <1>6 DEF UserPlays, UserClears, Ask, SetWaveform, ClearWaveform, Sessions
  <2> QED BY <1>1, <2>1, LedgerStays
<1> QED BY <1>4, <1>5, <1>6

\* The device takes from the link what it adds to its own sum.
LEMMA ReadLedger ==
  ASSUME TypeOK, NothingForgotten, IdleLedger, DeviceReads
  PROVE  NothingForgotten' /\ IdleLedger'
<1>1. /\ link # <<>> /\ link' = Tail(link) /\ UNCHANGED <<session, wanted, saturated, losses>>
      /\ applied' = [ch \in Channels |-> Taken(Head(link), ch, applied[ch])]
      /\ link \in Seq(Packets)
  BY DEF DeviceReads, budget, TypeOK
<1>2. \A ch \in Channels : After(link', ch, applied'[ch]) = After(link, ch, applied[ch])
  BY <1>1, AfterTail
<1>3. NothingForgotten'
  BY <1>1, <1>2 DEF NothingForgotten
<1> QED BY <1>1, <1>3 DEF IdleLedger

LEMMA LedgerInductive ==
  LedgerInv /\ [Next]_vars => LedgerInv'
<1> SUFFICES ASSUME TypeOK, NothingForgotten, IdleLedger, [Next]_vars
             PROVE  NothingForgotten' /\ IdleLedger'
  BY NextType DEF LedgerInv
<1>1. CASE Connect \/ Disconnect
  BY <1>1, LedgerRestarts
<1>2. CASE Step
  BY <1>2, TickLedger DEF Step
<1>3. CASE UserAdjusts \/ UserZeroes \/ UserPlays \/ UserClears
  BY <1>3, AskLedger
<1>4. CASE DeviceReads
  BY <1>4, ReadLedger
<1>5. CASE WheelTurns \/ NotificationArrives \/ UNCHANGED vars
  <2>1. UNCHANGED <<link, applied, wanted, saturated, losses>>
    BY <1>5 DEF WheelTurns, NotificationArrives, vars, ledger, budget
  <2>2. /\ session'.gate.pending = session.gate.pending /\ session'.gate.zero = session.gate.zero
        /\ session'.connected = session.connected
    <3>1. CASE NotificationArrives
      <4>1. session'.gate = OnB1(session.gate, Head(air)) /\ session'.connected = session.connected
        BY <3>1 DEF NotificationArrives, TypeOK, Sessions
      <4>2. session.gate \in Gates
        BY DEF TypeOK, Sessions
      <4> QED BY <4>1, <4>2 DEF OnB1, Gates
    <3> QED BY <1>5, <3>1 DEF WheelTurns, vars
  <2> QED BY <2>1, <2>2, LedgerStays
<1>6. CASE PacketLost \/ NotificationLost
  <2>1. losses' # 0 /\ UNCHANGED <<session, applied>> /\ (link # <<>> \/ UNCHANGED link)
    BY <1>6 DEF PacketLost, NotificationLost, TypeOK, ledger
  <2> QED BY <2>1 DEF NothingForgotten, IdleLedger
<1> QED BY <1>1, <1>2, <1>3, <1>4, <1>5, <1>6 DEF Next

(* For every range and any number of calls, as long as nothing is lost and no sum met the
   ends of its range, what the device took, what is on its way and what is owed add up to
   what the user asked for (coyote_v3_strength.c:39-61, 70-83). *)
THEOREM NoRequestForgotten == Spec => []NothingForgotten
<1>1. Init => LedgerInv
  BY InitType, LedgerInit DEF LedgerInv
<1>2. LedgerInv => NothingForgotten
  BY DEF LedgerInv
<1> QED BY <1>1, <1>2, LedgerInductive, PTL DEF Spec
=============================================================================
