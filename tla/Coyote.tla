------------------------------- MODULE Coyote -------------------------------
(***************************************************************************)
(* The strength gate (coyote_v3_strength.c) and the 100 ms session that    *)
(* drives a Coyote V3 device through it (coyote_v3_session.c), as          *)
(* functions of the two C structures.  A strength is a number, a waveform  *)
(* the number of its entries and the place the playback has reached; the   *)
(* byte layout is left out.  CoyoteLink and BleSession build on this.      *)
(***************************************************************************)
EXTENDS Integers

CONSTANTS
  StrengthMax,    \* DGLAB_COYOTE_V3_STRENGTH_MAX, 200
  SequenceMax,    \* DGLAB_COYOTE_V3_SEQUENCE_MAX, 15
  Capacity,       \* DGLAB_COYOTE_V3_WAVEFORM_CAPACITY, 128
  Slots,          \* DGLAB_COYOTE_V3_WAVEFORM_SLOTS, 4
  Interval        \* DGLAB_COYOTE_V3_OUTPUT_INTERVAL_MS, in the model's ticks

ASSUME CoyoteAssumption ==
  /\ StrengthMax \in Nat \ {0} /\ SequenceMax \in Nat \ {0}
  /\ Capacity \in Nat /\ Slots \in Nat \ {0} /\ Interval \in Nat \ {0}

Channels == {"A", "B"}
Strengths == 0..StrengthMax
Deltas == (-StrengthMax)..StrengthMax
Sequences == 0..SequenceMax
Limits == [Channels -> Strengths]

Zeros == [ch \in Channels |-> 0]
Nothing == [ch \in Channels |-> FALSE]

-----------------------------------------------------------------------------
(* The strength gate. *)

Gates == [feedback : {"Required", "None"}, pending : [Channels -> Deltas],
          zero : [Channels -> BOOLEAN], waiting : BOOLEAN, sequence : Sequences,
          inflight : Sequences, reported : Limits]

\* What a packet asks of one channel: a relative change, an absolute zero, or nothing.
Changes == [mode : {"NoChange", "Relative", "Absolute"}, value : Deltas]
NoChange == [mode |-> "NoChange", value |-> 0]
ToZero == [mode |-> "Absolute", value |-> 0]

ClampToStrengthRange(v) ==
  CASE v > StrengthMax -> StrengthMax
    [] v < -StrengthMax -> -StrengthMax
    [] OTHER -> v

NextSequence(current) == IF current < 1 \/ current >= SequenceMax THEN 1 ELSE current + 1

GateInit(feedback) ==
  [feedback |-> feedback, pending |-> Zeros, zero |-> Nothing, waiting |-> FALSE,
   sequence |-> 0, inflight |-> 0, reported |-> Zeros]

Adjust(gate, ch, delta) ==
  [gate EXCEPT !.pending[ch] = ClampToStrengthRange(gate.pending[ch] + delta)]

RequestZero(gate, ch) == [gate EXCEPT !.pending[ch] = 0, !.zero[ch] = TRUE]

\* A change is in flight: the strength stays untouched until the device confirms it.
Closed(gate) == gate.feedback = "Required" /\ gate.waiting

ChannelChange(gate, ch) ==
  CASE gate.zero[ch] -> ToZero
    [] ~gate.zero[ch] /\ gate.pending[ch] # 0 ->
         [mode |-> "Relative", value |-> ClampToStrengthRange(gate.pending[ch])]
    [] OTHER -> NoChange

PacketChange(gate) ==
  [ch \in Channels |-> IF Closed(gate) THEN NoChange ELSE ChannelChange(gate, ch)]

Changing(gate) == \E ch \in Channels : PacketChange(gate)[ch] # NoChange

\* The sequence number the next packet carries.
PacketSequence(gate) ==
  IF Changing(gate) /\ gate.feedback = "Required" THEN NextSequence(gate.sequence) ELSE 0

\* Mutant: a zero takes the changes asked for after it along.
ApplyForgetful(gate) ==
  LET taken == [gate EXCEPT
        !.pending = [ch \in Channels |->
          IF PacketChange(gate)[ch] # NoChange THEN 0 ELSE gate.pending[ch]],
        !.zero = [ch \in Channels |->
          IF PacketChange(gate)[ch].mode = "Absolute" THEN FALSE ELSE gate.zero[ch]]]
  IN  IF PacketSequence(gate) = 0 THEN taken
      ELSE [taken EXCEPT !.sequence = PacketSequence(gate),
                         !.inflight = PacketSequence(gate), !.waiting = TRUE]

\* The gate once that packet is built: what it carries is no longer owed.
ApplyToPacket(gate) ==
  LET taken == [gate EXCEPT
        !.pending = [ch \in Channels |->
          IF PacketChange(gate)[ch].mode = "Relative" THEN 0 ELSE gate.pending[ch]],
        !.zero = [ch \in Channels |->
          IF PacketChange(gate)[ch].mode = "Absolute" THEN FALSE ELSE gate.zero[ch]]]
  IN  IF PacketSequence(gate) = 0 THEN taken
      ELSE [taken EXCEPT !.sequence = PacketSequence(gate),
                         !.inflight = PacketSequence(gate), !.waiting = TRUE]

\* Mutant: any notification opens the gate.
OnAnyB1(gate, b1) ==
  [gate EXCEPT !.reported = b1.strength, !.waiting = FALSE, !.inflight = 0]

\* Mutant: the confirmation is noted and the gate stays closed.
OnB1Closed(gate, b1) == [gate EXCEPT !.reported = b1.strength, !.inflight = 0]

\* A notification: its strengths are noted, its number opens the gate if it is the awaited one.
OnB1(gate, b1) ==
  LET noted == [gate EXCEPT !.reported = b1.strength]
  IN  IF b1.sequence = 0 \/ ~gate.waiting \/ b1.sequence # gate.inflight THEN noted
      ELSE [noted EXCEPT !.waiting = FALSE, !.inflight = 0]

-----------------------------------------------------------------------------
(* The session. *)

Waveforms == [count : 0..Capacity, position : 0..Capacity]
Sessions == [connected : BOOLEAN, elapsed : 0..(Interval - 1), limits : Limits,
             gate : Gates, wave : [Channels -> Waveforms]]

SessionInit(limits, feedback) ==
  [connected |-> FALSE, elapsed |-> 0, limits |-> limits, gate |-> GateInit(feedback),
   wave |-> [ch \in Channels |-> [count |-> 0, position |-> 0]]]

Rewound(wave) == [ch \in Channels |-> [wave[ch] EXCEPT !.position = 0]]

\* Connected or not, the gate and the playback start over; a connect also writes BF.
SessionRestart(session, connected) ==
  [session EXCEPT !.connected = connected, !.elapsed = 0,
                  !.gate = GateInit(session.gate.feedback), !.wave = Rewound(session.wave)]
OnConnected(session) == SessionRestart(session, TRUE)
OnDisconnected(session) == SessionRestart(session, FALSE)

AdjustStrength(session, ch, delta) ==
  IF session.connected THEN [session EXCEPT !.gate = Adjust(session.gate, ch, delta)]
  ELSE session
SetStrengthZero(session, ch) ==
  IF session.connected THEN [session EXCEPT !.gate = RequestZero(session.gate, ch)]
  ELSE session

SetWaveform(session, ch, count) ==
  IF count \in 1..Capacity
  THEN [session EXCEPT !.wave[ch] = [count |-> count, position |-> 0]] ELSE session
ClearWaveform(session, ch) ==
  [session EXCEPT !.wave[ch] = [count |-> 0, position |-> 0]]

\* One packet's worth of a waveform: a repetition starts on a packet boundary, and what
\* it leaves of its last packet is padding.
FillChannelWaveform(w) ==
  IF w.count = 0 THEN w
  ELSE LET from == IF w.position >= w.count THEN 0 ELSE w.position
       IN  [w EXCEPT !.position = IF from + Slots > w.count THEN w.count ELSE from + Slots]

\* A tick writes a packet when an interval has passed; missed intervals are dropped.
Writes(session, elapsed) == session.connected /\ session.elapsed + elapsed >= Interval

Tick(session, elapsed) ==
  CASE ~session.connected -> session
    [] session.connected /\ ~Writes(session, elapsed) ->
         [session EXCEPT !.elapsed = session.elapsed + elapsed]
    [] OTHER -> [session EXCEPT
         !.elapsed = (session.elapsed + elapsed - Interval) % Interval,
         !.gate = ApplyToPacket(session.gate),
         !.wave = [ch \in Channels |-> FillChannelWaveform(session.wave[ch])]]

-----------------------------------------------------------------------------
(* What crosses the link. *)

B0(session) == [kind |-> "B0", sequence |-> PacketSequence(session.gate),
                change |-> PacketChange(session.gate), limits |-> Zeros]
Bf(session) == [kind |-> "BF", sequence |-> 0,
                change |-> [ch \in Channels |-> NoChange], limits |-> session.limits]
Packets == [kind : {"B0", "BF"}, sequence : Sequences, change : [Channels -> Changes],
            limits : Limits]
Notifications == [sequence : Sequences, strength : Limits]

\* The device (external, as docs/dglab-protocol.md describes it): a ceiling per channel,
\* a strength under it.
Devices == [strength : Limits, limits : Limits]
Within(v, limit) == CASE v < 0 -> 0 [] v > limit -> limit [] OTHER -> v
Changed(device, change) ==
  [ch \in Channels |->
     CASE change[ch].mode = "Absolute" -> Within(change[ch].value, device.limits[ch])
       [] change[ch].mode = "Relative" ->
            Within(device.strength[ch] + change[ch].value, device.limits[ch])
       [] OTHER -> device.strength[ch]]
DeviceTakes(device, packet) ==
  IF packet.kind = "BF"
  THEN [limits |-> packet.limits,
        strength |-> [ch \in Channels |-> Within(device.strength[ch], packet.limits[ch])]]
  ELSE [device EXCEPT !.strength = Changed(device, packet.change)]

\* It confirms a numbered packet that changed a strength, and only such a packet.
Confirms(device, packet) ==
  packet.sequence # 0 /\ DeviceTakes(device, packet).strength # device.strength
=============================================================================
