-------------------------- MODULE BleSessionProofs --------------------------
(***************************************************************************)
(* Proofs about BleSession for all ranges, queues, requests and schedules: *)
(* both structures and the session keep their types, the device a session  *)
(* leaves behind is capped at 0, and the strength in the status is what    *)
(* the device has, counting in what is on its way and what is owed.  After *)
(* them, with the same lemmas about folds, the proof about LogRing, the    *)
(* logs of the worker and of the socket server: what a page shows is the   *)
(* log.                                                                    *)
(***************************************************************************)
EXTENDS BleSession, LogRing, WellFoundedInduction, TLAPS

-----------------------------------------------------------------------------
(* The functions of Coyote keep their types; the same lemmas as in CoyoteProofs, which is
   about another module's variables. *)

(* The clamp returns a change the packet's byte can carry. *)
LEMMA ClampType ==
  ASSUME NEW v \in Int
  PROVE  ClampToStrengthRange(v) \in Deltas
BY CoyoteAssumption DEF ClampToStrengthRange, Deltas

(* Sequence numbers run from 1 and never reach the reserved 0. *)
LEMMA NextSequenceRange ==
  ASSUME NEW s \in Sequences
  PROVE  NextSequence(s) \in Sequences /\ NextSequence(s) # 0
BY CoyoteAssumption DEF NextSequence, Sequences

(* What a packet carries is well typed, and so is its number. *)
LEMMA PacketType ==
  ASSUME NEW gate \in Gates
  PROVE  /\ PacketChange(gate) \in [Channels -> Changes]
         /\ PacketSequence(gate) \in Sequences
<1>1. ASSUME NEW ch \in Channels PROVE ChannelChange(gate, ch) \in Changes
  <2>1. gate.pending[ch] \in Int
    BY <1>1, CoyoteAssumption DEF Gates, Deltas
  <2>2. ClampToStrengthRange(gate.pending[ch]) \in Deltas /\ 0 \in Deltas
    BY <2>1, ClampType, CoyoteAssumption DEF Deltas
  <2> QED BY <1>1, <2>2 DEF ChannelChange, Changes, ToZero, NoChange, Gates
<1>2. NoChange \in Changes
  BY CoyoteAssumption DEF NoChange, Changes, Deltas
<1>3. PacketChange(gate) \in [Channels -> Changes]
  BY <1>1, <1>2 DEF PacketChange
<1>4. gate.sequence \in Sequences /\ 0 \in Sequences
  BY CoyoteAssumption DEF Gates, Sequences
<1>5. PacketSequence(gate) \in Sequences
  BY <1>4, NextSequenceRange DEF PacketSequence
<1> QED BY <1>3, <1>5

(* A fresh gate is a gate. *)
LEMMA GateInitType ==
  ASSUME NEW feedback \in {"Required", "None"}
  PROVE  GateInit(feedback) \in Gates
BY CoyoteAssumption
   DEF GateInit, Gates, Zeros, Nothing, Deltas, Sequences, Limits, Strengths

(* The user's calls and a notification keep the gate well typed. *)
LEMMA GateCallsType ==
  ASSUME NEW gate \in Gates
  PROVE  /\ \A ch \in Channels, d \in Int : Adjust(gate, ch, d) \in Gates
         /\ \A ch \in Channels : RequestZero(gate, ch) \in Gates
         /\ \A b1 \in Notifications : OnB1(gate, b1) \in Gates
<1>1. ASSUME NEW ch \in Channels, NEW d \in Int PROVE Adjust(gate, ch, d) \in Gates
  <2>1. gate.pending[ch] + d \in Int
    BY CoyoteAssumption DEF Gates, Deltas
  <2>2. ClampToStrengthRange(gate.pending[ch] + d) \in Deltas
    BY <2>1, ClampType
  <2> QED BY <2>2 DEF Adjust, Gates
<1>2. ASSUME NEW ch \in Channels PROVE RequestZero(gate, ch) \in Gates
  <2>1. 0 \in Deltas
    BY CoyoteAssumption DEF Deltas
  <2> QED BY <2>1 DEF RequestZero, Gates
<1>3. ASSUME NEW b1 \in Notifications PROVE OnB1(gate, b1) \in Gates
  <2>1. 0 \in Sequences
    BY CoyoteAssumption DEF Sequences
  <2> QED BY <2>1 DEF OnB1, Gates, Notifications
<1> QED BY <1>1, <1>2, <1>3

(* Building a packet keeps the gate well typed. *)
LEMMA ApplyType ==
  ASSUME NEW gate \in Gates
  PROVE  ApplyToPacket(gate) \in Gates
<1>1. 0 \in Deltas
  BY CoyoteAssumption DEF Deltas
<1>2. PacketSequence(gate) \in Sequences
  BY PacketType
<1> QED BY <1>1, <1>2 DEF ApplyToPacket, Gates

-----------------------------------------------------------------------------
(* Every call of the session returns a session. *)
LEMMA SessionCallsType ==
  ASSUME NEW s \in Sessions
  PROVE  /\ OnConnected(s) \in Sessions /\ OnDisconnected(s) \in Sessions
         /\ \A ch \in Channels, d \in Int : AdjustStrength(s, ch, d) \in Sessions
         /\ \A ch \in Channels : SetStrengthZero(s, ch) \in Sessions
         /\ \A ch \in Channels, n \in Int : SetWaveform(s, ch, n) \in Sessions
         /\ \A ch \in Channels : ClearWaveform(s, ch) \in Sessions
<1>1. 0 \in 0..Capacity /\ 0 \in 0..(Interval - 1)
  BY CoyoteAssumption
<1>2. s.gate \in Gates /\ s.gate.feedback \in {"Required", "None"}
  BY DEF Sessions, Gates
<1>3. Rewound(s.wave) \in [Channels -> Waveforms]
  BY <1>1 DEF Rewound, Sessions, Waveforms
<1>4. GateInit(s.gate.feedback) \in Gates
  BY <1>2, GateInitType
<1>5. OnConnected(s) \in Sessions /\ OnDisconnected(s) \in Sessions
  BY <1>1, <1>3, <1>4 DEF OnConnected, OnDisconnected, SessionRestart, Sessions
<1>6. ASSUME NEW ch \in Channels, NEW d \in Int PROVE AdjustStrength(s, ch, d) \in Sessions
  <2>1. Adjust(s.gate, ch, d) \in Gates
    BY <1>2, GateCallsType
  <2> QED BY <2>1 DEF AdjustStrength, Sessions
<1>7. ASSUME NEW ch \in Channels PROVE SetStrengthZero(s, ch) \in Sessions
  <2>1. RequestZero(s.gate, ch) \in Gates
    BY <1>2, GateCallsType
  <2> QED BY <2>1 DEF SetStrengthZero, Sessions
<1>8. ASSUME NEW ch \in Channels, NEW n \in Int PROVE SetWaveform(s, ch, n) \in Sessions
  <2>1. n \in 1..Capacity => [count |-> n, position |-> 0] \in Waveforms
    BY <1>1, CoyoteAssumption DEF Waveforms
  <2> QED BY <2>1 DEF SetWaveform, Sessions
<1>9. ASSUME NEW ch \in Channels PROVE ClearWaveform(s, ch) \in Sessions
  <2>1. [count |-> 0, position |-> 0] \in Waveforms
    BY <1>1 DEF Waveforms
  <2> QED BY <2>1 DEF ClearWaveform, Sessions
<1> QED BY <1>5, <1>6, <1>7, <1>8, <1>9

(* The playback never runs past the end of its waveform. *)
LEMMA FillType ==
  ASSUME NEW w \in Waveforms
  PROVE  FillChannelWaveform(w) \in Waveforms
<1>1. w.count \in Nat /\ w.position \in Nat /\ w.count <= Capacity /\ Slots \in Nat
  BY CoyoteAssumption DEF Waveforms
<1> DEFINE from == IF w.position >= w.count THEN 0 ELSE w.position
           to == IF from + Slots > w.count THEN w.count ELSE from + Slots
<1>2. to \in 0..Capacity
  BY <1>1, CoyoteAssumption
<1> QED BY <1>2 DEF FillChannelWaveform, Waveforms

(* A tick keeps the session well typed; what is left of the time is less than an interval. *)
LEMMA TickType ==
  ASSUME NEW s \in Sessions, NEW e \in Nat
  PROVE  Tick(s, e) \in Sessions
<1>1. s.elapsed \in Nat /\ s.elapsed < Interval /\ Interval \in Nat \ {0}
  BY CoyoteAssumption DEF Sessions
<1>2. ~Writes(s, e) /\ s.connected => s.elapsed + e \in 0..(Interval - 1)
  BY <1>1 DEF Writes
<1>3. (s.elapsed + e - Interval) % Interval \in 0..(Interval - 1)
  BY <1>1
<1>4. ApplyToPacket(s.gate) \in Gates
  BY ApplyType DEF Sessions
<1>5. [ch \in Channels |-> FillChannelWaveform(s.wave[ch])] \in [Channels -> Waveforms]
  BY FillType DEF Sessions
<1>6. CASE ~s.connected
  BY <1>6 DEF Tick, Sessions
<1>7. CASE s.connected /\ ~Writes(s, e)
  BY <1>7, <1>2 DEF Tick, Sessions
<1>8. CASE s.connected /\ Writes(s, e)
  BY <1>8, <1>3, <1>4, <1>5 DEF Tick, Sessions
<1> QED BY <1>6, <1>7, <1>8

(* Both kinds of packet are packets. *)
LEMMA WrittenType ==
  ASSUME NEW s \in Sessions
  PROVE  B0(s) \in Packets /\ Bf(s) \in Packets
<1>1. s.gate \in Gates /\ s.limits \in Limits
  BY DEF Sessions
<1>2. PacketChange(s.gate) \in [Channels -> Changes] /\ PacketSequence(s.gate) \in Sequences
  BY <1>1, PacketType
<1>3. Zeros \in Limits /\ 0 \in Sequences /\ NoChange \in Changes
  BY CoyoteAssumption
     DEF Zeros, Limits, Strengths, Sequences, NoChange, Changes, Deltas
<1> QED BY <1>1, <1>2, <1>3 DEF B0, Bf, Packets

(* Whatever the device reads, its strengths stay under its ceilings' range. *)
LEMMA DeviceType ==
  ASSUME NEW d \in Devices, NEW p \in Packets
  PROVE  DeviceTakes(d, p) \in Devices
<1>1. ASSUME NEW v \in Int, NEW limit \in Strengths PROVE Within(v, limit) \in Strengths
  BY CoyoteAssumption DEF Within, Strengths
<1>2. \A ch \in Channels : d.strength[ch] \in Strengths /\ d.limits[ch] \in Strengths
                           /\ p.limits[ch] \in Strengths
  BY DEF Devices, Packets, Limits
<1>3. \A ch \in Channels : d.strength[ch] \in Int /\ p.change[ch].value \in Int
  BY <1>2, CoyoteAssumption DEF Packets, Changes, Deltas, Strengths
<1>4. [ch \in Channels |-> Within(d.strength[ch], p.limits[ch])] \in Limits
  BY <1>1, <1>2, <1>3 DEF Limits
<1>5. Changed(d, p.change) \in Limits
  BY <1>1, <1>2, <1>3 DEF Changed, Limits
<1> QED BY <1>4, <1>5 DEF DeviceTakes, Devices, Packets

-----------------------------------------------------------------------------
(* Folds over queues. *)

(* A set of numbers with 0 and, with each number, the next one. *)
LEMMA EveryNumber ==
  ASSUME NEW S, 0 \in S, \A n \in Nat : n \in S => n + 1 \in S
  PROVE  Nat \subseteq S
<1> DEFINE less == {p \in Nat \X Nat : p[1] < p[2]}
           B == Nat \ S
<1> SUFFICES ASSUME B # {} PROVE FALSE
  OBVIOUS
<1>1. \E m \in B : \A k \in B : ~ (<<k, m>> \in less)
  <2>1. B \subseteq Nat /\ B # {}
    OBVIOUS
  <2> HIDE DEF less, B
  <2>2. IsWellFoundedOn(less, Nat)
    BY NatLessThanWellFounded DEF less, OpToRel
  <2> QED BY <2>1, <2>2, WFMin
<1>2. PICK m \in B : \A k \in B : ~ (<<k, m>> \in less)
  BY <1>1
<1>3. m \in Nat \ {0} /\ m - 1 \in Nat /\ m - 1 + 1 = m
  OBVIOUS
<1>4. m - 1 \in S
  <2>1. <<m - 1, m>> \in less
    BY <1>3
  <2> QED BY <1>2, <1>3, <2>1
<1> QED BY <1>3, <1>4

(* The greatest of some places is one of them, and the last place if that is among them. *)
LEMMA LastPlace ==
  ASSUME NEW n \in Nat, NEW s \in SUBSET (1..(n + 1)), n + 1 \in s
  PROVE  Max(s) = n + 1 /\ s \ {Max(s)} \in SUBSET (1..n)
<1>1. \A x \in s : x \in Int /\ n + 1 >= x
  OBVIOUS
<1>2. Max(s) \in s /\ \A y \in s : Max(s) >= y
  BY <1>1 DEF Max
<1>3. Max(s) = n + 1
  <2>1. Max(s) \in Int /\ n + 1 >= Max(s) /\ Max(s) >= n + 1
    BY <1>1, <1>2
  <2> QED BY <2>1
<1>4. \A x \in s : x # n + 1 => x \in 1..n
  OBVIOUS
<1> QED BY <1>3, <1>4

LEMMA SomePlace ==
  ASSUME NEW n \in Nat
  PROVE  \A s \in SUBSET (1..n) : s # {} => Max(s) \in s
<1> DEFINE S == {k \in Nat : \A s \in SUBSET (1..k) : s # {} => Max(s) \in s}
<1>1. 0 \in S
  <2>1. \A s \in SUBSET (1..0) : s = {}
    OBVIOUS
  <2> QED BY <2>1
<1>2. ASSUME NEW k \in Nat, k \in S PROVE k + 1 \in S
  <2> SUFFICES ASSUME NEW s \in SUBSET (1..(k + 1)), s # {} PROVE Max(s) \in s
    OBVIOUS
  <2>1. CASE k + 1 \in s
    BY <2>1, LastPlace
  <2>2. CASE k + 1 \notin s
    <3>1. \A x \in s : x \in 1..k
      BY <2>2
    <3> QED BY <1>2, <3>1
  <2> QED BY <2>1, <2>2
<1> HIDE DEF S
<1>3. n \in S
  BY <1>1, <1>2, EveryNumber
<1> QED BY <1>3 DEF S

\* A fold with a function step: its values over the sets of places, as the library builds them.
Folds(h, n, step, base, queue) ==
  h = [s \in SUBSET (1..n) |-> IF s = {} THEN base
                               ELSE step[<<h[s \ {Max(s)}], queue[Max(s)]>>]]

LEMMA FoldsExist ==
  ASSUME NEW n \in Nat, NEW step, NEW base, NEW queue
  PROVE  \E h : Folds(h, n, step, base, queue)
<1> DEFINE S == {k \in Nat : \E h : Folds(h, k, step, base, queue)}
<1>1. 0 \in S
  <2> DEFINE h == [s \in SUBSET (1..0) |-> base]
  <2>1. SUBSET (1..0) = {{}}
    OBVIOUS
  <2>2. Folds(h, 0, step, base, queue)
    BY <2>1 DEF Folds
  <2> QED BY <2>2
<1>2. ASSUME NEW k \in Nat, k \in S PROVE k + 1 \in S
  <2>1. PICK h : Folds(h, k, step, base, queue)
    BY <1>2
  <2> DEFINE D == SUBSET (1..(k + 1))
             g == [s \in D |-> IF k + 1 \in s
                               THEN step[<<h[s \ {k + 1}], queue[k + 1]>>] ELSE h[s]]
             body(s) == IF s = {} THEN base ELSE step[<<g[s \ {Max(s)}], queue[Max(s)]>>]
  <2>2. ASSUME NEW s \in D PROVE g[s] = body(s)
    <3>1. CASE k + 1 \in s
      <4>1. Max(s) = k + 1 /\ s \ {Max(s)} \in SUBSET (1..k)
        BY <3>1, LastPlace
      <4>2. s \ {Max(s)} \in D /\ k + 1 \notin s \ {Max(s)}
        BY <4>1
      <4>3. g[s \ {Max(s)}] = h[s \ {Max(s)}]
        BY <4>2
      <4> QED BY <3>1, <4>1, <4>3
    <3>2. CASE k + 1 \notin s
      <4>1. s \in SUBSET (1..k) /\ s \ {Max(s)} \in SUBSET (1..k)
        <5>1. \A x \in s : x \in 1..k
          BY <3>2
        <5> QED BY <5>1
      <4>2. s \ {Max(s)} \in D /\ k + 1 \notin s \ {Max(s)}
        BY <4>1
      <4>3. g[s] = h[s] /\ g[s \ {Max(s)}] = h[s \ {Max(s)}]
        BY <3>2, <4>2
      <4>4. h[s] = IF s = {} THEN base ELSE step[<<h[s \ {Max(s)}], queue[Max(s)]>>]
        BY <2>1, <4>1 DEF Folds
      <4> QED BY <4>3, <4>4
    <3> QED BY <3>1, <3>2
  <2>3. g = [s \in D |-> g[s]]
    OBVIOUS
  <2> HIDE DEF g
  <2>4. Folds(g, k + 1, step, base, queue)
    BY <2>2, <2>3 DEF Folds
  <2> QED BY <2>4
<1> HIDE DEF S
<1>3. Nat \subseteq S
  BY <1>1, <1>2, EveryNumber
<1> QED BY <1>3 DEF S

(* Two functions on the sets of places are equal when every value is given by the one at the
   set without its greatest place. *)
Agree(g, h, n) ==
  /\ g[{}] = h[{}]
  /\ \A s \in SUBSET (1..n) : s # {} /\ g[s \ {Max(s)}] = h[s \ {Max(s)}] => g[s] = h[s]

LEMMA FoldsOnce ==
  ASSUME NEW n \in Nat, NEW g, NEW h, Agree(g, h, n)
  PROVE  \A s \in SUBSET (1..n) : g[s] = h[s]
<1> DEFINE S == {k \in Nat : k <= n => \A s \in SUBSET (1..k) : g[s] = h[s]}
<1>1. 0 \in S
  <2>1. \A s \in SUBSET (1..0) : s = {}
    OBVIOUS
  <2> QED BY <2>1 DEF Agree
<1>2. ASSUME NEW k \in Nat, k \in S PROVE k + 1 \in S
  <2> SUFFICES ASSUME k + 1 <= n, NEW s \in SUBSET (1..(k + 1)) PROVE g[s] = h[s]
    OBVIOUS
  <2>1. \A t \in SUBSET (1..k) : g[t] = h[t]
    BY <1>2
  <2>2. CASE k + 1 \in s
    <3>1. s \ {Max(s)} \in SUBSET (1..k) /\ s \in SUBSET (1..n) /\ s # {}
      BY <2>2, LastPlace
    <3> QED BY <2>1, <3>1 DEF Agree
  <2>3. CASE k + 1 \notin s
    <3>1. \A x \in s : x \in 1..k
      BY <2>3
    <3> QED BY <2>1, <3>1
  <2> QED BY <2>2, <2>3
<1> HIDE DEF S
<1>3. n \in S /\ n <= n
  BY <1>1, <1>2, EveryNumber
<1> QED BY <1>3 DEF S

StepClosed(step, X, T) == \A x \in X, t \in T : step[<<x, t>>] \in X

\* The values of a fold, set by set and place by place.
Folded(h, n, step, base, queue, X, T) ==
  /\ h[{}] = base
  /\ \A s \in SUBSET (1..n) : h[s] \in X
  /\ \A s \in SUBSET (1..n) : s # {} =>
       /\ s \ {Max(s)} \in SUBSET (1..n) /\ queue[Max(s)] \in T
       /\ h[s] = step[<<h[s \ {Max(s)}], queue[Max(s)]>>]
  /\ \A k \in 1..n : h[1..k] = step[<<h[1..(k - 1)], queue[k]>>]

LEMMA FoldsValues ==
  ASSUME NEW X, NEW T, NEW step, StepClosed(step, X, T),
         NEW base \in X, NEW queue \in Seq(T), NEW h, Folds(h, Len(queue), step, base, queue)
  PROVE  Folded(h, Len(queue), step, base, queue, X, T)
<1> DEFINE n == Len(queue)
<1>1. n \in Nat /\ \A k \in 1..n : queue[k] \in T
  OBVIOUS
<1> HIDE DEF n
<1>2. \A s \in SUBSET (1..n) :
        h[s] = IF s = {} THEN base ELSE step[<<h[s \ {Max(s)}], queue[Max(s)]>>]
  BY DEF Folds, n
<1>3. h[{}] = base
  BY <1>2
<1>4. \A s \in SUBSET (1..n) : s # {} =>
        /\ s \ {Max(s)} \in SUBSET (1..n) /\ queue[Max(s)] \in T
        /\ h[s] = step[<<h[s \ {Max(s)}], queue[Max(s)]>>]
  BY <1>1, <1>2, SomePlace
<1>5. \A s \in SUBSET (1..n) : h[s] \in X
  <2> DEFINE S == {k \in Nat : k <= n => \A s \in SUBSET (1..k) : h[s] \in X}
  <2>1. 0 \in S
    <3>1. \A s \in SUBSET (1..0) : s = {}
      OBVIOUS
    <3> QED BY <1>3, <3>1
  <2>2. ASSUME NEW k \in Nat, k \in S PROVE k + 1 \in S
    <3>1. ASSUME k + 1 <= n, NEW s \in SUBSET (1..(k + 1)) PROVE h[s] \in X
      <4>1. \A t \in SUBSET (1..k) : h[t] \in X
        BY <1>1, <2>2, <3>1
      <4>2. CASE k + 1 \in s
        <5>1. s \ {Max(s)} \in SUBSET (1..k) /\ s \in SUBSET (1..n) /\ s # {}
          <6>1. s \ {Max(s)} \in SUBSET (1..k)
            BY <4>2, LastPlace
          <6>2. \A x \in s : x \in 1..n
            BY <1>1, <3>1
          <6> QED BY <4>2, <6>1, <6>2
        <5>2. h[s \ {Max(s)}] \in X /\ queue[Max(s)] \in T
          BY <1>4, <4>1, <5>1
        <5> QED BY <1>4, <5>1, <5>2 DEF StepClosed
      <4>3. CASE k + 1 \notin s
        <5>1. \A x \in s : x \in 1..k
          BY <4>3
        <5> QED BY <4>1, <5>1
      <4> QED BY <4>2, <4>3
    <3>2. k + 1 \in Nat
      OBVIOUS
    <3> QED BY <3>1, <3>2
  <2> HIDE DEF S
  <2>3. n \in S /\ n <= n
    BY <1>1, <2>1, <2>2, EveryNumber
  <2> QED BY <2>3 DEF S
<1>6. ASSUME NEW k \in 1..n PROVE h[1..k] = step[<<h[1..(k - 1)], queue[k]>>]
  <2> DEFINE s == 1..k
             j == k - 1
  <2>1. j \in Nat /\ k = j + 1 /\ s \in SUBSET (1..(j + 1)) /\ j + 1 \in s
    BY <1>1
  <2>2. Max(s) = k
    <3> HIDE DEF j, s
    <3> QED BY <2>1, LastPlace
  <2>3. s \ {k} = 1..(k - 1) /\ s # {} /\ s \in SUBSET (1..n)
    <3>1. k \in Nat /\ k >= 1 /\ k <= n
      BY <1>1
    <3>2. \A x : x \in s \ {k} <=> x \in 1..(k - 1)
      BY <3>1
    <3>3. \A x \in s : x \in 1..n
      BY <1>1, <3>1
    <3> QED BY <2>1, <3>2, <3>3
  <2>4. h[s] = step[<<h[s \ {Max(s)}], queue[Max(s)]>>]
    BY <1>4, <2>3
  <2> QED BY <2>2, <2>3, <2>4
<1> QED BY <1>3, <1>4, <1>5, <1>6 DEF n, Folded

\* The same, place by place.
Stepwise(v, n, step, base, queue, X) ==
  /\ v \in [0..n -> X] /\ v[0] = base
  /\ \A k \in 1..n : v[k] = step[<<v[k - 1], queue[k]>>]

LEMMA FoldsStepwise ==
  ASSUME NEW n \in Nat, NEW h, NEW step, NEW base, NEW queue, NEW X, NEW T,
         Folded(h, n, step, base, queue, X, T)
  PROVE  /\ Stepwise([k \in 0..n |-> h[1..k]], n, step, base, queue, X)
         /\ [k \in 0..n |-> h[1..k]][n] = h[1..n]
<1> DEFINE v == [k \in 0..n |-> h[1..k]]
<1>1. v \in [0..n -> X] /\ v[0] = base /\ v[n] = h[1..n]
  <2>1. \A k \in 0..n : 1..k \in SUBSET (1..n)
    OBVIOUS
  <2>2. 1..0 = {} /\ 0 \in 0..n /\ n \in 0..n
    OBVIOUS
  <2> QED BY <2>1, <2>2 DEF Folded
<1>2. ASSUME NEW k \in 1..n PROVE v[k] = step[<<v[k - 1], queue[k]>>]
  <2>1. k \in 0..n /\ k - 1 \in 0..n
    OBVIOUS
  <2>2. v[k] = h[1..k] /\ v[k - 1] = h[1..(k - 1)]
    BY <2>1
  <2> QED BY <2>2 DEF Folded
<1> QED BY <1>1, <1>2 DEF Stepwise

-----------------------------------------------------------------------------
(* The four folds of the model. *)

\* What the device becomes once everything on its way has arrived.
Arrived(d, packets) == FoldLeft(DeviceTakes, d, packets)
Requested(start, queue, limits) == FoldLeft(LAMBDA acc, op : ApplyOp(acc, op, limits), start, queue)
Noticed(gate, queue) == FoldLeft(LAMBDA g, b1 : OnB1(g, b1), gate, queue)
Played(s, u, queue) ==
  FoldLeft(LAMBDA t, ch : IF ch \in u.on THEN SetWaveform(t, ch, u.count) ELSE t, s, queue)

LEMMA DeviceFold ==
  ASSUME NEW d \in Devices, NEW packets \in Seq(Packets)
  PROVE  \E v : /\ v \in [0..Len(packets) -> Devices] /\ v[0] = d
               /\ \A k \in 1..Len(packets) : v[k] = DeviceTakes(v[k - 1], packets[k])
               /\ Arrived(d, packets) = v[Len(packets)]
<1> DEFINE n == Len(packets)
           step == [p \in Devices \X Packets |-> DeviceTakes(p[1], p[2])]
           body(g) == [s \in SUBSET (1..n) |-> IF s = {} THEN d
                         ELSE DeviceTakes(g[s \ {Max(s)}], packets[Max(s)])]
<1>1. \A x \in Devices, t \in Packets :
        step[<<x, t>>] = DeviceTakes(x, t) /\ step[<<x, t>>] \in Devices
  BY DeviceType
<1>2. StepClosed(step, Devices, Packets)
  BY <1>1 DEF StepClosed
<1>3. n \in Nat /\ DOMAIN packets = 1..n
  OBVIOUS
<1>4. Arrived(d, packets) = (CHOOSE g : g = body(g))[1..n]
  BY <1>3 DEF FoldLeft, MapThenFoldSet, Arrived
<1> HIDE DEF step
<1>5. PICK h : Folds(h, n, step, d, packets)
  BY <1>3, FoldsExist
<1>6. Folded(h, n, step, d, packets, Devices, Packets)
  <2> HIDE DEF body
  <2> QED BY <1>2, <1>5, FoldsValues
<1>7. h = body(h)
  <2>1. \A s \in SUBSET (1..n) : s # {} =>
          h[s] = DeviceTakes(h[s \ {Max(s)}], packets[Max(s)])
    BY <1>1, <1>6 DEF Folded
  <2> QED BY <1>5, <1>6, <2>1 DEF Folds, Folded
<1>8. ASSUME NEW g, g = body(g) PROVE g = h
  <2>1. Agree(g, h, n)
    <3>1. g[{}] = h[{}]
      BY <1>6, <1>8 DEF Folded
    <3>2. \A s \in SUBSET (1..n) : s # {} /\ g[s \ {Max(s)}] = h[s \ {Max(s)}] => g[s] = h[s]
      BY <1>7, <1>8
    <3> QED BY <3>1, <3>2 DEF Agree
  <2>2. \A s \in SUBSET (1..n) : g[s] = h[s]
    <3> HIDE DEF n, body
    <3> QED BY <1>3, <2>1, FoldsOnce
  <2> QED BY <1>7, <1>8, <2>2
<1>9. Arrived(d, packets) = h[1..n]
  <2> HIDE DEF body
  <2>1. (CHOOSE g : g = body(g)) = h
    BY <1>7, <1>8
  <2> QED BY <1>4, <2>1
<1> DEFINE v == [k \in 0..n |-> h[1..k]]
<1>10. Stepwise(v, n, step, d, packets, Devices) /\ v[n] = h[1..n]
  <2> HIDE DEF n, body
  <2> QED BY <1>3, <1>6, FoldsStepwise
<1> HIDE DEF v
<1>11. \A k \in 1..n : v[k] = DeviceTakes(v[k - 1], packets[k])
  <2>1. \A k \in 1..n : k - 1 \in 0..n /\ packets[k] \in Packets
    BY <1>3
  <2> QED BY <1>1, <1>10, <2>1 DEF Stepwise
<1> QED BY <1>9, <1>10, <1>11 DEF Stepwise

Accounts == [session : Sessions, strength : Limits, drift : BOOLEAN]

(* A staged request is applied to a session and to a strength under its ceiling. *)
LEMMA ApplyOpType ==
  ASSUME NEW acc \in Accounts, NEW op \in Ops, NEW limits \in Limits
  PROVE  ApplyOp(acc, op, limits) \in Accounts
<1> DEFINE current == acc.strength[op.channel]
           delta == Delta(op, current)
           next == Within(current + delta, limits[op.channel])
           adjusted == AdjustStrength(acc.session, op.channel, delta)
<1>1. current \in Strengths /\ op.value \in Strengths /\ limits[op.channel] \in Strengths
      /\ op.channel \in Channels
  BY DEF Accounts, Limits, Ops
<1>2. delta \in Int /\ current + delta \in Int
  <2>1. current \in Int /\ op.value \in Int
    BY <1>1, CoyoteAssumption DEF Strengths
  <2> HIDE DEF current
  <2>2. Delta(op, current) \in Int
    BY <2>1 DEF Delta
  <2> QED BY <2>1, <2>2
<1>3. next \in Strengths
  <2> HIDE DEF current, delta
  <2> QED BY <1>1, <1>2, CoyoteAssumption DEF Within, Strengths
<1>4. adjusted \in Sessions
  <2> HIDE DEF delta
  <2> QED BY <1>1, <1>2, SessionCallsType DEF Accounts
<1>5. ApplyOp(acc, op, limits).drift \in BOOLEAN
  BY DEF ApplyOp, Accounts
<1> DEFINE drifted == \/ acc.drift \/ next # current + delta
                      \/ adjusted.gate.pending[op.channel]
                           # acc.session.gate.pending[op.channel] + delta
<1>6. ApplyOp(acc, op, limits) =
        [session |-> adjusted, strength |-> [acc.strength EXCEPT ![op.channel] = next],
         drift |-> drifted]
  BY DEF ApplyOp
<1>7. [acc.strength EXCEPT ![op.channel] = next] \in Limits
  <2> HIDE DEF next
  <2> QED BY <1>3 DEF Accounts, Limits
<1>8. drifted \in BOOLEAN
  BY DEF Accounts
<1> HIDE DEF adjusted, next, drifted
<1> QED BY <1>4, <1>6, <1>7, <1>8 DEF Accounts

LEMMA ApplyFold ==
  ASSUME NEW start \in Accounts, NEW queue \in Seq(Ops), NEW limits \in Limits
  PROVE  \E v : /\ v \in [0..Len(queue) -> Accounts] /\ v[0] = start
               /\ \A k \in 1..Len(queue) : v[k] = ApplyOp(v[k - 1], queue[k], limits)
               /\ Requested(start, queue, limits) = v[Len(queue)]
<1> DEFINE n == Len(queue)
           step == [p \in Accounts \X Ops |-> ApplyOp(p[1], p[2], limits)]
           body(g) == [s \in SUBSET (1..n) |-> IF s = {} THEN start
                         ELSE ApplyOp(g[s \ {Max(s)}], queue[Max(s)], limits)]
<1>1. \A x \in Accounts, t \in Ops :
        step[<<x, t>>] = ApplyOp(x, t, limits) /\ step[<<x, t>>] \in Accounts
  BY ApplyOpType
<1>2. StepClosed(step, Accounts, Ops)
  BY <1>1 DEF StepClosed
<1>3. n \in Nat /\ DOMAIN queue = 1..n
  OBVIOUS
<1>4. Requested(start, queue, limits) = (CHOOSE g : g = body(g))[1..n]
  BY <1>3 DEF FoldLeft, MapThenFoldSet, Requested
<1> HIDE DEF step
<1>5. PICK h : Folds(h, n, step, start, queue)
  BY <1>3, FoldsExist
<1>6. Folded(h, n, step, start, queue, Accounts, Ops)
  <2> HIDE DEF body
  <2> QED BY <1>2, <1>5, FoldsValues
<1>7. h = body(h)
  <2>1. \A s \in SUBSET (1..n) : s # {} =>
          h[s] = ApplyOp(h[s \ {Max(s)}], queue[Max(s)], limits)
    BY <1>1, <1>6 DEF Folded
  <2> QED BY <1>5, <1>6, <2>1 DEF Folds, Folded
<1>8. ASSUME NEW g, g = body(g) PROVE g = h
  <2>1. Agree(g, h, n)
    <3>1. g[{}] = h[{}]
      BY <1>6, <1>8 DEF Folded
    <3>2. \A s \in SUBSET (1..n) : s # {} /\ g[s \ {Max(s)}] = h[s \ {Max(s)}] => g[s] = h[s]
      BY <1>7, <1>8
    <3> QED BY <3>1, <3>2 DEF Agree
  <2>2. \A s \in SUBSET (1..n) : g[s] = h[s]
    <3> HIDE DEF n, body
    <3> QED BY <1>3, <2>1, FoldsOnce
  <2> QED BY <1>7, <1>8, <2>2
<1>9. Requested(start, queue, limits) = h[1..n]
  <2> HIDE DEF body
  <2>1. (CHOOSE g : g = body(g)) = h
    BY <1>7, <1>8
  <2> QED BY <1>4, <2>1
<1> DEFINE v == [k \in 0..n |-> h[1..k]]
<1>10. Stepwise(v, n, step, start, queue, Accounts) /\ v[n] = h[1..n]
  <2> HIDE DEF n, body
  <2> QED BY <1>3, <1>6, FoldsStepwise
<1> HIDE DEF v
<1>11. \A k \in 1..n : v[k] = ApplyOp(v[k - 1], queue[k], limits)
  <2>1. \A k \in 1..n : k - 1 \in 0..n /\ queue[k] \in Ops
    BY <1>3
  <2> QED BY <1>1, <1>10, <2>1 DEF Stepwise
<1> QED BY <1>9, <1>10, <1>11 DEF Stepwise

LEMMA HeardFold ==
  ASSUME NEW gate \in Gates, NEW queue \in Seq(Notifications)
  PROVE  \E v : /\ v \in [0..Len(queue) -> Gates] /\ v[0] = gate
               /\ \A k \in 1..Len(queue) : v[k] = OnB1(v[k - 1], queue[k])
               /\ Noticed(gate, queue) = v[Len(queue)]
<1> DEFINE n == Len(queue)
           step == [p \in Gates \X Notifications |-> OnB1(p[1], p[2])]
           body(g) == [s \in SUBSET (1..n) |-> IF s = {} THEN gate
                         ELSE OnB1(g[s \ {Max(s)}], queue[Max(s)])]
<1>1. \A x \in Gates, t \in Notifications : step[<<x, t>>] = OnB1(x, t) /\ step[<<x, t>>] \in Gates
  BY GateCallsType
<1>2. StepClosed(step, Gates, Notifications)
  BY <1>1 DEF StepClosed
<1>3. n \in Nat /\ DOMAIN queue = 1..n
  OBVIOUS
<1>4. Noticed(gate, queue) = (CHOOSE g : g = body(g))[1..n]
  BY <1>3 DEF FoldLeft, MapThenFoldSet, Noticed
<1> HIDE DEF step
<1>5. PICK h : Folds(h, n, step, gate, queue)
  BY <1>3, FoldsExist
<1>6. Folded(h, n, step, gate, queue, Gates, Notifications)
  <2> HIDE DEF body
  <2> QED BY <1>2, <1>5, FoldsValues
<1>7. h = body(h)
  <2>1. \A s \in SUBSET (1..n) : s # {} =>
          h[s] = OnB1(h[s \ {Max(s)}], queue[Max(s)])
    BY <1>1, <1>6 DEF Folded
  <2> QED BY <1>5, <1>6, <2>1 DEF Folds, Folded
<1>8. ASSUME NEW g, g = body(g) PROVE g = h
  <2>1. Agree(g, h, n)
    <3>1. g[{}] = h[{}]
      BY <1>6, <1>8 DEF Folded
    <3>2. \A s \in SUBSET (1..n) : s # {} /\ g[s \ {Max(s)}] = h[s \ {Max(s)}] => g[s] = h[s]
      BY <1>7, <1>8
    <3> QED BY <3>1, <3>2 DEF Agree
  <2>2. \A s \in SUBSET (1..n) : g[s] = h[s]
    <3> HIDE DEF n, body
    <3> QED BY <1>3, <2>1, FoldsOnce
  <2> QED BY <1>7, <1>8, <2>2
<1>9. Noticed(gate, queue) = h[1..n]
  <2> HIDE DEF body
  <2>1. (CHOOSE g : g = body(g)) = h
    BY <1>7, <1>8
  <2> QED BY <1>4, <2>1
<1> DEFINE v == [k \in 0..n |-> h[1..k]]
<1>10. Stepwise(v, n, step, gate, queue, Gates) /\ v[n] = h[1..n]
  <2> HIDE DEF n, body
  <2> QED BY <1>3, <1>6, FoldsStepwise
<1> HIDE DEF v
<1>11. \A k \in 1..n : v[k] = OnB1(v[k - 1], queue[k])
  <2>1. \A k \in 1..n : k - 1 \in 0..n /\ queue[k] \in Notifications
    BY <1>3
  <2> QED BY <1>1, <1>10, <2>1 DEF Stepwise
<1> QED BY <1>9, <1>10, <1>11 DEF Stepwise

LEMMA UploadFold ==
  ASSUME NEW s0 \in Sessions, NEW u \in [on : SUBSET Channels, count : Int],
         NEW queue \in Seq(Channels)
  PROVE  \E v : /\ v \in [0..Len(queue) -> Sessions] /\ v[0] = s0
               /\ \A k \in 1..Len(queue) :
                    v[k] = (IF queue[k] \in u.on THEN SetWaveform(v[k - 1], queue[k], u.count)
                            ELSE v[k - 1])
               /\ Played(s0, u, queue) = v[Len(queue)]
<1> DEFINE n == Len(queue)
           step == [p \in Sessions \X Channels |->
                      (IF p[2] \in u.on THEN SetWaveform(p[1], p[2], u.count) ELSE p[1])]
           body(g) == [s \in SUBSET (1..n) |->
                         IF s = {} THEN s0
                         ELSE (IF queue[Max(s)] \in u.on
                               THEN SetWaveform(g[s \ {Max(s)}], queue[Max(s)], u.count)
                               ELSE g[s \ {Max(s)}])]
<1>1. \A x \in Sessions, t \in Channels :
        /\ step[<<x, t>>] = (IF t \in u.on THEN SetWaveform(x, t, u.count) ELSE x)
        /\ step[<<x, t>>] \in Sessions
  BY SessionCallsType
<1>2. StepClosed(step, Sessions, Channels)
  BY <1>1 DEF StepClosed
<1>3. n \in Nat /\ DOMAIN queue = 1..n
  OBVIOUS
<1>4. Played(s0, u, queue) = (CHOOSE g : g = body(g))[1..n]
  BY <1>3 DEF FoldLeft, MapThenFoldSet, Played
<1> HIDE DEF step
<1>5. PICK h : Folds(h, n, step, s0, queue)
  BY <1>3, FoldsExist
<1>6. Folded(h, n, step, s0, queue, Sessions, Channels)
  <2> HIDE DEF body
  <2> QED BY <1>2, <1>5, FoldsValues
<1>7. h = body(h)
  <2>1. \A s \in SUBSET (1..n) : s # {} =>
          h[s] = (IF queue[Max(s)] \in u.on
                  THEN SetWaveform(h[s \ {Max(s)}], queue[Max(s)], u.count)
                  ELSE h[s \ {Max(s)}])
    BY <1>1, <1>6 DEF Folded
  <2> QED BY <1>5, <1>6, <2>1 DEF Folds, Folded
<1>8. ASSUME NEW g, g = body(g) PROVE g = h
  <2>1. Agree(g, h, n)
    <3>1. g[{}] = h[{}]
      BY <1>6, <1>8 DEF Folded
    <3>2. \A s \in SUBSET (1..n) : s # {} /\ g[s \ {Max(s)}] = h[s \ {Max(s)}] => g[s] = h[s]
      BY <1>7, <1>8
    <3> QED BY <3>1, <3>2 DEF Agree
  <2>2. \A s \in SUBSET (1..n) : g[s] = h[s]
    <3> HIDE DEF n, body
    <3> QED BY <1>3, <2>1, FoldsOnce
  <2> QED BY <1>7, <1>8, <2>2
<1>9. Played(s0, u, queue) = h[1..n]
  <2> HIDE DEF body
  <2>1. (CHOOSE g : g = body(g)) = h
    BY <1>7, <1>8
  <2> QED BY <1>4, <2>1
<1> DEFINE v == [k \in 0..n |-> h[1..k]]
<1>10. Stepwise(v, n, step, s0, queue, Sessions) /\ v[n] = h[1..n]
  <2> HIDE DEF n, body
  <2> QED BY <1>3, <1>6, FoldsStepwise
<1> HIDE DEF v
<1>11. \A k \in 1..n :
         v[k] = (IF queue[k] \in u.on THEN SetWaveform(v[k - 1], queue[k], u.count) ELSE v[k - 1])
  <2>1. \A k \in 1..n : k - 1 \in 0..n /\ queue[k] \in Channels
    BY <1>3
  <2> QED BY <1>1, <1>10, <2>1 DEF Stepwise
<1> QED BY <1>9, <1>10, <1>11 DEF Stepwise

-----------------------------------------------------------------------------
(* What is on its way. *)

\* The states the device goes through.
Through(v, d, packets) ==
  /\ v \in [0..Len(packets) -> Devices] /\ v[0] = d
  /\ \A k \in 1..Len(packets) : v[k] = DeviceTakes(v[k - 1], packets[k])
  /\ Arrived(d, packets) = v[Len(packets)]

LEMMA ArrivedThrough ==
  ASSUME NEW d \in Devices, NEW packets \in Seq(Packets)
  PROVE  (\E v : Through(v, d, packets)) /\ Arrived(d, packets) \in Devices
<1>1. PICK v : Through(v, d, packets)
  BY DeviceFold DEF Through
<1>2. Len(packets) \in 0..Len(packets)
  OBVIOUS
<1> QED BY <1>1, <1>2 DEF Through

LEMMA ArrivedNone ==
  ASSUME NEW d \in Devices
  PROVE  Arrived(d, <<>>) = d
<1>1. <<>> \in Seq(Packets) /\ Len(<<>>) = 0
  OBVIOUS
<1>2. PICK v : Through(v, d, <<>>)
  BY <1>1, ArrivedThrough
<1> QED BY <1>1, <1>2 DEF Through

\* A packet that joins the link is taken last.
LEMMA ArrivedAppend ==
  ASSUME NEW d \in Devices, NEW packets \in Seq(Packets), NEW p \in Packets
  PROVE  Arrived(d, packets \o <<p>>) = DeviceTakes(Arrived(d, packets), p)
<1> DEFINE n == Len(packets)
           more == packets \o <<p>>
<1>1. /\ n \in Nat /\ more \in Seq(Packets) /\ Len(more) = n + 1 /\ more[n + 1] = p
      /\ \A k \in 1..n : more[k] = packets[k]
  OBVIOUS
<1>2. PICK v : Through(v, d, packets)
  BY ArrivedThrough
<1>3. PICK w : Through(w, d, more)
  BY <1>1, ArrivedThrough
<1> HIDE DEF more
<1> DEFINE S == {k \in Nat : k <= n => w[k] = v[k]}
<1>4. 0 \in S
  BY <1>2, <1>3 DEF Through
<1>5. ASSUME NEW k \in Nat, k \in S PROVE k + 1 \in S
  <2> SUFFICES ASSUME k + 1 <= n PROVE w[k + 1] = v[k + 1]
    OBVIOUS
  <2>1. k + 1 \in 1..n /\ k + 1 \in 1..(n + 1) /\ (k + 1) - 1 = k /\ w[k] = v[k]
    BY <1>1, <1>5
  <2>2. w[k + 1] = DeviceTakes(w[k], more[k + 1]) /\ v[k + 1] = DeviceTakes(v[k], packets[k + 1])
    BY <1>1, <1>2, <1>3, <2>1 DEF Through
  <2> QED BY <1>1, <2>1, <2>2
<1>6. w[n] = v[n]
  <2> HIDE DEF S
  <2>1. n \in S /\ n <= n
    BY <1>1, <1>4, <1>5, EveryNumber
  <2> QED BY <2>1 DEF S
<1>7. n + 1 \in 1..(n + 1) /\ (n + 1) - 1 = n
  BY <1>1
<1>8. w[n + 1] = DeviceTakes(w[n], p)
  BY <1>1, <1>3, <1>7 DEF Through
<1> QED BY <1>1, <1>2, <1>3, <1>6, <1>8 DEF Through, more

\* The first packet on the link is taken first.
LEMMA ArrivedTail ==
  ASSUME NEW d \in Devices, NEW packets \in Seq(Packets), packets # <<>>
  PROVE  Arrived(DeviceTakes(d, Head(packets)), Tail(packets)) = Arrived(d, packets)
<1> DEFINE rest == Tail(packets)
           n == Len(rest)
           first == DeviceTakes(d, Head(packets))
<1>1. /\ rest \in Seq(Packets) /\ n \in Nat /\ Len(packets) = n + 1 /\ packets[1] = Head(packets)
      /\ \A k \in 1..n : rest[k] = packets[k + 1]
  OBVIOUS
<1>2. first \in Devices
  BY DeviceType
<1> HIDE DEF rest, first
<1>3. PICK v : Through(v, first, rest)
  BY <1>1, <1>2, ArrivedThrough
<1>4. PICK w : Through(w, d, packets)
  BY ArrivedThrough
<1> DEFINE S == {k \in Nat : k <= n => w[k + 1] = v[k]}
<1>5. 0 \in S
  <2>1. 1 \in 1..Len(packets) /\ 1 - 1 = 0 /\ 0 + 1 = 1
    BY <1>1
  <2> QED BY <1>1, <1>3, <1>4, <2>1 DEF Through, first
<1>6. ASSUME NEW k \in Nat, k \in S PROVE k + 1 \in S
  <2> SUFFICES ASSUME k + 1 <= n PROVE w[(k + 1) + 1] = v[k + 1]
    OBVIOUS
  <2>1. /\ k + 1 \in 1..n /\ (k + 1) + 1 \in 1..Len(packets)
        /\ (k + 1) - 1 = k /\ ((k + 1) + 1) - 1 = k + 1 /\ w[k + 1] = v[k]
    BY <1>1, <1>6
  <2>2. /\ w[(k + 1) + 1] = DeviceTakes(w[k + 1], packets[(k + 1) + 1])
        /\ v[k + 1] = DeviceTakes(v[k], rest[k + 1])
    BY <1>3, <1>4, <2>1 DEF Through
  <2> QED BY <1>1, <2>1, <2>2
<1>7. w[n + 1] = v[n]
  <2> HIDE DEF S
  <2>1. n \in S /\ n <= n
    BY <1>1, <1>5, <1>6, EveryNumber
  <2> QED BY <2>1 DEF S
<1> QED BY <1>1, <1>3, <1>4, <1>7 DEF Through, rest, first

-----------------------------------------------------------------------------
(* What the worker makes of the session. *)

LEMMA SessionInitType ==
  ASSUME NEW limits \in Limits
  PROVE  SessionInit(limits, "Required") \in Sessions
<1>1. 0 \in 0..(Interval - 1) /\ 0 \in 0..Capacity
  BY CoyoteAssumption
<1> QED BY <1>1, GateInitType DEF SessionInit, Sessions, Waveforms

\* Notifications open the gate at most: what the session owes stays.
Same(s, t) ==
  /\ t \in Sessions /\ t.limits = s.limits
  /\ t.gate.pending = s.gate.pending /\ t.gate.zero = s.gate.zero

LEMMA NoticeOwes ==
  ASSUME NEW gate \in Gates, NEW b1 \in Notifications
  PROVE  OnB1(gate, b1).pending = gate.pending /\ OnB1(gate, b1).zero = gate.zero
BY DEF OnB1, Gates

LEMMA HeardSame ==
  ASSUME NEW s \in Sessions, air \in Seq(Notifications)
  PROVE  Same(s, Heard(s))
<1>1. s.gate \in Gates
  BY DEF Sessions
<1> DEFINE n == Len(air)
           g == Noticed(s.gate, air)
<1>2. n \in Nat /\ \A k \in 1..n : air[k] \in Notifications
  OBVIOUS
<1>3. PICK v : /\ v \in [0..n -> Gates] /\ v[0] = s.gate
               /\ \A k \in 1..n : v[k] = OnB1(v[k - 1], air[k])
               /\ g = v[n]
  BY <1>1, HeardFold
<1> HIDE DEF n, g
<1> DEFINE S == {k \in Nat : k <= n => v[k].pending = s.gate.pending /\ v[k].zero = s.gate.zero}
<1>4. 0 \in S
  BY <1>3
<1>5. ASSUME NEW k \in Nat, k \in S PROVE k + 1 \in S
  <2> SUFFICES ASSUME k + 1 <= n
               PROVE  v[k + 1].pending = s.gate.pending /\ v[k + 1].zero = s.gate.zero
    OBVIOUS
  <2>1. k + 1 \in 1..n /\ k \in 0..n /\ (k + 1) - 1 = k
    BY <1>2
  <2>2. v[k].pending = s.gate.pending /\ v[k].zero = s.gate.zero
    BY <1>2, <1>5
  <2>3. v[k + 1] = OnB1(v[k], air[k + 1]) /\ v[k] \in Gates /\ air[k + 1] \in Notifications
    BY <1>2, <1>3, <2>1
  <2> QED BY <2>2, <2>3, NoticeOwes
<1>6. g.pending = s.gate.pending /\ g.zero = s.gate.zero /\ g \in Gates
  <2> HIDE DEF S
  <2>1. n \in S /\ n <= n /\ n \in 0..n
    BY <1>2, <1>4, <1>5, EveryNumber
  <2> QED BY <1>3, <2>1 DEF S
<1>7. Heard(s) = [s EXCEPT !.gate = g]
  BY DEF Heard, g, Noticed, FoldLeft, MapThenFoldSet
<1> QED BY <1>6, <1>7 DEF Same, Sessions

LEMMA RearmedSame ==
  ASSUME NEW s \in Sessions
  PROVE  Same(s, Rearmed(s))
<1> DEFINE b1 == [sequence |-> s.gate.inflight, strength |-> Zeros]
<1>1. s.gate \in Gates /\ b1 \in Notifications
  BY CoyoteAssumption DEF Sessions, Gates, Notifications, Zeros, Limits, Strengths
<1>2. Rearmed(s) = [s EXCEPT !.gate = OnB1(s.gate, b1)]
  BY DEF Rearmed
<1> HIDE DEF b1
<1>3. OnB1(s.gate, b1) \in Gates
  BY <1>1, GateCallsType
<1> QED BY <1>1, <1>2, <1>3, NoticeOwes DEF Same, Sessions

LEMMA UploadedSame ==
  ASSUME NEW s \in Sessions, ble.upload \in Uploads \cup {None}
  PROVE  Same(s, Uploaded(s))
<1>1. CASE ble.upload = None
  BY <1>1 DEF Uploaded, Same
<1>2. CASE ble.upload # None
  <2> DEFINE u == ble.upload
             q == <<"A", "B">>
             r == Played(s, u, q)
  <2>1. u \in [on : SUBSET Channels, count : Int] /\ q \in Seq(Channels) /\ Len(q) = 2
    BY <1>2, BleAssumption, CoyoteAssumption DEF Channels
  <2>2. Uploaded(s) = r
    BY <1>2 DEF Uploaded, Played, FoldLeft, MapThenFoldSet
  <2>3. PICK v : /\ v \in [0..2 -> Sessions] /\ v[0] = s
                 /\ \A k \in 1..2 : v[k] = IF q[k] \in u.on THEN SetWaveform(v[k - 1], q[k], u.count)
                                            ELSE v[k - 1]
                 /\ r = v[2]
    <3> HIDE DEF u, q
    <3>1. \E v : /\ v \in [0..Len(q) -> Sessions] /\ v[0] = s
                /\ \A k \in 1..Len(q) :
                     v[k] = (IF q[k] \in u.on THEN SetWaveform(v[k - 1], q[k], u.count)
                             ELSE v[k - 1])
                /\ Played(s, u, q) = v[Len(q)]
      BY <2>1, UploadFold
    <3> QED BY <2>1, <3>1
  <2> HIDE DEF u, r
  <2>4. \A t \in Sessions, ch \in Channels :
          SetWaveform(t, ch, u.count).gate = t.gate /\ SetWaveform(t, ch, u.count).limits = t.limits
    BY DEF SetWaveform, Sessions
  <2>5. v[1].gate = s.gate /\ v[1].limits = s.limits /\ v[1] \in Sessions
    <3>1. 1 \in 1..2 /\ 1 - 1 = 0 /\ 1 \in 0..2 /\ q[1] \in Channels
      BY DEF Channels
    <3> HIDE DEF q
    <3>2. v[1] = IF q[1] \in u.on THEN SetWaveform(s, q[1], u.count) ELSE s
      BY <2>3, <3>1
    <3> QED BY <2>3, <2>4, <3>1, <3>2
  <2>6. v[2].gate = s.gate /\ v[2].limits = s.limits /\ v[2] \in Sessions
    <3>1. 2 \in 1..2 /\ 2 - 1 = 1 /\ 2 \in 0..2 /\ q[2] \in Channels
      BY DEF Channels
    <3> HIDE DEF q
    <3>2. v[2] = IF q[2] \in u.on THEN SetWaveform(v[1], q[2], u.count) ELSE v[1]
      BY <2>3, <3>1
    <3> QED BY <2>3, <2>4, <2>5, <3>1, <3>2
  <2> QED BY <2>2, <2>3, <2>6 DEF Same
<1> QED BY <1>1, <1>2

LEMMA TickSessions ==
  ASSUME NEW s \in Sessions, NEW e \in Nat
  PROVE  /\ Tick(s, e) \in Sessions /\ Tick(s, e).limits = s.limits
         /\ Writes(s, e) => Tick(s, e).gate = ApplyToPacket(s.gate)
         /\ ~Writes(s, e) => Tick(s, e).gate = s.gate
<1>1. Tick(s, e) \in Sessions
  BY TickType
<1>2. CASE ~s.connected
  BY <1>1, <1>2 DEF Tick, Writes
<1>3. CASE s.connected /\ ~Writes(s, e)
  BY <1>1, <1>3 DEF Tick, Sessions
<1>4. CASE s.connected /\ Writes(s, e)
  BY <1>1, <1>4 DEF Tick, Sessions
<1> QED BY <1>2, <1>3, <1>4

\* Only a session that owes nothing writes a packet that changes nothing.
Carries(gate, t) == t.pending = ApplyToPacket(gate).pending /\ t.zero = ApplyToPacket(gate).zero

\* What a pump does: it writes nothing, or a packet that is lost, or one that joins the link.
PumpResult(ready) ==
  /\ Same(session, ready) /\ session' \in Sessions /\ session'.limits = session.limits
  /\ air' = <<>> /\ heard' \in BOOLEAN /\ zeroed' \in BOOLEAN
  /\ \/ /\ UNCHANGED <<link, lost>>
        /\ \/ session'.gate.pending = ready.gate.pending /\ session'.gate.zero = ready.gate.zero
           \/ Plain(B0(ready)) /\ Carries(ready.gate, session'.gate)
     \/ lost' = TRUE /\ UNCHANGED link
     \/ /\ link' = link \o <<B0(ready)>> /\ UNCHANGED lost
        /\ Carries(ready.gate, session'.gate)

LEMMA PumpDoes ==
  ASSUME session \in Sessions, air \in Seq(Notifications), heard \in BOOLEAN,
         zeroed \in BOOLEAN, Pump
  PROVE  \E ready \in Sessions : PumpResult(ready)
<1>1. PICK elapsed \in {0, Interval}, rearm \in BOOLEAN :
        LET ready == Heard(session)
            ticked == Tick(ready, elapsed)
            out == IF Writes(ready, elapsed) /\ ~Plain(B0(ready)) THEN <<B0(ready)>> ELSE <<>>
        IN  /\ heard' = (heard \/ air # <<>>) /\ air' = <<>>
            /\ session' = (IF rearm THEN Rearmed(ticked) ELSE ticked)
            /\ Radio(out)
            /\ zeroed' = (zeroed \/ (worker = "draining" /\ out # <<>>))
  BY DEF Pump
<1> DEFINE ready == Heard(session)
           ticked == Tick(ready, elapsed)
           out == IF Writes(ready, elapsed) /\ ~Plain(B0(ready)) THEN <<B0(ready)>> ELSE <<>>
<1>2. /\ heard' \in BOOLEAN /\ air' = <<>> /\ zeroed' \in BOOLEAN
      /\ session' = (IF rearm THEN Rearmed(ticked) ELSE ticked) /\ Radio(out)
  BY <1>1
<1>3. Same(session, ready) /\ ready \in Sessions
  BY HeardSame DEF Same
<1>4. elapsed \in Nat
  BY <1>1, CoyoteAssumption
<1> HIDE DEF ready
<1>5. /\ ticked \in Sessions /\ ticked.limits = ready.limits
      /\ Writes(ready, elapsed) => ticked.gate = ApplyToPacket(ready.gate)
      /\ ~Writes(ready, elapsed) => ticked.gate = ready.gate
  BY <1>3, <1>4, TickSessions
<1> HIDE DEF ticked
<1>6. Same(ticked, session')
  BY <1>2, <1>5, RearmedSame DEF Same
<1>7. session' \in Sessions /\ session'.limits = session.limits
  BY <1>3, <1>5, <1>6 DEF Same
<1>8. CASE ~Writes(ready, elapsed)
  <2>1. UNCHANGED <<link, lost>>
    BY <1>2, <1>8 DEF Radio
  <2>2. session'.gate.pending = ready.gate.pending /\ session'.gate.zero = ready.gate.zero
    BY <1>5, <1>6, <1>8 DEF Same
  <2> QED BY <1>2, <1>3, <1>7, <2>1, <2>2 DEF PumpResult
<1>9. CASE Writes(ready, elapsed)
  <2>1. Carries(ready.gate, session'.gate)
    BY <1>5, <1>6, <1>9 DEF Same, Carries
  <2>2. CASE Plain(B0(ready))
    <3>1. UNCHANGED <<link, lost>>
      BY <1>2, <2>2 DEF Radio
    <3> QED BY <1>2, <1>3, <1>7, <2>1, <2>2, <3>1 DEF PumpResult
  <2>3. CASE ~Plain(B0(ready))
    <3>1. \/ link' = link \o <<B0(ready)>> /\ UNCHANGED lost
          \/ lost' = TRUE /\ UNCHANGED link
      BY <1>2, <1>9, <2>3 DEF Radio
    <3> QED BY <1>2, <1>3, <1>7, <2>1, <3>1 DEF PumpResult
  <2> QED BY <2>2, <2>3
<1> QED BY <1>8, <1>9

-----------------------------------------------------------------------------
(* Types *)

LEMMA BleInitType == Init => TypeOK
<1> SUFFICES ASSUME Init PROVE TypeOK
  OBVIOUS
<1>1. Zeros \in Limits
  BY CoyoteAssumption DEF Zeros, Limits, Strengths
<1>2. session \in Sessions
  BY <1>1, SessionInitType DEF Init
<1>3. device \in Devices /\ link \in Seq(Packets) /\ air \in Seq(Notifications)
  BY BleAssumption DEF Init
<1>4. /\ ble \in [active : BOOLEAN, limits : Limits, newLimits : Limits \cup {None},
                  upload : Uploads \cup {None}, ops : Seq(Ops), state : BleStates,
                  connected : BOOLEAN, strength : Limits]
      /\ Len(ble.ops) <= QueueMax
  BY <1>1, BleAssumption DEF Init, BleStates
<1>5. /\ ipc \in [at : Places, kind : {"ble", "poc"}]
      /\ poc \in [running : BOOLEAN, stop : BOOLEAN, requested : BOOLEAN]
      /\ worker \in Running \cup {"exited"} /\ drained \in 0..DrainTicks
      /\ requests \in 0..MaxRequests /\ starts \in 0..MaxStarts
  BY BleAssumption DEF Init, Places
<1>6. {heard, answers, lost, drift, dropped, zeroed} \subseteq BOOLEAN
  BY DEF Init
<1> QED BY <1>2, <1>3, <1>4, <1>5, <1>6 DEF TypeOK

\* The parts of the type invariant.
BleRecords == [active : BOOLEAN, limits : Limits, newLimits : Limits \cup {None},
               upload : Uploads \cup {None}, ops : Seq(Ops), state : BleStates,
               connected : BOOLEAN, strength : Limits]
PocRecords == [running : BOOLEAN, stop : BOOLEAN, requested : BOOLEAN]
IpcRecords == [at : Places, kind : {"ble", "poc"}]

IpcOK == ipc \in IpcRecords /\ requests \in 0..MaxRequests /\ starts \in 0..MaxStarts
BleOK == ble \in BleRecords /\ Len(ble.ops) <= QueueMax
PocOK == poc \in PocRecords
WorkerOK == worker \in Running \cup {"exited"} /\ drained \in 0..DrainTicks
LinkOK ==
  /\ session \in Sessions /\ device \in Devices
  /\ link \in Seq(Packets) /\ air \in Seq(Notifications)
FlagsOK ==
  /\ heard \in BOOLEAN /\ answers \in BOOLEAN /\ lost \in BOOLEAN
  /\ drift \in BOOLEAN /\ dropped \in BOOLEAN /\ zeroed \in BOOLEAN

LEMMA TypeParts == TypeOK <=> IpcOK /\ BleOK /\ PocOK /\ WorkerOK /\ LinkOK /\ FlagsOK
BY DEF TypeOK, IpcOK, BleOK, PocOK, WorkerOK, LinkOK, FlagsOK, BleRecords, PocRecords, IpcRecords

LEMMA TypePartsNext == IpcOK' /\ BleOK' /\ PocOK' /\ WorkerOK' /\ LinkOK' /\ FlagsOK' => TypeOK'
BY DEF TypeOK, IpcOK, BleOK, PocOK, WorkerOK, LinkOK, FlagsOK, BleRecords, PocRecords, IpcRecords

LEMMA Joins ==
  ASSUME NEW S, NEW q \in Seq(S), NEW p \in S
  PROVE  q \o <<p>> \in Seq(S)
OBVIOUS

LEMMA RadioType ==
  ASSUME LinkOK, FlagsOK, NEW p \in Packets, Radio(<<p>>)
  PROVE  /\ link' \in Seq(Packets) /\ lost' \in BOOLEAN
         /\ lost' \/ (UNCHANGED lost /\ link' = link \o <<p>>)
<1>1. \/ link' = link \o <<p>> /\ UNCHANGED lost
      \/ lost' = TRUE /\ UNCHANGED link
  BY DEF Radio
<1>2. link \in Seq(Packets) /\ link \o <<p>> \in Seq(Packets) /\ lost \in BOOLEAN
  BY Joins DEF LinkOK, FlagsOK
<1>3. CASE link' = link \o <<p>> /\ UNCHANGED lost
  BY <1>2, <1>3
<1>4. CASE lost' = TRUE /\ UNCHANGED link
  BY <1>2, <1>4
<1> QED BY <1>1, <1>3, <1>4

LEMMA IpcStepType ==
  ASSUME TypeOK,
         \/ SessionStart \/ SessionRequest \/ PocStart \/ StartCheck \/ Launch
         \/ Withdraw \/ GiveBack \/ SessionStop \/ PocStop
  PROVE  TypeOK'
<1>0. IpcOK /\ BleOK /\ PocOK /\ WorkerOK /\ LinkOK /\ FlagsOK
  BY TypeParts
<1>1. LinkOK'
  BY <1>0 DEF LinkOK, SessionStart, SessionRequest, PocStart, StartCheck, Launch, Withdraw,
              GiveBack, SessionStop, PocStop, transport
<1>2. IpcOK'
  <2>1. ipc' \in IpcRecords
    BY <1>0 DEF IpcOK, IpcRecords, SessionStart, SessionRequest, PocStart, StartCheck, Check, Launch,
                Withdraw, GiveBack, SessionStop, PocStop, At, Places
  <2>2. /\ requests' = requests
        /\ starts' = starts \/ (starts < MaxStarts /\ starts' = starts + 1)
    BY DEF SessionStart, SessionRequest, PocStart, StartCheck, Launch, Withdraw, GiveBack, SessionStop,
           PocStop, budget
  <2> QED BY <1>0, <2>1, <2>2, BleAssumption DEF IpcOK
<1>3. BleOK'
  <2>1. CASE SessionStart
    <3>1. PICK limits \in CeilingPairs :
            ble' = [active |-> TRUE, limits |-> limits, newLimits |-> None, upload |-> None,
                    ops |-> <<>>, state |-> "Connecting", connected |-> FALSE, strength |-> Zeros]
      BY <2>1 DEF SessionStart
    <3>2. Zeros \in Limits /\ limits \in Limits
      BY BleAssumption, CoyoteAssumption DEF Zeros, Limits, Strengths
    <3> QED BY <3>1, <3>2, BleAssumption DEF BleOK, BleRecords, BleStates
  <2>2. CASE GiveBack
    BY <1>0, <2>2 DEF GiveBack, BleOK, BleRecords, BleStates
  <2>3. CASE UNCHANGED ble
    BY <1>0, <2>3 DEF BleOK
  <2> QED BY <2>1, <2>2, <2>3 DEF SessionRequest, PocStart, StartCheck, Check, Launch, Withdraw,
              SessionStop, PocStop
<1>4. PocOK'
  BY <1>0 DEF PocOK, PocRecords, SessionStart, SessionRequest, PocStart, StartCheck, Check, Launch,
              Withdraw, GiveBack, SessionStop, PocStop
<1>5. WorkerOK'
  BY <1>0 DEF WorkerOK, Running, SessionStart, SessionRequest, PocStart, StartCheck, Launch,
              Withdraw, GiveBack, SessionStop, PocStop
<1>6. FlagsOK'
  <2>1. CASE SessionStart
    BY <1>0, <2>1 DEF SessionStart, FlagsOK, transport
  <2>2. CASE UNCHANGED <<transport, ghosts>>
    BY <1>0, <2>2 DEF FlagsOK, transport, ghosts
  <2> QED BY <2>1, <2>2 DEF SessionRequest, PocStart, StartCheck, Launch, Withdraw, GiveBack,
              SessionStop, PocStop
<1> QED BY <1>1, <1>2, <1>3, <1>4, <1>5, <1>6, TypePartsNext

LEMMA StageType ==
  ASSUME TypeOK, SessionSend \/ SessionUpload \/ SessionSetLimits
  PROVE  TypeOK'
<1>0. IpcOK /\ BleOK /\ PocOK /\ WorkerOK /\ LinkOK /\ FlagsOK
  BY TypeParts
<1>1. LinkOK' /\ PocOK' /\ WorkerOK'
  BY <1>0 DEF LinkOK, PocOK, WorkerOK, SessionSend, SessionUpload, SessionSetLimits, Stage, transport
<1>2. IpcOK'
  <2>1. /\ UNCHANGED <<ipc, starts>>
        /\ requests < MaxRequests /\ requests' = requests + 1
    BY DEF SessionSend, SessionUpload, SessionSetLimits, Stage
  <2> QED BY <1>0, <2>1, BleAssumption DEF IpcOK
<1>3. FlagsOK'
  <2>1. UNCHANGED <<transport, dropped, zeroed>> /\ (drift' \in BOOLEAN \/ UNCHANGED drift)
    <3>1. CASE SessionSend
      BY <3>1 DEF SessionSend, Stage
    <3>2. CASE SessionUpload \/ SessionSetLimits
      BY <3>2 DEF SessionUpload, SessionSetLimits, Stage
    <3> QED BY <3>1, <3>2
  <2> QED BY <1>0, <2>1 DEF FlagsOK, transport
<1>4. BleOK'
  <2>1. CASE SessionSend
    <3>1. PICK op \in Ops : ble' = Queued(op)
      BY <2>1 DEF SessionSend, Stage
    <3>2. CASE Len(ble.ops) < QueueMax
      <4>1. ble' = [ble EXCEPT !.ops = Append(ble.ops, op)]
        BY <3>1, <3>2 DEF Queued
      <4>2. ble.ops \in Seq(Ops) /\ QueueMax \in Nat
        BY <1>0, BleAssumption DEF BleOK, BleRecords
      <4>3. Append(ble.ops, op) \in Seq(Ops) /\ Len(Append(ble.ops, op)) <= QueueMax
        BY <3>2, <4>2
      <4> QED BY <1>0, <4>1, <4>3 DEF BleOK, BleRecords
    <3>3. CASE ~(Len(ble.ops) < QueueMax)
      BY <1>0, <3>1, <3>3 DEF Queued, BleOK
    <3> QED BY <3>2, <3>3
  <2>2. CASE SessionUpload
    BY <1>0, <2>2 DEF SessionUpload, Stage, BleOK, BleRecords
  <2>3. CASE SessionSetLimits
    BY <1>0, <2>3, BleAssumption DEF SessionSetLimits, Stage, BleOK, BleRecords
  <2> QED BY <2>1, <2>2, <2>3
<1> QED BY <1>1, <1>2, <1>3, <1>4, TypePartsNext

LEMMA ConnectsTypes ==
  ASSUME TypeOK, Connects
  PROVE  TypeOK'
<1>0. IpcOK /\ BleOK /\ PocOK /\ WorkerOK /\ LinkOK /\ FlagsOK
  BY TypeParts
<1> DEFINE up == OnConnected(SessionInit(ble.limits, "Required"))
           zero == SetStrengthZero(SetStrengthZero(up, "A"), "B")
           playing == SetWaveform(SetWaveform(zero, "A", Slots), "B", Slots)
<1>1. ble.limits \in Limits /\ Slots \in Int /\ "A" \in Channels /\ "B" \in Channels
  BY <1>0, CoyoteAssumption DEF BleOK, BleRecords, Channels
<1>2. up \in Sessions
  BY <1>1, SessionInitType, SessionCallsType
<1>3. zero \in Sessions
  <2> HIDE DEF up
  <2>1. SetStrengthZero(up, "A") \in Sessions
    BY <1>1, <1>2, SessionCallsType
  <2> QED BY <1>1, <2>1, SessionCallsType
<1>4. playing \in Sessions
  <2> HIDE DEF zero
  <2>1. SetWaveform(zero, "A", Slots) \in Sessions
    BY <1>1, <1>3, SessionCallsType
  <2> QED BY <1>1, <2>1, SessionCallsType
<1>5. session' = playing /\ session' \in Sessions
  BY <1>4 DEF Connects
<1>6. Bf(session') \in Packets
  BY <1>5, WrittenType
<1>7. Radio(<<Bf(session')>>)
  BY DEF Connects
<1> HIDE DEF playing, zero, up
<1>8. link' \in Seq(Packets) /\ lost' \in BOOLEAN
  BY <1>0, <1>6, <1>7, RadioType
<1>9. LinkOK' /\ FlagsOK'
  <2>1. LinkOK'
    BY <1>0, <1>5, <1>8 DEF LinkOK, Connects
  <2>2. UNCHANGED answers /\ heard' = FALSE /\ zeroed' = FALSE /\ dropped' = FALSE /\ drift' = ~ble.active
    BY DEF Connects
  <2>3. drift' \in BOOLEAN
    BY <2>2
  <2> QED BY <1>0, <1>8, <2>1, <2>2, <2>3 DEF FlagsOK
<1>10. BleOK'
  BY <1>0 DEF Connects, BleOK, BleRecords, BleStates
<1>11. IpcOK' /\ PocOK' /\ WorkerOK'
  BY <1>0 DEF Connects, IpcOK, PocOK, WorkerOK, Running, budget
<1> QED BY <1>9, <1>10, <1>11, TypePartsNext

LEMMA PumpTypes ==
  ASSUME LinkOK, FlagsOK, Pump
  PROVE  /\ session' \in Sessions /\ link' \in Seq(Packets) /\ air' \in Seq(Notifications)
         /\ heard' \in BOOLEAN /\ zeroed' \in BOOLEAN /\ lost' \in BOOLEAN
<1>1. PICK ready \in Sessions : PumpResult(ready)
  BY PumpDoes DEF LinkOK, FlagsOK
<1>2. B0(ready) \in Packets
  BY WrittenType
<1>3. link' \in Seq(Packets) /\ lost' \in BOOLEAN
  <2>1. link \in Seq(Packets) /\ lost \in BOOLEAN
    BY DEF LinkOK, FlagsOK
  <2>2. \/ UNCHANGED <<link, lost>> \/ (lost' = TRUE /\ UNCHANGED link)
        \/ (link' = link \o <<B0(ready)>> /\ UNCHANGED lost)
    BY <1>1 DEF PumpResult
  <2>3. link \o <<B0(ready)>> \in Seq(Packets)
    BY <1>2, <2>1, Joins
  <2> QED BY <2>1, <2>2, <2>3
<1> QED BY <1>1, <1>3 DEF PumpResult

LEMMA PumpStepTypes ==
  ASSUME TypeOK, PumpOnce \/ Drain
  PROVE  TypeOK'
<1>0. IpcOK /\ BleOK /\ PocOK /\ WorkerOK /\ LinkOK /\ FlagsOK
  BY TypeParts
<1>1. LinkOK' /\ FlagsOK'
  <2>1. UNCHANGED <<device, answers, drift, dropped>>
    BY DEF PumpOnce, Drain
  <2>2. CASE Pump
    BY <1>0, <2>1, <2>2, PumpTypes DEF LinkOK, FlagsOK
  <2>3. CASE PumpOnce /\ UNCHANGED <<session, heard, air, link, lost, zeroed>>
    BY <1>0, <2>1, <2>3 DEF LinkOK, FlagsOK
  <2> QED BY <2>2, <2>3 DEF PumpOnce, Drain
<1>2. IpcOK' /\ BleOK' /\ PocOK'
  BY <1>0 DEF PumpOnce, Drain, IpcOK, BleOK, PocOK, budget
<1>3. WorkerOK'
  <2>1. CASE PumpOnce
    BY <1>0, <2>1 DEF PumpOnce, WorkerOK, Running
  <2>2. CASE Drain
    BY <1>0, <2>2, BleAssumption DEF Drain, WorkerOK
  <2> QED BY <2>1, <2>2
<1> QED BY <1>1, <1>2, <1>3, TypePartsNext

LEMMA ClosingSession ==
  ASSUME NEW s \in Sessions
  PROVE  Closing(s) \in Sessions /\ Closing(s).limits = Zeros
<1> DEFINE capped == SetChannelLimits(s, Zeros)
           half == ClearWaveform(capped, "A")
           silent == ClearWaveform(half, "B")
           first == SetStrengthZero(silent, "A")
<1>1. "A" \in Channels /\ "B" \in Channels /\ Zeros \in Limits
  BY CoyoteAssumption DEF Channels, Zeros, Limits, Strengths
<1>2. capped \in Sessions /\ capped.limits = Zeros
  <2> DEFINE t == [s EXCEPT !.limits = Zeros]
  <2>1. t \in Sessions /\ t.limits = Zeros
    BY <1>1 DEF Sessions
  <2>2. capped = OnConnected(t)
    BY DEF SetChannelLimits
  <2> HIDE DEF t
  <2>3. OnConnected(t) \in Sessions
    BY <2>1, SessionCallsType
  <2> QED BY <2>1, <2>2, <2>3 DEF OnConnected, SessionRestart, Sessions
<1> HIDE DEF capped
<1>3. half \in Sessions /\ half.limits = Zeros
  BY <1>1, <1>2, SessionCallsType DEF ClearWaveform, Sessions
<1> HIDE DEF half
<1>4. silent \in Sessions /\ silent.limits = Zeros
  BY <1>1, <1>3, SessionCallsType DEF ClearWaveform, Sessions
<1> HIDE DEF silent
<1>5. first \in Sessions /\ first.limits = Zeros
  <2>1. first \in Sessions
    BY <1>1, <1>4, SessionCallsType
  <2> QED BY <1>4, <2>1 DEF SetStrengthZero, Sessions
<1> HIDE DEF first
<1>6. SetStrengthZero(first, "B") \in Sessions /\ SetStrengthZero(first, "B").limits = Zeros
  <2>1. SetStrengthZero(first, "B") \in Sessions
    BY <1>1, <1>5, SessionCallsType
  <2> QED BY <1>5, <2>1 DEF SetStrengthZero, Sessions
<1>7. Closing(s) = SetStrengthZero(first, "B")
  BY DEF Closing, first, silent, half, capped
<1> QED BY <1>6, <1>7

LEMMA CloseTypes ==
  ASSUME TypeOK, Close
  PROVE  TypeOK'
<1>0. IpcOK /\ BleOK /\ PocOK /\ WorkerOK /\ LinkOK /\ FlagsOK
  BY TypeParts
<1>1. session' \in Sessions
  BY <1>0, ClosingSession DEF Close, LinkOK
<1>2. link' \in Seq(Packets) /\ lost' \in BOOLEAN
  <2>1. Bf(session') \in Packets /\ Radio(<<Bf(session')>>)
    BY <1>1, WrittenType DEF Close
  <2> QED BY <1>0, <2>1, RadioType
<1>3. LinkOK' /\ FlagsOK'
  BY <1>0, <1>1, <1>2 DEF LinkOK, FlagsOK, Close, ghosts
<1>4. IpcOK' /\ BleOK' /\ PocOK' /\ WorkerOK'
  BY <1>0, BleAssumption DEF Close, IpcOK, BleOK, PocOK, WorkerOK, Running, budget
<1> QED BY <1>3, <1>4, TypePartsNext

LEMMA WorkerStepTypes ==
  ASSUME TypeOK, Wake \/ ConnectFails \/ TransportStop \/ SessionEnds \/ WorkerExits
  PROVE  TypeOK'
<1>0. IpcOK /\ BleOK /\ PocOK /\ WorkerOK /\ LinkOK /\ FlagsOK
  BY TypeParts
<1>1. IpcOK'
  BY <1>0 DEF IpcOK, Wake, ConnectFails, TransportStop, SessionEnds, WorkerExits, budget
<1>2. BleOK'
  BY <1>0 DEF BleOK, BleRecords, BleStates, Wake, ConnectFails, TransportStop, SessionEnds, WorkerExits
<1>3. PocOK'
  BY <1>0 DEF PocOK, PocRecords, Wake, ConnectFails, TransportStop, SessionEnds, WorkerExits
<1>4. WorkerOK'
  BY <1>0, BleAssumption
     DEF WorkerOK, Running, Wake, ConnectFails, TransportStop, SessionEnds, WorkerExits
<1>5. LinkOK' /\ FlagsOK'
  <2>1. CASE TransportStop
    <3>1. OnDisconnected(session) \in Sessions
      BY <1>0, SessionCallsType DEF LinkOK
    <3> QED BY <1>0, <2>1, <3>1 DEF TransportStop, LinkOK, FlagsOK, ghosts
  <2>2. CASE SessionEnds
    <3>1. /\ UNCHANGED <<session, device, heard, answers>> /\ link' = <<>> /\ air' = <<>>
          /\ lost' = FALSE /\ drift' = FALSE /\ dropped' = FALSE /\ zeroed' = FALSE
      BY <2>2 DEF SessionEnds
    <3>2. LinkOK'
      BY <1>0, <3>1 DEF LinkOK
    <3> QED BY <1>0, <3>1, <3>2 DEF FlagsOK
  <2>3. CASE UNCHANGED <<transport, ghosts>>
    BY <1>0, <2>3 DEF LinkOK, FlagsOK, transport, ghosts
  <2> QED BY <2>1, <2>2, <2>3 DEF Wake, ConnectFails, WorkerExits
<1> QED BY <1>1, <1>2, <1>3, <1>4, <1>5, TypePartsNext

LEMMA ReadTypes ==
  ASSUME TypeOK, DeviceReads
  PROVE  TypeOK'
<1>0. IpcOK /\ BleOK /\ PocOK /\ WorkerOK /\ LinkOK /\ FlagsOK
  BY TypeParts
<1>1. link \in Seq(Packets) /\ link # <<>> /\ Head(link) \in Packets /\ Tail(link) \in Seq(Packets)
  BY <1>0 DEF DeviceReads, LinkOK
<1>2. device' \in Devices
  BY <1>0, <1>1, DeviceType DEF DeviceReads, LinkOK
<1>3. air' \in Seq(Notifications)
  <2> DEFINE b1 == [sequence |-> Head(link).sequence, strength |-> device'.strength]
  <2>1. b1 \in Notifications
    BY <1>1, <1>2 DEF Notifications, Packets, Devices
  <2>2. air' \in {air, Append(air, b1)} /\ air \in Seq(Notifications)
    BY <1>0 DEF DeviceReads, LinkOK
  <2> HIDE DEF b1
  <2> QED BY <2>1, <2>2
<1>4. LinkOK' /\ FlagsOK'
  BY <1>0, <1>1, <1>2, <1>3 DEF LinkOK, FlagsOK, DeviceReads, ghosts
<1>5. IpcOK' /\ BleOK' /\ PocOK' /\ WorkerOK'
  BY <1>0 DEF DeviceReads, IpcOK, BleOK, PocOK, WorkerOK, bleVars, budget
<1> QED BY <1>4, <1>5, TypePartsNext

-----------------------------------------------------------------------------
(* ApplyInputs *)

\* The ceilings in force once the staged ones are taken, and the session they leave.
Ceilings == IF ble.newLimits = None THEN ble.limits ELSE ble.newLimits
Capped == IF ble.newLimits = None THEN session ELSE SetChannelLimits(session, Ceilings)
Begun == [session |-> Uploaded(Capped), strength |-> ble.strength, drift |-> drift]

LEMMA LimitsSession ==
  ASSUME NEW s \in Sessions, NEW limits \in Limits
  PROVE  /\ SetChannelLimits(s, limits) \in Sessions /\ SetChannelLimits(s, limits).limits = limits
         /\ SetChannelLimits(s, limits).gate.pending = Zeros
         /\ SetChannelLimits(s, limits).gate.zero = Nothing
<1> DEFINE t == [s EXCEPT !.limits = limits]
<1>1. t \in Sessions /\ t.limits = limits
  BY DEF Sessions
<1>2. SetChannelLimits(s, limits) = OnConnected(t)
  BY DEF SetChannelLimits
<1> HIDE DEF t
<1>3. OnConnected(t) \in Sessions
  BY <1>1, SessionCallsType
<1> QED BY <1>1, <1>2, <1>3 DEF OnConnected, SessionRestart, Sessions, GateInit

LEMMA InputsDo ==
  ASSUME TypeOK, ApplyInputs
  PROVE  /\ Ceilings \in Limits /\ Capped \in Sessions /\ Begun \in Accounts
         /\ Requested(Begun, ble.ops, Ceilings) \in Accounts
         /\ session' = Requested(Begun, ble.ops, Ceilings).session
         /\ drift' = Requested(Begun, ble.ops, Ceilings).drift
         /\ ble' = [ble EXCEPT !.limits = Ceilings, !.newLimits = None, !.upload = None,
                      !.ops = <<>>, !.strength = Requested(Begun, ble.ops, Ceilings).strength]
         /\ Radio(IF ble.newLimits = None THEN <<>> ELSE <<Bf(Capped)>>)
<1>0. IpcOK /\ BleOK /\ PocOK /\ WorkerOK /\ LinkOK /\ FlagsOK
  BY TypeParts
<1>1. Ceilings \in Limits
  BY <1>0 DEF Ceilings, BleOK, BleRecords
<1>2. Capped \in Sessions
  BY <1>0, <1>1, LimitsSession DEF Capped, LinkOK
<1>3. Uploaded(Capped) \in Sessions
  <2>1. ble.upload \in Uploads \cup {None}
    BY <1>0 DEF BleOK, BleRecords
  <2> QED BY <1>2, <2>1, UploadedSame DEF Same
<1>4. Begun \in Accounts
  BY <1>0, <1>3 DEF Begun, Accounts, BleOK, BleRecords, FlagsOK
<1>5. Requested(Begun, ble.ops, Ceilings) \in Accounts
  <2>1. ble.ops \in Seq(Ops) /\ Len(ble.ops) \in 0..Len(ble.ops)
    BY <1>0 DEF BleOK, BleRecords
  <2> QED BY <1>1, <1>4, <2>1, ApplyFold
<1>6. /\ session' = Requested(Begun, ble.ops, Ceilings).session
      /\ drift' = Requested(Begun, ble.ops, Ceilings).drift
  BY DEF ApplyInputs, Requested, Begun, Capped, Ceilings
<1>7. ble' = [ble EXCEPT !.limits = Ceilings, !.newLimits = None, !.upload = None,
                !.ops = <<>>, !.strength = Requested(Begun, ble.ops, Ceilings).strength]
  BY DEF ApplyInputs, Requested, Begun, Capped, Ceilings
<1>8. Radio(IF ble.newLimits = None THEN <<>> ELSE <<Bf(Capped)>>)
  BY DEF ApplyInputs, Capped, Ceilings
<1> QED BY <1>1, <1>2, <1>4, <1>5, <1>6, <1>7, <1>8

LEMMA InputsTypes ==
  ASSUME TypeOK, ApplyInputs
  PROVE  TypeOK'
<1>0. IpcOK /\ BleOK /\ PocOK /\ WorkerOK /\ LinkOK /\ FlagsOK
  BY TypeParts
<1> DEFINE done == Requested(Begun, ble.ops, Ceilings)
<1>1. /\ Ceilings \in Limits /\ Capped \in Sessions /\ done \in Accounts
      /\ session' = done.session /\ drift' = done.drift
      /\ ble' = [ble EXCEPT !.limits = Ceilings, !.newLimits = None, !.upload = None,
                   !.ops = <<>>, !.strength = done.strength]
      /\ Radio(IF ble.newLimits = None THEN <<>> ELSE <<Bf(Capped)>>)
  BY InputsDo
<1> HIDE DEF done
<1>2. session' \in Sessions /\ drift' \in BOOLEAN
  BY <1>1 DEF Accounts
<1>3. BleOK'
  <2>1. done.strength \in Limits /\ <<>> \in Seq(Ops) /\ Len(<<>>) = 0
    BY <1>1 DEF Accounts
  <2>2. ble' \in BleRecords
    BY <1>0, <1>1, <2>1 DEF BleOK, BleRecords
  <2>3. ble'.ops = <<>>
    BY <1>0, <1>1 DEF BleOK, BleRecords
  <2> QED BY <2>1, <2>2, <2>3, BleAssumption DEF BleOK
<1>4. link' \in Seq(Packets) /\ lost' \in BOOLEAN
  <2>1. CASE ble.newLimits = None
    BY <1>0, <1>1, <2>1 DEF Radio, LinkOK, FlagsOK
  <2>2. CASE ble.newLimits # None
    <3>1. Bf(Capped) \in Packets /\ Radio(<<Bf(Capped)>>)
      BY <1>1, <2>2, WrittenType
    <3> QED BY <1>0, <3>1, RadioType
  <2> QED BY <2>1, <2>2
<1>5. dropped' \in BOOLEAN
  BY <1>0 DEF ApplyInputs, FlagsOK
<1>6. UNCHANGED <<ipc, poc, drained, heard, air, device, answers, zeroed, budget>>
      /\ worker' = "pumping"
  BY DEF ApplyInputs
<1>7. LinkOK' /\ FlagsOK'
  BY <1>0, <1>2, <1>4, <1>5, <1>6 DEF LinkOK, FlagsOK
<1>8. IpcOK' /\ PocOK' /\ WorkerOK'
  BY <1>0, <1>6 DEF IpcOK, PocOK, WorkerOK, Running, budget
<1> QED BY <1>3, <1>7, <1>8, TypePartsNext

LEMMA BleNextType == TypeOK /\ [Next]_vars => TypeOK'
<1> SUFFICES ASSUME TypeOK, [Next]_vars PROVE TypeOK'
  OBVIOUS
<1>1. CASE Wake \/ ConnectFails \/ TransportStop \/ SessionEnds \/ WorkerExits
  BY <1>1, WorkerStepTypes
<1>2. CASE Connects
  BY <1>2, ConnectsTypes
<1>3. CASE ApplyInputs
  BY <1>3, InputsTypes
<1>4. CASE PumpOnce \/ Drain
  BY <1>4, PumpStepTypes
<1>5. CASE Close
  BY <1>5, CloseTypes
<1>6. CASE Serve \/ SessionStart \/ PocStart \/ SessionStop \/ PocStop
  BY <1>6, IpcStepType DEF Serve
<1>7. CASE SessionSend \/ SessionUpload \/ SessionSetLimits
  BY <1>7, StageType
<1>8. CASE DeviceReads
  BY <1>8, ReadTypes
<1>9. CASE UNCHANGED vars
  BY <1>9 DEF TypeOK, vars, bleVars, transport, ghosts, budget
<1> QED BY <1>1, <1>2, <1>3, <1>4, <1>5, <1>6, <1>7, <1>8, <1>9 DEF Next, Worker, Deadline, Ask

(* The structures shared under g_ble's and g_poc's locks, the session and what is on the
   link keep their types, and the staged strengths never outgrow their queue. *)
THEOREM BleType == Spec => []TypeOK
<1> QED BY BleInitType, BleNextType, PTL DEF Spec

-----------------------------------------------------------------------------
(* The device is capped at the end. *)

\* The ceilings the device has once everything on its way has arrived.
CapsAtEnd ==
  worker \in {"draining", "ending"} /\ ble.state = "Connected" /\ ~lost =>
    Arrived(device, link).limits = Zeros

LEMMA ArrivedEventually == Eventually = Arrived(device, link)
BY DEF Eventually, Arrived, FoldLeft, MapThenFoldSet

\* What the device reads leaves the link: what finally arrives is the same.
LEMMA ReadsArrive ==
  ASSUME TypeOK, DeviceReads
  PROVE  Arrived(device', link') = Arrived(device, link)
BY ArrivedTail DEF TypeOK, DeviceReads

\* Only a packet that sets the ceilings changes them.
LEMMA ArrivedOne ==
  ASSUME TypeOK, NEW p \in Packets, link' = link \o <<p>>, UNCHANGED device
  PROVE  /\ Arrived(device', link') = DeviceTakes(Arrived(device, link), p)
         /\ p.kind = "BF" => Arrived(device', link').limits = p.limits
         /\ p.kind = "B0" => Arrived(device', link').limits = Arrived(device, link).limits
<1>1. Arrived(device', link') = DeviceTakes(Arrived(device, link), p)
  BY ArrivedAppend DEF TypeOK
<1>2. Arrived(device, link) \in Devices
  BY ArrivedThrough DEF TypeOK
<1> QED BY <1>1, <1>2 DEF DeviceTakes, Devices

LEMMA PumpCaps ==
  ASSUME TypeOK, Pump, UNCHANGED device
  PROVE  ~lost' => ~lost /\ Arrived(device', link').limits = Arrived(device, link).limits
<1>0. LinkOK /\ FlagsOK
  BY TypeParts
<1>1. PICK ready \in Sessions : PumpResult(ready)
  BY <1>0, PumpDoes DEF LinkOK, FlagsOK
<1>2. B0(ready) \in Packets /\ B0(ready).kind = "B0"
  BY WrittenType DEF B0
<1>3. CASE UNCHANGED <<link, lost>>
  BY <1>3
<1>4. CASE lost' = TRUE
  BY <1>4
<1>5. CASE link' = link \o <<B0(ready)>> /\ UNCHANGED lost
  BY <1>2, <1>5, ArrivedOne
<1> QED BY <1>1, <1>3, <1>4, <1>5 DEF PumpResult

LEMMA CapsInit == Init => CapsAtEnd
BY DEF Init, CapsAtEnd

LEMMA CapsNext == TypeOK /\ CapsAtEnd /\ [Next]_vars => CapsAtEnd'
<1> SUFFICES ASSUME TypeOK, CapsAtEnd, [Next]_vars PROVE CapsAtEnd'
  OBVIOUS
<1>1. CASE Close
  <2>1. session' \in Sessions /\ session'.limits = Zeros
    BY <1>1, ClosingSession DEF Close, TypeOK
  <2>2. Bf(session') \in Packets /\ Bf(session').kind = "BF" /\ Bf(session').limits = Zeros
    BY <2>1, WrittenType DEF Bf
  <2>3. Radio(<<Bf(session')>>) /\ UNCHANGED device
    BY <1>1 DEF Close
  <2>4. lost' \/ link' = link \o <<Bf(session')>>
    BY <2>2, <2>3, RadioType, TypeParts
  <2>5. ~lost' => Arrived(device', link').limits = Zeros
    BY <2>2, <2>3, <2>4, ArrivedOne
  <2> QED BY <2>5 DEF CapsAtEnd
<1>2. CASE Drain
  BY <1>2, PumpCaps DEF Drain, CapsAtEnd
<1>3. CASE DeviceReads
  <2>1. UNCHANGED <<worker, ble, lost>>
    BY <1>3 DEF DeviceReads, bleVars
  <2> QED BY <1>3, <2>1, ReadsArrive DEF CapsAtEnd
<1>4. CASE TransportStop
  BY <1>4 DEF TransportStop, CapsAtEnd
<1>5. CASE ConnectFails
  BY <1>5 DEF ConnectFails, CapsAtEnd, TypeOK
<1>6. CASE Wake \/ Connects \/ ApplyInputs \/ PumpOnce \/ SessionEnds \/ WorkerExits
  BY <1>6 DEF Wake, Connects, ApplyInputs, PumpOnce, SessionEnds, WorkerExits, CapsAtEnd
<1>7. CASE Launch
  BY <1>7 DEF Launch, CapsAtEnd
<1>8. CASE SessionStart \/ GiveBack
  <2>1. ble'.state # "Connected"
    <3>1. CASE SessionStart
      <4>1. \E limits \in CeilingPairs : ble'.state = "Connecting"
        BY <3>1 DEF SessionStart
      <4> QED BY <4>1
    <3>2. CASE GiveBack
      BY <3>2 DEF GiveBack, TypeOK
    <3> QED BY <1>8, <3>1, <3>2
  <2> QED BY <2>1 DEF CapsAtEnd
<1>9. CASE SessionRequest \/ StartCheck \/ Withdraw \/ PocStop \/ PocStart \/ SessionStop
  <2>1. UNCHANGED <<ble, worker, lost, device, link>>
    BY <1>9 DEF SessionRequest, StartCheck, Check, Withdraw, PocStop, PocStart, SessionStop, transport
  <2> QED BY <2>1 DEF CapsAtEnd
<1>10. CASE SessionSend \/ SessionUpload \/ SessionSetLimits
  <2>1. UNCHANGED <<worker, lost, device, link>>
    BY <1>10 DEF SessionSend, SessionUpload, SessionSetLimits, Stage, transport
  <2>2. ble'.state = ble.state
    BY <1>10 DEF SessionSend, SessionUpload, SessionSetLimits, Stage, Queued, TypeOK
  <2> QED BY <2>1, <2>2 DEF CapsAtEnd
<1>11. CASE UNCHANGED vars
  BY <1>11 DEF CapsAtEnd, vars, bleVars, transport
<1> QED BY <1>1, <1>2, <1>3, <1>4, <1>5, <1>6, <1>7, <1>8, <1>9, <1>10, <1>11
        DEF Next, Worker, Deadline, Serve, Ask

(* However a session ends, the device it leaves behind is capped at 0 on both channels
   before the link goes down, unless the packet was lost (ble_poc.c:1429-1441). *)
THEOREM EndIsCapped == Spec => []CappedAtEnd
<1>1. CapsAtEnd => CappedAtEnd
  BY ArrivedEventually DEF CapsAtEnd, CappedAtEnd
<1> QED BY <1>1, CapsInit, CapsNext, BleType, PTL DEF Spec

-----------------------------------------------------------------------------
(* The books: the strength in the status against what the device will have. *)

\* A strength agrees with a device when what the gate owes makes up the difference.
Meets(gate, ch, strength, has) ==
  strength = gate.pending[ch] + (IF gate.zero[ch] THEN 0 ELSE has)

\* It lies under the ceiling besides, so that no change is clipped on the way.
Even(gate, e, strength, limits) ==
  /\ e.limits = limits
  /\ \A ch \in Channels : Meets(gate, ch, strength[ch], e.strength[ch]) /\ strength[ch] <= limits[ch]

Ledger ==
  Streaming /\ ble.active /\ ~lost /\ ~drift /\ ~dropped =>
    Even(session.gate, Arrived(device, link), ble.strength, ble.limits)

\* A session that has not reached its device yet shows no strength.
Fresh ==
  worker \in {"leaving", "exited", "waking", "connecting"} /\ ble.active => ble.strength = Zeros

\* What a packet carries for a channel, and what the gate owes once it is built.
LEMMA PacketCarries ==
  ASSUME NEW gate \in Gates, NEW ch \in Channels
  PROVE  \/ /\ PacketChange(gate)[ch].mode = "NoChange"
            /\ ApplyToPacket(gate).pending[ch] = gate.pending[ch]
            /\ ApplyToPacket(gate).zero[ch] = gate.zero[ch]
         \/ /\ PacketChange(gate)[ch].mode = "Absolute" /\ PacketChange(gate)[ch].value = 0
            /\ ApplyToPacket(gate).pending[ch] = gate.pending[ch]
            /\ gate.zero[ch] /\ ~ApplyToPacket(gate).zero[ch]
         \/ /\ PacketChange(gate)[ch].mode = "Relative"
            /\ PacketChange(gate)[ch].value = gate.pending[ch]
            /\ ApplyToPacket(gate).pending[ch] = 0
            /\ ~gate.zero[ch] /\ ~ApplyToPacket(gate).zero[ch]
<1> DEFINE c == PacketChange(gate)[ch]
           g == ApplyToPacket(gate)
<1>1. gate.pending[ch] \in Deltas
  BY DEF Gates
<1>2. \/ c = NoChange
      \/ c = ToZero /\ gate.zero[ch]
      \/ c = [mode |-> "Relative", value |-> gate.pending[ch]] /\ ~gate.zero[ch]
  <2>1. ClampToStrengthRange(gate.pending[ch]) = gate.pending[ch]
    BY <1>1, CoyoteAssumption DEF ClampToStrengthRange, Deltas
  <2> QED BY <2>1 DEF PacketChange, ChannelChange
<1>3. /\ g.pending[ch] = IF c.mode = "Relative" THEN 0 ELSE gate.pending[ch]
      /\ g.zero[ch] = IF c.mode = "Absolute" THEN FALSE ELSE gate.zero[ch]
  BY DEF ApplyToPacket, Gates
<1> HIDE DEF c, g
<1>4. CASE c = NoChange
  BY <1>3, <1>4 DEF NoChange, c, g
<1>5. CASE c = ToZero /\ gate.zero[ch]
  BY <1>3, <1>5 DEF ToZero, c, g
<1>6. CASE c = [mode |-> "Relative", value |-> gate.pending[ch]] /\ ~gate.zero[ch]
  BY <1>3, <1>6 DEF c, g
<1> QED BY <1>2, <1>4, <1>5, <1>6

LEMMA InRange ==
  ASSUME NEW v \in Strengths, NEW limit \in Strengths, v <= limit
  PROVE  Within(v, limit) = v
BY CoyoteAssumption DEF Within, Strengths

LEMMA ZeroInRange ==
  ASSUME NEW limit \in Strengths
  PROVE  Within(0, limit) = 0
BY CoyoteAssumption DEF Within, Strengths

\* A packet moves what it carries from what is owed to what the device will have.
LEMMA EvenPacket ==
  ASSUME NEW gate \in Gates, NEW t \in Gates, Carries(gate, t), NEW e \in Devices,
         NEW strength \in Limits, NEW limits \in Limits, Even(gate, e, strength, limits),
         NEW p, p.kind = "B0", p.change = PacketChange(gate)
  PROVE  Even(t, DeviceTakes(e, p), strength, limits)
<1> DEFINE f == DeviceTakes(e, p)
<1>1. f.limits = limits /\ \A ch \in Channels : f.strength[ch] = Changed(e, p.change)[ch]
  BY DEF DeviceTakes, Devices, Even
<1>2. SUFFICES ASSUME NEW ch \in Channels
               PROVE  Meets(t, ch, strength[ch], f.strength[ch])
  BY <1>1 DEF Even
<1>3. /\ strength[ch] \in Strengths /\ limits[ch] \in Strengths /\ e.strength[ch] \in Strengths
      /\ strength[ch] <= limits[ch] /\ e.limits[ch] = limits[ch]
      /\ Meets(gate, ch, strength[ch], e.strength[ch])
  BY DEF Even, Limits, Devices
<1>4. gate.pending[ch] \in Int
  BY CoyoteAssumption DEF Gates, Deltas
<1>5. /\ t.pending[ch] = ApplyToPacket(gate).pending[ch]
      /\ t.zero[ch] = ApplyToPacket(gate).zero[ch]
  BY DEF Carries
<1>6. strength[ch] \in Int /\ e.strength[ch] \in Int
  BY <1>3, CoyoteAssumption DEF Strengths
<1> DEFINE c == p.change[ch]
<1>7. f.strength[ch] = CASE c.mode = "Absolute" -> Within(c.value, limits[ch])
                         [] c.mode = "Relative" -> Within(e.strength[ch] + c.value, limits[ch])
                         [] OTHER -> e.strength[ch]
  BY <1>1, <1>3 DEF Changed
<1>8. c = PacketChange(gate)[ch]
  OBVIOUS
<1> HIDE DEF c, f
<1>9. CASE c.mode = "NoChange"
  <2>1. t.pending[ch] = gate.pending[ch] /\ t.zero[ch] = gate.zero[ch]
    BY <1>5, <1>8, <1>9, PacketCarries
  <2>2. f.strength[ch] = e.strength[ch]
    BY <1>7, <1>9
  <2> QED BY <1>3, <2>1, <2>2 DEF Meets
<1>10. CASE c.mode = "Absolute"
  <2>1. t.pending[ch] = gate.pending[ch] /\ gate.zero[ch] /\ ~t.zero[ch] /\ c.value = 0
    BY <1>5, <1>8, <1>10, PacketCarries
  <2>2. f.strength[ch] = 0
    BY <1>3, <1>7, <1>10, <2>1, ZeroInRange
  <2> QED BY <1>3, <1>4, <2>1, <2>2 DEF Meets
<1>11. CASE c.mode = "Relative"
  <2>1. t.pending[ch] = 0 /\ ~gate.zero[ch] /\ ~t.zero[ch] /\ c.value = gate.pending[ch]
    BY <1>5, <1>8, <1>11, PacketCarries
  <2>2. e.strength[ch] + c.value = strength[ch]
    BY <1>3, <1>4, <1>6, <2>1 DEF Meets
  <2>3. f.strength[ch] = Within(strength[ch], limits[ch])
    BY <1>7, <1>11, <2>2
  <2>4. f.strength[ch] = strength[ch]
    BY <1>3, <2>3, InRange
  <2> QED BY <1>6, <2>1, <2>4 DEF Meets
<1> QED BY <1>8, <1>9, <1>10, <1>11, PacketCarries

\* The books depend on what the gate owes only.
LEMMA EvenSame ==
  ASSUME NEW gate, NEW t, t.pending = gate.pending, t.zero = gate.zero,
         NEW e, NEW strength, NEW limits, Even(gate, e, strength, limits)
  PROVE  Even(t, e, strength, limits)
BY DEF Even, Meets

\* A packet that changes nothing is not written, and the gate owes what it owed.
LEMMA PlainOwes ==
  ASSUME NEW gate \in Gates, NEW t \in Gates, Carries(gate, t),
         \A ch \in Channels : PacketChange(gate)[ch] = NoChange
  PROVE  t.pending = gate.pending /\ t.zero = gate.zero
<1>1. \A ch \in Channels : PacketChange(gate)[ch].mode = "NoChange"
  BY DEF NoChange
<1>2. \A ch \in Channels : /\ ApplyToPacket(gate).pending[ch] = gate.pending[ch]
                          /\ ApplyToPacket(gate).zero[ch] = gate.zero[ch]
  BY <1>1, PacketCarries
<1>3. \A ch \in Channels : t.pending[ch] = gate.pending[ch] /\ t.zero[ch] = gate.zero[ch]
  BY <1>2 DEF Carries
<1> QED BY <1>3 DEF Gates

\* An adjustment leaves the other channel and the zeros alone.
LEMMA AdjustedOwes ==
  ASSUME NEW s \in Sessions, NEW ch \in Channels, NEW d \in Int
  PROVE  /\ AdjustStrength(s, ch, d).gate.zero = s.gate.zero
         /\ \A o \in Channels \ {ch} :
              AdjustStrength(s, ch, d).gate.pending[o] = s.gate.pending[o]
<1> DEFINE v == ClampToStrengthRange(s.gate.pending[ch] + d)
<1>1. CASE s.connected
  <2>1. AdjustStrength(s, ch, d).gate = [s.gate EXCEPT !.pending[ch] = v]
    BY <1>1 DEF AdjustStrength, Adjust, Sessions
  <2> HIDE DEF v
  <2>2. s.gate \in Gates
    BY DEF Sessions
  <2> QED BY <2>1, <2>2 DEF Gates
<1>2. CASE ~s.connected
  BY <1>2 DEF AdjustStrength
<1> QED BY <1>1, <1>2

LEMMA WithinUnder ==
  ASSUME NEW v \in Int, NEW limit \in Strengths
  PROVE  Within(v, limit) <= limit
BY CoyoteAssumption DEF Within, Strengths

\* A request that is neither clipped nor clamped is entered on both sides.
LEMMA OpEven ==
  ASSUME NEW acc \in Accounts, NEW op \in Ops, NEW limits \in Limits, NEW e \in Devices,
         acc.drift \/ Even(acc.session.gate, e, acc.strength, limits)
  PROVE  LET out == ApplyOp(acc, op, limits)
         IN  out.drift \/ Even(out.session.gate, e, out.strength, limits)
<1> DEFINE ch == op.channel
           current == acc.strength[ch]
           delta == Delta(op, current)
           next == Within(current + delta, limits[ch])
           adjusted == AdjustStrength(acc.session, ch, delta)
           out == ApplyOp(acc, op, limits)
<1>1. /\ out.session = adjusted /\ out.strength = [acc.strength EXCEPT ![ch] = next]
      /\ ~out.drift => /\ ~acc.drift /\ next = current + delta
                       /\ adjusted.gate.pending[ch] = acc.session.gate.pending[ch] + delta
  BY DEF ApplyOp
<1>2. ch \in Channels /\ current \in Strengths /\ op.value \in Strengths /\ limits[ch] \in Strengths
  BY DEF Accounts, Limits, Ops
<1>3. current \in Int /\ op.value \in Int
  BY <1>2, CoyoteAssumption DEF Strengths
<1>4. delta \in Int
  <2> HIDE DEF current
  <2> QED BY <1>3 DEF Delta
<1>5. next <= limits[ch]
  <2> HIDE DEF delta, current
  <2>1. current + delta \in Int
    BY <1>3, <1>4
  <2> QED BY <1>2, <2>1, WithinUnder
<1>6. /\ adjusted.gate.zero = acc.session.gate.zero
      /\ \A o \in Channels \ {ch} : adjusted.gate.pending[o] = acc.session.gate.pending[o]
  <2> HIDE DEF delta
  <2> QED BY <1>2, <1>4, AdjustedOwes DEF Accounts
<1>7. /\ acc.session.gate.pending \in [Channels -> Deltas]
      /\ acc.strength \in [Channels -> Strengths] /\ e.strength \in [Channels -> Strengths]
  BY DEF Accounts, Sessions, Gates, Limits, Devices
<1> HIDE DEF next, adjusted, delta, out
<1>8. SUFFICES ASSUME ~out.drift PROVE Even(out.session.gate, e, out.strength, limits)
  BY DEF out
<1>9. Even(acc.session.gate, e, acc.strength, limits)
  BY <1>1, <1>8
<1>10. ASSUME NEW o \in Channels
       PROVE  Meets(adjusted.gate, o, out.strength[o], e.strength[o]) /\ out.strength[o] <= limits[o]
  <2>1. CASE o = ch
    <3>1. out.strength[o] = current + delta /\ out.strength[o] <= limits[o]
      BY <1>1, <1>5, <1>7, <1>8, <2>1
    <3>2. adjusted.gate.pending[o] = acc.session.gate.pending[o] + delta
      BY <1>1, <1>8, <2>1
    <3>3. Meets(acc.session.gate, o, current, e.strength[o])
      BY <1>9, <2>1 DEF Even
    <3>4. /\ acc.session.gate.pending[o] \in Int /\ e.strength[o] \in Int
      BY <1>7, CoyoteAssumption DEF Deltas, Strengths
    <3>5. CASE acc.session.gate.zero[o]
      BY <1>3, <1>4, <1>6, <3>1, <3>2, <3>3, <3>4, <3>5 DEF Meets
    <3>6. CASE ~acc.session.gate.zero[o]
      BY <1>3, <1>4, <1>6, <3>1, <3>2, <3>3, <3>4, <3>6 DEF Meets
    <3> QED BY <3>1, <3>5, <3>6
  <2>2. CASE o # ch
    <3>1. out.strength[o] = acc.strength[o] /\ adjusted.gate.pending[o] = acc.session.gate.pending[o]
      BY <1>1, <1>6, <1>7, <2>2
    <3>2. /\ Meets(acc.session.gate, o, acc.strength[o], e.strength[o])
          /\ acc.strength[o] <= limits[o]
      BY <1>9 DEF Even
    <3> QED BY <1>6, <3>1, <3>2 DEF Meets
  <2> QED BY <2>1, <2>2
<1>11. e.limits = limits
  BY <1>9 DEF Even
<1> QED BY <1>1, <1>10, <1>11 DEF Even

\* So is a whole queue of them.
LEMMA RequestsEven ==
  ASSUME NEW start \in Accounts, NEW queue \in Seq(Ops), NEW limits \in Limits, NEW e \in Devices,
         start.drift \/ Even(start.session.gate, e, start.strength, limits)
  PROVE  \/ Requested(start, queue, limits).drift
         \/ Even(Requested(start, queue, limits).session.gate, e,
                 Requested(start, queue, limits).strength, limits)
<1> DEFINE n == Len(queue)
           Good(acc) == acc.drift \/ Even(acc.session.gate, e, acc.strength, limits)
<1>1. n \in Nat /\ \A k \in 1..n : queue[k] \in Ops
  OBVIOUS
<1>2. PICK v : /\ v \in [0..n -> Accounts] /\ v[0] = start
               /\ \A k \in 1..n : v[k] = ApplyOp(v[k - 1], queue[k], limits)
               /\ Requested(start, queue, limits) = v[n]
  BY ApplyFold
<1>3. \A acc \in Accounts, op \in Ops : Good(acc) => Good(ApplyOp(acc, op, limits))
  BY OpEven
<1>4. Good(start)
  OBVIOUS
<1> HIDE DEF n, Good
<1> DEFINE S == {k \in Nat : k <= n => Good(v[k])}
<1>5. 0 \in S
  BY <1>2, <1>4
<1>6. ASSUME NEW k \in Nat, k \in S PROVE k + 1 \in S
  <2> SUFFICES ASSUME k + 1 <= n PROVE Good(v[k + 1])
    OBVIOUS
  <2>1. k + 1 \in 1..n /\ k \in 0..n /\ (k + 1) - 1 = k
    BY <1>1
  <2>2. Good(v[k])
    BY <1>1, <1>6
  <2>3. v[k + 1] = ApplyOp(v[k], queue[k + 1], limits) /\ v[k] \in Accounts /\ queue[k + 1] \in Ops
    BY <1>1, <1>2, <2>1
  <2> QED BY <1>3, <2>2, <2>3
<1>7. Good(v[n])
  <2> HIDE DEF S
  <2>1. n \in S /\ n <= n
    BY <1>1, <1>5, <1>6, EveryNumber
  <2> QED BY <2>1 DEF S
<1> QED BY <1>2, <1>7 DEF Good

\* New ceilings that drop nothing leave the books even.
LEMMA EvenCeilings ==
  ASSUME NEW gate \in Gates, ~Owes(gate), NEW e \in Devices, NEW strength \in Limits,
         NEW old, Even(gate, e, strength, old), NEW limits \in Limits,
         \A ch \in Channels : ~(strength[ch] > limits[ch]),
         NEW t, t.pending = Zeros, t.zero = Nothing, NEW p, p.kind = "BF", p.limits = limits
  PROVE  Even(t, DeviceTakes(e, p), strength, limits)
<1> DEFINE f == DeviceTakes(e, p)
<1>1. f.limits = limits /\ \A ch \in Channels : f.strength[ch] = Within(e.strength[ch], limits[ch])
  BY DEF DeviceTakes
<1> HIDE DEF f
<1>2. ASSUME NEW ch \in Channels
      PROVE  Meets(t, ch, strength[ch], f.strength[ch]) /\ strength[ch] <= limits[ch]
  <2>1. /\ strength[ch] \in Strengths /\ limits[ch] \in Strengths /\ e.strength[ch] \in Strengths
    BY DEF Limits, Devices
  <2>2. strength[ch] \in Int /\ limits[ch] \in Int /\ e.strength[ch] \in Int
    BY <2>1, CoyoteAssumption DEF Strengths
  <2>3. strength[ch] <= limits[ch]
    BY <2>2
  <2>4. gate.pending[ch] = 0 /\ ~gate.zero[ch]
    BY DEF Owes
  <2>5. Meets(gate, ch, strength[ch], e.strength[ch])
    BY DEF Even
  <2>6. strength[ch] = e.strength[ch]
    BY <2>2, <2>4, <2>5 DEF Meets
  <2>7. f.strength[ch] = strength[ch]
    BY <1>1, <2>1, <2>3, <2>6, InRange
  <2>8. t.pending[ch] = 0 /\ ~t.zero[ch]
    BY DEF Zeros, Nothing
  <2> QED BY <2>2, <2>3, <2>7, <2>8 DEF Meets
<1> QED BY <1>1, <1>2 DEF Even, f

\* What was staged is applied under the ceilings that were staged with it.
LEMMA InputsLedger ==
  ASSUME TypeOK, Ledger, ApplyInputs
  PROVE  Ledger'
<1>0. IpcOK /\ BleOK /\ PocOK /\ WorkerOK /\ LinkOK /\ FlagsOK
  BY TypeParts
<1> DEFINE done == Requested(Begun, ble.ops, Ceilings)
           e == Arrived(device, link)
           f == Arrived(device', link')
<1>1. /\ Ceilings \in Limits /\ Capped \in Sessions /\ Begun \in Accounts /\ done \in Accounts
      /\ session' = done.session /\ drift' = done.drift
      /\ ble' = [ble EXCEPT !.limits = Ceilings, !.newLimits = None, !.upload = None,
                   !.ops = <<>>, !.strength = done.strength]
      /\ Radio(IF ble.newLimits = None THEN <<>> ELSE <<Bf(Capped)>>)
  BY InputsDo
<1>2. /\ ble'.active = ble.active /\ ble'.strength = done.strength /\ ble'.limits = Ceilings
  <2> HIDE DEF done
  <2> QED BY <1>0, <1>1 DEF BleOK, BleRecords
<1>3. /\ worker = "applying" /\ UNCHANGED device
      /\ dropped' = (dropped \/ (ble.newLimits # None /\
           (Owes(session.gate) \/ \E ch \in Channels : ble.strength[ch] > Ceilings[ch])))
  BY DEF ApplyInputs, Ceilings
<1>4. SUFFICES ASSUME ble.active, ~lost', ~drift', ~dropped'
               PROVE  Even(done.session.gate, f, done.strength, Ceilings)
  BY <1>1, <1>2 DEF Ledger
<1>5. e \in Devices /\ ble.strength \in Limits /\ ble.upload \in Uploads \cup {None}
      /\ ble.ops \in Seq(Ops) /\ session.gate \in Gates
  BY <1>0, ArrivedThrough DEF LinkOK, BleOK, BleRecords, Sessions
<1>6. Begun.session.gate.pending = Capped.gate.pending /\ Begun.session.gate.zero = Capped.gate.zero
      /\ Begun.drift = drift /\ Begun.strength = ble.strength
  BY <1>1, <1>5, UploadedSame DEF Begun, Same
<1>7. f \in Devices /\ ~lost
      /\ (drift \/ Even(Capped.gate, f, ble.strength, Ceilings))
  <2>1. CASE ble.newLimits = None
    <3>1. f = e /\ ~lost /\ Capped = session /\ Ceilings = ble.limits
      BY <1>1, <1>3, <1>4, <2>1 DEF Radio, Capped, Ceilings
    <3> QED BY <1>3, <1>4, <1>5, <3>1 DEF Ledger, Streaming
  <2>2. CASE ble.newLimits # None
    <3> DEFINE p == Bf(Capped)
    <3>1. Capped = SetChannelLimits(session, Ceilings)
      BY <2>2 DEF Capped
    <3>2. /\ Capped.limits = Ceilings /\ Capped.gate.pending = Zeros /\ Capped.gate.zero = Nothing
      BY <1>0, <1>1, <3>1, LimitsSession DEF LinkOK
    <3>3. p \in Packets /\ p.kind = "BF" /\ p.limits = Ceilings /\ Radio(<<p>>)
      BY <1>1, <2>2, <3>2, WrittenType DEF Bf
    <3> HIDE DEF p
    <3>4. UNCHANGED lost /\ link' = link \o <<p>>
      BY <1>0, <1>4, <3>3, RadioType
    <3>5. f = DeviceTakes(e, p)
      BY <1>3, <3>3, <3>4, ArrivedOne
    <3>6. f \in Devices
      BY <1>5, <3>3, <3>5, DeviceType
    <3>7. /\ ~dropped /\ ~Owes(session.gate) /\ \A ch \in Channels : ~(ble.strength[ch] > Ceilings[ch])
      BY <1>3, <1>4, <2>2
    <3>8. drift \/ Even(session.gate, e, ble.strength, ble.limits)
      BY <1>3, <1>4, <3>4, <3>7 DEF Ledger, Streaming
    <3>9. ASSUME ~drift PROVE Even(Capped.gate, f, ble.strength, Ceilings)
      <4> HIDE DEF e, f
      <4>1. Even(session.gate, e, ble.strength, ble.limits)
        BY <3>8, <3>9
      <4> QED BY <1>1, <1>5, <3>2, <3>3, <3>5, <3>7, <4>1, EvenCeilings
    <3> QED BY <1>4, <3>4, <3>6, <3>9
  <2> QED BY <2>1, <2>2
<1>8. Begun.drift \/ Even(Begun.session.gate, f, Begun.strength, Ceilings)
  <2> HIDE DEF f
  <2> QED BY <1>6, <1>7, EvenSame
<1>9. done.drift \/ Even(done.session.gate, f, done.strength, Ceilings)
  <2> HIDE DEF f
  <2> QED BY <1>1, <1>5, <1>7, <1>8, RequestsEven
<1> QED BY <1>1, <1>4, <1>9

\* A pump moves what is owed to the link, or loses it, or leaves it.
LEMMA PumpLedger ==
  ASSUME TypeOK, Pump, UNCHANGED device, ~lost', NEW strength \in Limits, NEW limits \in Limits,
         Even(session.gate, Arrived(device, link), strength, limits)
  PROVE  ~lost /\ Even(session'.gate, Arrived(device', link'), strength, limits)
<1> DEFINE e == Arrived(device, link)
           f == Arrived(device', link')
<1>0. LinkOK /\ FlagsOK
  BY TypeParts
<1>1. PICK ready \in Sessions : PumpResult(ready)
  BY <1>0, PumpDoes DEF LinkOK, FlagsOK
<1> DEFINE p == B0(ready)
<1>2. /\ p \in Packets /\ p.kind = "B0" /\ p.change = PacketChange(ready.gate)
  BY WrittenType DEF B0
<1>3. ready.gate \in Gates /\ session'.gate \in Gates
  BY <1>1 DEF PumpResult, Sessions
<1>4. e \in Devices
  BY <1>0, ArrivedThrough DEF LinkOK
<1>5. Even(ready.gate, e, strength, limits)
  <2>1. ready.gate.pending = session.gate.pending /\ ready.gate.zero = session.gate.zero
    BY <1>1 DEF PumpResult, Same
  <2> HIDE DEF e
  <2>2. Even(session.gate, e, strength, limits)
    BY DEF e
  <2> QED BY <2>1, <2>2, EvenSame
<1>6. CASE UNCHANGED <<link, lost>> /\ session'.gate.pending = ready.gate.pending
           /\ session'.gate.zero = ready.gate.zero
  <2>1. f = e
    BY <1>6
  <2> HIDE DEF e, f
  <2> QED BY <1>5, <1>6, <2>1, EvenSame DEF e, f
<1>7. CASE UNCHANGED <<link, lost>> /\ Plain(p) /\ Carries(ready.gate, session'.gate)
  <2>1. f = e
    BY <1>7
  <2>2. \A ch \in Channels : PacketChange(ready.gate)[ch] = NoChange
    BY <1>2, <1>7 DEF Plain
  <2>3. session'.gate.pending = ready.gate.pending /\ session'.gate.zero = ready.gate.zero
    BY <1>3, <1>7, <2>2, PlainOwes
  <2> HIDE DEF e, f
  <2> QED BY <1>5, <1>7, <2>1, <2>3, EvenSame DEF e, f
<1>8. CASE link' = link \o <<p>> /\ UNCHANGED lost /\ Carries(ready.gate, session'.gate)
  <2> HIDE DEF p
  <2>1. f = DeviceTakes(e, p)
    BY <1>2, <1>8, ArrivedOne
  <2> HIDE DEF e, f
  <2>2. Even(session'.gate, f, strength, limits)
    BY <1>2, <1>3, <1>4, <1>5, <1>8, <2>1, EvenPacket
  <2> QED BY <1>8, <2>2 DEF f
<1> QED BY <1>1, <1>6, <1>7, <1>8 DEF PumpResult

\* The connection: the ceilings go out and a zero is owed on both channels.
LEMMA ConnectsLedger ==
  ASSUME TypeOK, Fresh, Connects
  PROVE  Ledger'
<1>0. IpcOK /\ BleOK /\ PocOK /\ WorkerOK /\ LinkOK /\ FlagsOK
  BY TypeParts
<1> DEFINE up == OnConnected(SessionInit(ble.limits, "Required"))
           half == SetStrengthZero(up, "A")
           zero == SetStrengthZero(half, "B")
           first == SetWaveform(zero, "A", Slots)
           p == Bf(session')
           e == Arrived(device, link)
           f == Arrived(device', link')
<1>1. session' = SetWaveform(first, "B", Slots)
  BY DEF Connects
<1>2. ble.limits \in Limits /\ Slots \in Int /\ "A" \in Channels /\ "B" \in Channels
  BY <1>0, CoyoteAssumption DEF BleOK, BleRecords, Channels
<1>3. /\ up \in Sessions /\ up.limits = ble.limits /\ up.connected = TRUE /\ up.gate.pending = Zeros
  BY <1>2, SessionInitType, SessionCallsType DEF OnConnected, SessionRestart, SessionInit, GateInit
<1> HIDE DEF up
<1>4. /\ half \in Sessions /\ half.limits = ble.limits /\ half.connected = TRUE
      /\ half.gate.pending = Zeros /\ half.gate.zero["A"]
  <2>1. half \in Sessions
    BY <1>2, <1>3, SessionCallsType
  <2>2. half = [up EXCEPT !.gate = RequestZero(up.gate, "A")]
    BY <1>3 DEF SetStrengthZero
  <2>3. half.gate = [up.gate EXCEPT !.pending["A"] = 0, !.zero["A"] = TRUE]
    BY <1>3, <2>2 DEF RequestZero, Sessions
  <2>4. half.limits = up.limits /\ half.connected = up.connected
    BY <1>3, <2>2 DEF Sessions
  <2>5. up.gate \in Gates
    BY <1>3 DEF Sessions
  <2>6. half.gate.pending = Zeros
    <3>1. half.gate.pending = [Zeros EXCEPT !["A"] = 0]
      BY <1>3, <2>3, <2>5 DEF Gates
    <3> QED BY <3>1 DEF Zeros
  <2>7. half.gate.zero["A"] = TRUE
    BY <1>2, <2>3, <2>5 DEF Gates
  <2> QED BY <1>3, <2>1, <2>4, <2>6, <2>7
<1> HIDE DEF half
<1>5. /\ zero \in Sessions /\ zero.limits = ble.limits /\ zero.gate.pending = Zeros
      /\ zero.gate.zero["A"] /\ zero.gate.zero["B"]
  <2>1. zero \in Sessions
    BY <1>2, <1>4, SessionCallsType
  <2>2. zero = [half EXCEPT !.gate = RequestZero(half.gate, "B")]
    BY <1>4 DEF SetStrengthZero
  <2>3. zero.gate = [half.gate EXCEPT !.pending["B"] = 0, !.zero["B"] = TRUE]
    BY <1>4, <2>2 DEF RequestZero, Sessions
  <2>4. zero.limits = half.limits
    BY <1>4, <2>2 DEF Sessions
  <2>5. half.gate \in Gates
    BY <1>4 DEF Sessions
  <2>6. zero.gate.pending = Zeros
    <3>1. zero.gate.pending = [Zeros EXCEPT !["B"] = 0]
      BY <1>4, <2>3, <2>5 DEF Gates
    <3> QED BY <3>1 DEF Zeros
  <2>7. zero.gate.zero["B"] = TRUE
    BY <1>2, <2>3, <2>5 DEF Gates
  <2>8. half.gate.zero["A"] => zero.gate.zero["A"]
    <3>1. zero.gate.zero = [half.gate.zero EXCEPT !["B"] = TRUE]
      BY <2>3, <2>5 DEF Gates
    <3>2. "A" \in DOMAIN half.gate.zero
      BY <1>2, <2>5 DEF Gates
    <3> QED BY <3>1, <3>2
  <2> QED BY <1>4, <2>1, <2>4, <2>6, <2>7, <2>8
<1> HIDE DEF zero
<1>6. first \in Sessions /\ first.gate = zero.gate /\ first.limits = zero.limits
  <2>1. first \in Sessions
    BY <1>2, <1>5, SessionCallsType
  <2> QED BY <1>5, <2>1 DEF SetWaveform, Sessions
<1> HIDE DEF first
<1>7. session' \in Sessions /\ session'.gate = zero.gate /\ session'.limits = ble.limits
  <2>1. session' \in Sessions
    BY <1>1, <1>2, <1>6, SessionCallsType
  <2> QED BY <1>1, <1>5, <1>6, <2>1 DEF SetWaveform, Sessions
<1>8. p \in Packets /\ p.kind = "BF" /\ p.limits = ble.limits /\ Radio(<<p>>) /\ UNCHANGED device
  BY <1>7, WrittenType DEF Bf, Connects
<1>9. /\ ble'.active = ble.active /\ ble'.limits = ble.limits /\ ble'.strength = ble.strength
      /\ worker = "connecting" /\ drift' = ~ble.active
  BY <1>0 DEF Connects, BleOK, BleRecords
<1>10. SUFFICES ASSUME ble.active, ~lost' PROVE Even(session'.gate, f, ble.strength, ble.limits)
  BY <1>9 DEF Ledger
<1> HIDE DEF p
<1>11. link' = link \o <<p>>
  BY <1>0, <1>8, <1>10, RadioType
<1>12. f.limits = ble.limits
  BY <1>8, <1>11, ArrivedOne
<1>13. ble.strength = Zeros
  BY <1>9, <1>10 DEF Fresh
<1> HIDE DEF f
<1>14. ASSUME NEW ch \in Channels
       PROVE  Meets(session'.gate, ch, ble.strength[ch], f.strength[ch])
              /\ ble.strength[ch] <= ble.limits[ch]
  <2>1. session'.gate.zero[ch] /\ session'.gate.pending[ch] = 0
    BY <1>5, <1>7 DEF Zeros, Channels
  <2>2. ble.strength[ch] = 0 /\ 0 <= ble.limits[ch]
    BY <1>2, <1>13, CoyoteAssumption DEF Zeros, Limits, Strengths
  <2> QED BY <2>1, <2>2 DEF Meets
<1> QED BY <1>12, <1>14 DEF Even

LEMMA FreshNext == TypeOK /\ Fresh /\ [Next]_vars => Fresh'
<1> SUFFICES ASSUME TypeOK, Fresh, [Next]_vars PROVE Fresh'
  OBVIOUS
<1>0. IpcOK /\ BleOK /\ PocOK /\ WorkerOK /\ LinkOK /\ FlagsOK
  BY TypeParts
<1>1. CASE Wake \/ PumpOnce \/ Drain \/ TransportStop \/ WorkerExits \/ Close \/ Launch
  <2>1. UNCHANGED ble
    BY <1>1 DEF Wake, PumpOnce, Drain, TransportStop, WorkerExits, Close, Launch
  <2>2. worker' \in {"leaving", "exited", "waking", "connecting"} =>
          worker \in {"leaving", "exited", "waking", "connecting"}
    BY <1>1 DEF Wake, PumpOnce, Drain, TransportStop, WorkerExits, Close, Launch
  <2> QED BY <2>1, <2>2 DEF Fresh
<1>6. CASE UNCHANGED <<ble, worker>>
  BY <1>6 DEF Fresh
<1>2. CASE SessionStart
  <2>1. \E limits \in CeilingPairs : ble'.strength = Zeros
    BY <1>2 DEF SessionStart
  <2> QED BY <2>1 DEF Fresh
<1>3. CASE GiveBack \/ SessionEnds
  <2>1. ~ble'.active
    BY <1>0, <1>3 DEF GiveBack, SessionEnds, BleOK, BleRecords
  <2> QED BY <2>1 DEF Fresh
<1>4. CASE ConnectFails \/ Connects \/ ApplyInputs
  BY <1>4 DEF ConnectFails, Connects, ApplyInputs, Fresh
<1>5. CASE SessionSend \/ SessionUpload \/ SessionSetLimits
  <2>1. UNCHANGED worker
    BY <1>5 DEF SessionSend, SessionUpload, SessionSetLimits, Stage, transport
  <2>2. ble'.active = ble.active /\ ble'.strength = ble.strength
    BY <1>0, <1>5 DEF SessionSend, SessionUpload, SessionSetLimits, Stage, Queued, BleOK, BleRecords
  <2> QED BY <2>1, <2>2 DEF Fresh
<1> QED BY <1>1, <1>2, <1>3, <1>4, <1>5, <1>6
        DEF Next, Worker, Deadline, Serve, Ask, SessionRequest, StartCheck, Check, Withdraw, PocStop,
            PocStart, SessionStop, DeviceReads, vars, bleVars

LEMMA LedgerNext == TypeOK /\ Fresh /\ Ledger /\ [Next]_vars => Ledger'
<1> SUFFICES ASSUME TypeOK, Fresh, Ledger, [Next]_vars PROVE Ledger'
  OBVIOUS
<1>0. IpcOK /\ BleOK /\ PocOK /\ WorkerOK /\ LinkOK /\ FlagsOK
  BY TypeParts
<1>1. CASE Connects
  BY <1>1, ConnectsLedger
<1>2. CASE ApplyInputs
  BY <1>2, InputsLedger
<1>3. CASE PumpOnce
  <2>1. worker = "pumping" /\ UNCHANGED <<ble, device, drift, dropped>>
    BY <1>3 DEF PumpOnce
  <2>2. CASE Pump
    <3>1. SUFFICES ASSUME ble.active, ~lost', ~drift, ~dropped
                   PROVE  Even(session'.gate, Arrived(device', link'), ble.strength, ble.limits)
      BY <2>1 DEF Ledger
    <3>2. ~lost
      BY <2>1, <2>2, <3>1, PumpCaps
    <3>3. Even(session.gate, Arrived(device, link), ble.strength, ble.limits)
      BY <2>1, <3>1, <3>2 DEF Ledger, Streaming
    <3>4. ble.strength \in Limits /\ ble.limits \in Limits
      BY <1>0 DEF BleOK, BleRecords
    <3> QED BY <2>1, <2>2, <3>1, <3>3, <3>4, PumpLedger
  <2>3. CASE UNCHANGED <<session, heard, air, link, lost, zeroed>>
    BY <2>1, <2>3 DEF Ledger, Streaming
  <2> QED BY <1>3, <2>2, <2>3 DEF PumpOnce
<1>4. CASE DeviceReads
  <2>1. UNCHANGED <<worker, ble, session, lost, drift, dropped>>
    BY <1>4 DEF DeviceReads, bleVars, ghosts
  <2> QED BY <1>4, <2>1, ReadsArrive DEF Ledger, Streaming
<1>5. CASE \/ Wake \/ ConnectFails \/ Close \/ Drain \/ TransportStop \/ SessionEnds
           \/ WorkerExits \/ Launch
  <2>1. ~Streaming'
    BY <1>5 DEF Wake, ConnectFails, Close, Drain, TransportStop, SessionEnds, WorkerExits, Launch,
                Streaming
  <2> QED BY <2>1 DEF Ledger
<1>6. CASE SessionStart
  <2>1. UNCHANGED worker /\ drift' = (drift \/ worker \in Running)
    BY <1>6 DEF SessionStart
  <2> QED BY <2>1 DEF Ledger, Streaming, Running
<1>7. CASE GiveBack
  <2>1. ~ble'.active
    BY <1>0, <1>7 DEF GiveBack, BleOK, BleRecords
  <2> QED BY <2>1 DEF Ledger
<1>8. CASE SessionSend \/ SessionUpload \/ SessionSetLimits
  <2>1. UNCHANGED <<worker, session, device, link, lost, dropped>>
    BY <1>8 DEF SessionSend, SessionUpload, SessionSetLimits, Stage, transport
  <2>2. /\ ble'.active = ble.active /\ ble'.strength = ble.strength /\ ble'.limits = ble.limits
    BY <1>0, <1>8 DEF SessionSend, SessionUpload, SessionSetLimits, Stage, Queued, BleOK, BleRecords
  <2>3. drift => drift'
    BY <1>8 DEF SessionSend, SessionUpload, SessionSetLimits
  <2> QED BY <2>1, <2>2, <2>3 DEF Ledger, Streaming
<1>9. CASE UNCHANGED <<worker, ble, transport, ghosts>>
  BY <1>9 DEF Ledger, Streaming, transport, ghosts
<1> QED BY <1>1, <1>2, <1>3, <1>4, <1>5, <1>6, <1>7, <1>8, <1>9
        DEF Next, Worker, Deadline, Serve, Ask, SessionRequest, StartCheck, Check, Withdraw, PocStop,
            PocStart, SessionStop, vars, bleVars

(* The strength in the status and the ceilings in force are what the device has, counting
   in what is on the link and what the gate owes: no staged request is lost, applied twice
   or applied before the ceilings that cap it (ble_poc.c:1284-1390).  The ceilings bound the
   status besides, without which the device might clip a change that is on its way. *)
THEOREM StatusIsExact == Spec => []LedgerExact
<1>1. Init => Fresh /\ Ledger
  BY DEF Init, Fresh, Ledger, Streaming
<1>2. Ledger => LedgerExact
  BY ArrivedEventually DEF Ledger, LedgerExact, Even, Meets
<1> QED BY <1>1, <1>2, FreshNext, LedgerNext, BleType, PTL DEF Spec

-----------------------------------------------------------------------------
(* The logs: what a page holds when it has taken the log up to place p, whose lines end at
   the units in ends. *)
Lines == [text : Seq(Nat), torn : BOOLEAN]
Kept == [cursor : Nat, partial : Seq(Nat), lines : Seq(Lines), torn : BOOLEAN]

Rises(q) == \A a, c \in DOMAIN q : a < c => q[a] < q[c]
Before(q, z) == \A a \in DOMAIN q, c \in DOMAIN z : q[a] < z[c]
Below(q, p) == \A a \in DOMAIN q : q[a] < p

StartsAt(ends, c) == c = 0 \/ c - 1 \in ends

\* The half line is what lies between the end of a line and p.
Runs(ends, q, p) ==
  /\ Len(q) <= p /\ StartsAt(ends, p - Len(q))
  /\ \A i \in DOMAIN q : q[i] = p - Len(q) + i - 1 /\ q[i] \notin ends

WholeIn(ends, text) ==
  /\ StartsAt(ends, text[1])
  /\ \A i \in DOMAIN text : text[i] = text[1] + i - 1
  /\ {i \in DOMAIN text : text[i] \in ends} = {Len(text)}

LineSound(ends, line, half, p) ==
  /\ Rises(line.text) /\ Below(line.text, p) /\ Before(line.text, half)
  /\ line.torn \/ WholeIn(ends, line.text)

Sound(ends, s, p) ==
  /\ s \in Kept /\ Rises(s.partial) /\ Below(s.partial, p)
  /\ \A i \in DOMAIN s.lines : LineSound(ends, s.lines[i], s.partial, p)
  /\ \A i, j \in DOMAIN s.lines : i < j => Before(s.lines[i].text, s.lines[j].text)
  /\ s.torn \/ Runs(ends, s.partial, p)

(* A ring: its cells hold the last units, and every line that begins in it has an end. *)
Logs == [cells : [0..(RingSize - 1) -> Int], write : Nat, from : Nat]

Ended(ends, write) ==
  \A c \in Nat : c < write /\ StartsAt(ends, c) =>
    \E e \in ends : c <= e /\ e <= c + LineMax - 1

Holds(g) == \A p \in Nat : g.write - RingSize <= p /\ p < g.write => g.cells[p % RingSize] = p

RingSound(g, ends) ==
  /\ g.from <= g.write /\ Holds(g)
  /\ \A e \in ends : e < g.write
  /\ g.write = 0 \/ g.write - 1 \in ends
  /\ Ended(ends, g.write)

ReaderSound(g, ends, s) == s.cursor <= g.write /\ Sound(ends, s, s.cursor)

LogsInv ==
  /\ ring \in [Rings -> Logs] /\ breaks \in [Rings -> SUBSET Nat]
  /\ DOMAIN reader = Readers /\ reader = [r \in Readers |-> reader[r]]
  /\ \A k \in Rings : RingSound(ring[k], breaks[k])
  /\ \A r \in Readers : ReaderSound(ring[RingOf(r)], breaks[RingOf(r)], reader[r])

(* The scrollback after a line was put into it: the lines before, or all but the oldest. *)
LEMMA PushLines ==
  ASSUME NEW lines \in Seq(Lines), NEW line \in Lines
  PROVE  /\ Push(lines, line) \in Seq(Lines)
         /\ \E d \in {0, 1} :
              /\ Len(Push(lines, line)) = Len(lines) - d + 1
              /\ Push(lines, line)[Len(lines) - d + 1] = line
              /\ Len(lines) - d \in Nat
              /\ \A i \in 1..(Len(lines) - d) :
                   i + d \in 1..Len(lines) /\ Push(lines, line)[i] = lines[i + d]
<1>1. Scrollback \in Nat \ {0} /\ Len(lines) \in Nat
  BY LogAssumption
<1>2. CASE Len(lines) = Scrollback
  <2>1. Push(lines, line) = Append(Tail(lines), line)
    BY <1>2 DEF Push
  <2>2. Tail(lines) \in Seq(Lines) /\ Len(Tail(lines)) = Len(lines) - 1
        /\ \A i \in 1..(Len(lines) - 1) : Tail(lines)[i] = lines[i + 1]
    BY <1>1, <1>2
  <2> DEFINE z == Tail(lines)
  <2> HIDE DEF z
  <2>3. Append(z, line) \in Seq(Lines) /\ Len(Append(z, line)) = Len(z) + 1
        /\ Append(z, line)[Len(z) + 1] = line
        /\ \A i \in 1..Len(z) : Append(z, line)[i] = z[i]
    BY <2>2 DEF z
  <2>4. Push(lines, line) = Append(z, line) /\ Len(z) = Len(lines) - 1
        /\ \A i \in 1..(Len(lines) - 1) : z[i] = lines[i + 1] /\ i + 1 \in 1..Len(lines)
    BY <1>1, <2>1, <2>2 DEF z
  <2> HIDE DEF z
  <2>5. Len(lines) - 1 \in Nat
    BY <1>1, <1>2
  <2>6. 1 \in {0, 1}
    OBVIOUS
  <2> QED BY <2>3, <2>4, <2>5, <2>6
<1>3. CASE Len(lines) # Scrollback
  <2>1. Push(lines, line) = Append(lines, line)
    BY <1>3 DEF Push
  <2> QED BY <1>1, <2>1
<1> QED BY <1>2, <1>3

(* One unit keeps the type. *)
LEMMA TakeKept ==
  ASSUME NEW k \in Rings, NEW u \in Nat, NEW s \in Kept
  PROVE  Take(k, u, s) \in Kept /\ Take(k, u, s).cursor = s.cursor
<1>1. u # Nul
  BY DEF Nul
<1>2. [text |-> Append(s.partial, u), torn |-> s.torn] \in Lines
  BY DEF Kept, Lines
<1>3. Push(s.lines, [text |-> Append(s.partial, u), torn |-> s.torn]) \in Seq(Lines)
  BY <1>2, PushLines DEF Kept
<1>4. Append(s.partial, u) \in Seq(Nat) /\ <<>> \in Seq(Nat)
  BY DEF Kept
<1> QED BY <1>1, <1>3, <1>4 DEF Take, Kept

(* A half line that is whole so far has room for what is left of its line. *)
LEMMA RunFits ==
  ASSUME NEW ends \in SUBSET Nat, NEW p \in Nat, NEW write \in Nat, p < write,
         Ended(ends, write), NEW q \in Seq(Nat), Runs(ends, q, p), p \notin ends
  PROVE  Len(q) < PartialMax
<1> DEFINE c == p - Len(q)
<1>1. Len(q) \in Nat /\ c \in Nat /\ c <= p /\ StartsAt(ends, c)
  BY DEF Runs
<1>2. PICK e \in ends : c <= e /\ e <= c + LineMax - 1
  BY <1>1 DEF Ended
<1>3. e \in Nat /\ e # p
  OBVIOUS
<1>4. ~ (e < p)
  <2> SUFFICES ASSUME e < p PROVE FALSE
    OBVIOUS
  <2>1. e - c + 1 \in DOMAIN q
    BY <1>1, <1>2, <1>3
  <2>2. q[e - c + 1] = c + (e - c + 1) - 1 /\ q[e - c + 1] \notin ends
    BY <2>1 DEF Runs
  <2> HIDE DEF c
  <2>3. c + (e - c + 1) - 1 = e
    BY <1>1, <1>3
  <2> QED BY <1>2, <2>2, <2>3
<1>5. LineMax \in Int /\ PartialMax \in Nat /\ LineMax <= PartialMax + 1
  BY LogAssumption
<1> QED BY <1>1, <1>2, <1>3, <1>4, <1>5

(* The next unit behind a row, or behind a run. *)
LEMMA RisesMore ==
  ASSUME NEW q \in Seq(Nat), NEW p \in Nat, Rises(q), Below(q, p)
  PROVE  /\ Append(q, p) \in Seq(Nat) /\ Rises(Append(q, p)) /\ Below(Append(q, p), p + 1)
         /\ \A x \in Seq(Nat) : Before(x, q) /\ Below(x, p) => Before(x, Append(q, p))
<1> DEFINE z == Append(q, p)
<1>1. z \in Seq(Nat) /\ DOMAIN z = 1..(Len(q) + 1) /\ z[Len(q) + 1] = p /\ Len(q) \in Nat
      /\ DOMAIN q = 1..Len(q)
      /\ \A i \in 1..Len(q) : z[i] = q[i]
  OBVIOUS
<1> HIDE DEF z
<1>2. \A i \in DOMAIN z : (i \in DOMAIN q /\ z[i] = q[i]) \/ (i = Len(q) + 1 /\ z[i] = p)
  BY <1>1
<1>3. \A i \in DOMAIN q : q[i] < p /\ q[i] \in Nat
  BY DEF Below
<1>4. Rises(z)
  BY <1>1, <1>2, <1>3 DEF Rises
<1>5. Below(z, p + 1)
  BY <1>1, <1>2, <1>3 DEF Below
<1>6. ASSUME NEW x \in Seq(Nat), Before(x, q), Below(x, p) PROVE Before(x, z)
  BY <1>1, <1>2, <1>3, <1>6 DEF Before, Below
<1> QED BY <1>1, <1>4, <1>5, <1>6 DEF z

LEMMA RunsOn ==
  ASSUME NEW ends \in SUBSET Nat, NEW q \in Seq(Nat), NEW p \in Nat, Runs(ends, q, p)
  PROVE  /\ p \notin ends => Runs(ends, Append(q, p), p + 1)
         /\ p \in ends => WholeIn(ends, Append(q, p))
<1> DEFINE z == Append(q, p)
           c == p - Len(q)
<1>1. z \in Seq(Nat) /\ DOMAIN z = 1..(Len(q) + 1) /\ z[Len(q) + 1] = p /\ Len(q) \in Nat
      /\ DOMAIN q = 1..Len(q) /\ Len(z) = Len(q) + 1
      /\ \A i \in 1..Len(q) : z[i] = q[i]
  OBVIOUS
<1>2. c \in Nat /\ StartsAt(ends, c) /\ p = c + Len(q)
      /\ \A i \in 1..Len(q) : q[i] = c + i - 1 /\ q[i] \notin ends
  <2>1. StartsAt(ends, c) /\ Len(q) <= p
        /\ \A i \in 1..Len(q) : q[i] = c + i - 1 /\ q[i] \notin ends
    BY <1>1 DEF Runs
  <2>2. Len(q) \in Nat
    OBVIOUS
  <2> QED BY <2>1, <2>2
<1> HIDE DEF z, c
<1>3. \A i \in DOMAIN z : z[i] = c + i - 1
  BY <1>1, <1>2
<1>4. ASSUME p \notin ends PROVE Runs(ends, z, p + 1)
  <2>1. p + 1 - Len(z) = c
    BY <1>1, <1>2
  <2>2. \A i \in DOMAIN z : z[i] \notin ends
    BY <1>1, <1>2, <1>4
  <2>3. Len(z) <= p + 1
    BY <1>1, <1>2
  <2> QED BY <1>2, <1>3, <2>1, <2>2, <2>3 DEF Runs
<1>5. ASSUME p \in ends PROVE WholeIn(ends, z)
  <2>1. z[1] = c /\ 1 \in DOMAIN z
    BY <1>1, <1>2, <1>3
  <2>2. {i \in DOMAIN z : z[i] \in ends} = {Len(z)}
    BY <1>1, <1>2, <1>5
  <2> QED BY <1>2, <1>3, <2>1, <2>2 DEF WholeIn
<1> QED BY <1>4, <1>5 DEF z

(* One unit more, the next of the log. *)
LEMMA TakeSound ==
  ASSUME NEW k \in Rings, NEW p \in Nat, NEW write \in Nat, p < write,
         breaks[k] \in SUBSET Nat, Ended(breaks[k], write),
         NEW s, Sound(breaks[k], s, p)
  PROVE  Sound(breaks[k], Take(k, p, s), p + 1)
<1> DEFINE ends == breaks[k]
           t == Take(k, p, s)
<1>1. p # Nul /\ s \in Kept /\ t \in Kept
  BY TakeKept DEF Nul, Sound
<1>2. s.partial \in Seq(Nat) /\ s.lines \in Seq(Lines) /\ s.torn \in BOOLEAN
      /\ \A i \in DOMAIN s.lines : s.lines[i].text \in Seq(Nat)
  <2>1. s.partial \in Seq(Nat) /\ s.lines \in Seq(Lines) /\ s.torn \in BOOLEAN
    BY <1>1 DEF Kept
  <2>2. \A i \in DOMAIN s.lines : s.lines[i] \in Lines
    BY <2>1
  <2> QED BY <2>1, <2>2 DEF Lines
<1> DEFINE half == Append(s.partial, p)
<1>3. half \in Seq(Nat) /\ Rises(half) /\ Below(half, p + 1)
      /\ \A x \in Seq(Nat) : Before(x, s.partial) /\ Below(x, p) => Before(x, half)
  BY <1>2, RisesMore DEF Sound
<1>4. ~s.torn => /\ p \notin ends => Runs(ends, half, p + 1) /\ Len(s.partial) < PartialMax
                 /\ p \in ends => WholeIn(ends, half)
  <2> SUFFICES ASSUME ~s.torn
               PROVE  /\ p \notin ends => Runs(ends, half, p + 1) /\ Len(s.partial) < PartialMax
                      /\ p \in ends => WholeIn(ends, half)
    OBVIOUS
  <2>1. Runs(ends, s.partial, p)
    BY DEF Sound
  <2> HIDE DEF ends
  <2>2. ends \in SUBSET Nat /\ Ended(ends, write)
    BY DEF ends
  <2> QED BY <1>2, <2>1, <2>2, RunsOn, RunFits
<1>5. \A x \in Seq(Nat) : Below(x, p) => Below(x, p + 1)
  BY DEF Below
<1>6. CASE p \in ends
  <2> DEFINE line == [text |-> half, torn |-> s.torn]
             m == Push(s.lines, line)
  <2>1. t.lines = m /\ t.partial = <<>> /\ t.torn = FALSE
    BY <1>1, <1>2, <1>6 DEF Take, Kept
  <2>2. line \in Lines
    BY <1>2, <1>3 DEF Lines
  <2> HIDE DEF half
  <2>3. LineSound(ends, line, <<>>, p + 1)
    BY <1>3, <1>4, <1>6 DEF LineSound, Before
  <2> HIDE DEF line, m, t
  <2>4. PICK d \in {0, 1} :
              /\ Len(m) = Len(s.lines) - d + 1
              /\ m[Len(s.lines) - d + 1] = line
              /\ Len(s.lines) - d \in Nat
              /\ \A i \in 1..(Len(s.lines) - d) : i + d \in 1..Len(s.lines) /\ m[i] = s.lines[i + d]
    BY <1>2, <2>2, PushLines DEF m
  <2>5. m \in Seq(Lines)
    BY <1>2, <2>2, PushLines DEF m
  <2> DEFINE n == Len(s.lines) - d
  <2>6. \A i \in DOMAIN s.lines :
          Before(s.lines[i].text, line.text) /\ LineSound(ends, s.lines[i], <<>>, p + 1)
    <3> SUFFICES ASSUME NEW i \in DOMAIN s.lines
                 PROVE  /\ Before(s.lines[i].text, line.text)
                        /\ LineSound(ends, s.lines[i], <<>>, p + 1)
      OBVIOUS
    <3>1. LineSound(ends, s.lines[i], s.partial, p)
      BY DEF Sound
    <3>2. Before(s.lines[i].text, half)
      BY <1>2, <1>3, <3>1 DEF LineSound
    <3>3. line.text = half
      BY DEF line
    <3>4. Before(s.lines[i].text, <<>>)
      BY DEF Before
    <3> QED BY <1>2, <1>5, <3>1, <3>2, <3>3, <3>4 DEF LineSound
  <2>7. /\ DOMAIN m = 1..(n + 1) /\ n \in Nat
        /\ DOMAIN s.lines = 1..Len(s.lines) /\ Len(s.lines) \in Nat
    <3>1. DOMAIN s.lines = 1..Len(s.lines) /\ Len(s.lines) \in Nat
      BY <1>2
    <3>2. DOMAIN m = 1..Len(m)
      BY <2>5
    <3> QED BY <2>4, <3>1, <3>2
  <2>8. ASSUME NEW i \in DOMAIN m
        PROVE  \/ m[i] = line /\ i = n + 1
               \/ i <= n /\ i + d \in DOMAIN s.lines /\ m[i] = s.lines[i + d]
    <3>1. i = n + 1 \/ i \in 1..n
      BY <2>7
    <3>2. CASE i = n + 1
      BY <2>4, <3>2
    <3>3. CASE i \in 1..n
      <4>1. i <= n
        BY <2>7, <3>3
      <4> QED BY <2>4, <2>7, <3>3, <4>1
    <3> QED BY <3>1, <3>2, <3>3
  <2>9. \A i \in DOMAIN m : LineSound(ends, m[i], <<>>, p + 1)
    BY <2>3, <2>6, <2>8
  <2>10. \A i, j \in DOMAIN m : i < j => Before(m[i].text, m[j].text)
    <3> SUFFICES ASSUME NEW i \in DOMAIN m, NEW j \in DOMAIN m, i < j
                 PROVE  Before(m[i].text, m[j].text)
      OBVIOUS
    <3>1. i \in Nat /\ j \in Nat /\ i <= n /\ i # n + 1 /\ d \in Nat
      BY <2>7
    <3>2. i + d \in DOMAIN s.lines /\ m[i] = s.lines[i + d]
      BY <2>8, <3>1
    <3>3. CASE j = n + 1
      <4>1. m[j] = line
        BY <2>4, <3>3
      <4> QED BY <2>6, <3>2, <4>1
    <3>4. CASE j # n + 1
      <4>1. j + d \in DOMAIN s.lines /\ m[j] = s.lines[j + d] /\ i + d < j + d
        BY <2>8, <3>1, <3>4
      <4> QED BY <3>2, <4>1 DEF Sound
    <3> QED BY <3>3, <3>4
  <2>11. Runs(ends, <<>>, p + 1)
    BY <1>6 DEF Runs, StartsAt
  <2>12. Rises(<<>>) /\ Below(<<>>, p + 1)
    BY DEF Rises, Below
  <2>13. t \in Kept
    BY <1>1 DEF t
  <2> HIDE DEF ends
  <2> QED BY <2>1, <2>9, <2>10, <2>11, <2>12, <2>13 DEF Sound, t, ends
<1>7. CASE p \notin ends
  <2>1. t.lines = s.lines /\ t.torn = s.torn
    BY <1>1, <1>2, <1>7 DEF Take, Kept
  <2>2. \/ t.partial = half /\ Len(s.partial) < PartialMax
        \/ t.partial = s.partial /\ ~ (Len(s.partial) < PartialMax)
    <3>1. t = IF Len(s.partial) < PartialMax THEN [s EXCEPT !.partial = Append(@, p)] ELSE s
      BY <1>1, <1>7 DEF Take
    <3>2. CASE Len(s.partial) < PartialMax
      BY <1>1, <3>1, <3>2 DEF Kept
    <3>3. CASE ~ (Len(s.partial) < PartialMax)
      BY <3>1, <3>3
    <3> QED BY <3>2, <3>3
  <2>3. t.torn \/ Runs(ends, t.partial, p + 1)
    BY <1>2, <1>4, <1>7, <2>1, <2>2
  <2>4. Rises(t.partial) /\ Below(t.partial, p + 1)
    <3> HIDE DEF t, half
    <3> QED BY <1>2, <1>3, <1>5, <2>2 DEF Sound
  <2>5. ASSUME NEW i \in DOMAIN t.lines PROVE LineSound(ends, t.lines[i], t.partial, p + 1)
    <3>1. LineSound(ends, s.lines[i], s.partial, p) /\ s.lines[i].text \in Seq(Nat)
      BY <1>2, <2>1, <2>5 DEF Sound
    <3> HIDE DEF t, half
    <3>2. Before(s.lines[i].text, t.partial)
      BY <1>3, <2>2, <3>1 DEF LineSound
    <3> QED BY <1>5, <2>1, <3>1, <3>2 DEF LineSound
  <2>6. \A i, j \in DOMAIN t.lines : i < j => Before(t.lines[i].text, t.lines[j].text)
    BY <2>1 DEF Sound
  <2> HIDE DEF ends, half
  <2>13. t \in Kept
    BY <1>1 DEF t
  <2> HIDE DEF t
  <2> QED BY <2>3, <2>4, <2>5, <2>6, <2>13 DEF Sound, t, ends
<1> QED BY <1>6, <1>7

-----------------------------------------------------------------------------
(* The rings. *)

(* Two places less than a ring apart are in different cells. *)
LEMMA Apart ==
  ASSUME NEW p \in Nat, NEW q \in Nat, NEW C \in Nat \ {0}, p < q, q - p < C
  PROVE  p % C # q % C
<1>1. p = C * (p \div C) + (p % C) /\ q = C * (q \div C) + (q % C)
  OBVIOUS
<1>2. p \div C \in Int /\ q \div C \in Int /\ p % C \in 0..(C - 1) /\ q % C \in 0..(C - 1)
  OBVIOUS
<1> DEFINE a == p \div C
           b == q \div C
<1> SUFFICES ASSUME p % C = q % C PROVE FALSE
  OBVIOUS
<1>3. C * (b - a) = q - p
  BY <1>1, <1>2
<1>4. CASE b - a <= 0
  <2>1. C * (b - a) <= 0
    BY <1>2, <1>4
  <2> QED BY <1>3, <2>1
<1>5. CASE b - a >= 1
  <2>1. C * (b - a) >= C
    BY <1>2, <1>5
  <2> QED BY <1>3, <2>1
<1> QED BY <1>2, <1>4, <1>5

(* A line of the size a ring holds leaves its units, and what it did not overwrite. *)
LEMMA WrittenHolds ==
  ASSUME NEW cells \in [0..(RingSize - 1) -> Int], NEW a \in Nat, NEW b \in Nat,
         a <= b, b - a < RingSize, NEW p \in Nat, b + 1 - RingSize <= p, p <= b
  PROVE  Written(cells, a, b)[p % RingSize] = IF p >= a THEN p ELSE cells[p % RingSize]
<1> DEFINE i == p % RingSize
           here == {q \in a .. b : q % RingSize = i}
<1>1. RingSize \in Nat \ {0}
  BY LogAssumption
<1>2. i \in 0..(RingSize - 1)
  BY <1>1
<1>3. Written(cells, a, b)[i] = IF here = {} THEN cells[i] ELSE CHOOSE q \in here : TRUE
  BY <1>2 DEF Written
<1>4. \A q \in here : q = p
  <2> SUFFICES ASSUME NEW q \in a .. b, q % RingSize = i, q # p PROVE FALSE
    OBVIOUS
  <2>1. q \in Nat /\ q - p < RingSize /\ p - q < RingSize
    BY <1>1
  <2>2. CASE q < p
    BY <1>1, <2>1, <2>2, Apart
  <2>3. CASE p < q
    BY <1>1, <2>1, <2>3, Apart
  <2> QED BY <2>1, <2>2, <2>3
<1>5. CASE p >= a
  <2>1. p \in here
    BY <1>5
  <2>2. here = {p}
    BY <1>4, <2>1
  <2> HIDE DEF here, i
  <2>3. (CHOOSE q \in here : TRUE) = p
    BY <2>2
  <2> QED BY <1>3, <1>5, <2>2, <2>3 DEF i
<1>6. CASE ~ (p >= a)
  <2>1. here = {}
    BY <1>4, <1>6
  <2> HIDE DEF here
  <2> QED BY <1>3, <1>6, <2>1
<1> QED BY <1>5, <1>6

LEMMA CellsType ==
  ASSUME NEW cells \in [0..(RingSize - 1) -> Int], NEW a \in Nat, NEW b \in Nat
  PROVE  Written(cells, a, b) \in [0..(RingSize - 1) -> Int]
<1> DEFINE here(i) == {q \in a .. b : q % RingSize = i}
<1>1. ASSUME NEW i \in 0..(RingSize - 1)
      PROVE  (IF here(i) = {} THEN cells[i] ELSE CHOOSE q \in here(i) : TRUE) \in Int
  <2>1. here(i) \subseteq Int
    OBVIOUS
  <2> HIDE DEF here
  <2>2. here(i) # {} => (CHOOSE q \in here(i) : TRUE) \in here(i)
    OBVIOUS
  <2> QED BY <2>1, <2>2
<1> QED BY <1>1 DEF Written

(* A line more. *)
LEMMA LogSound ==
  ASSUME NEW g \in Logs, NEW ends \in SUBSET Nat, RingSound(g, ends),
         NEW last \in g.write..(g.write + LineMax - 1), NEW h \in Logs,
         h.cells = Written(g.cells, g.write, last), h.write = last + 1, h.from = g.from
  PROVE  RingSound(h, ends \cup {last})
<1>1. g.write \in Nat /\ g.from \in Nat /\ last \in Nat /\ g.write <= last
      /\ g.cells \in [0..(RingSize - 1) -> Int] /\ last <= g.write + LineMax - 1
  BY DEF Logs
<1>2. LineMax \in Nat /\ RingSize \in Nat /\ 1 <= LineMax /\ LineMax <= RingSize
  BY LogAssumption
<1>3. h.from <= h.write
  BY <1>1 DEF RingSound
<1>4. Holds(h)
  <2> SUFFICES ASSUME NEW p \in Nat, h.write - RingSize <= p, p < h.write
               PROVE  h.cells[p % RingSize] = p
    BY DEF Holds
  <2>1. p <= last /\ last - g.write < RingSize /\ last + 1 - RingSize <= p
    BY <1>1, <1>2
  <2>2. h.cells[p % RingSize] = IF p >= g.write THEN p ELSE g.cells[p % RingSize]
    BY <1>1, <2>1, WrittenHolds
  <2>3. CASE ~ (p >= g.write)
    <3>1. g.write - RingSize <= p /\ p < g.write
      BY <1>1, <1>2, <2>3
    <3>2. g.cells[p % RingSize] = p
      BY <3>1 DEF RingSound, Holds
    <3> QED BY <2>2, <2>3, <3>2
  <2> QED BY <2>2, <2>3
<1>5. \A e \in ends \cup {last} : e < h.write
  BY <1>1 DEF RingSound
<1>6. h.write - 1 \in ends \cup {last}
  BY <1>1
<1>7. Ended(ends \cup {last}, h.write)
  <2> SUFFICES ASSUME NEW c \in Nat, c < last + 1, StartsAt(ends \cup {last}, c)
               PROVE  \E e \in ends \cup {last} : c <= e /\ e <= c + LineMax - 1
    BY DEF Ended
  <2>1. CASE c < g.write
    <3>1. StartsAt(ends, c)
      BY <1>1, <2>1 DEF StartsAt
    <3> QED BY <2>1, <3>1 DEF RingSound, Ended
  <2>2. CASE c = g.write
    BY <1>1, <2>2
  <2>3. CASE c > g.write
    <3>1. c - 1 \in ends \/ c - 1 = last
      BY <1>1, <2>3 DEF StartsAt
    <3>2. c - 1 >= g.write
      BY <1>1, <2>3
    <3> QED BY <1>1, <3>1, <3>2 DEF RingSound
  <2> QED BY <1>1, <2>1, <2>2, <2>3
<1> QED BY <1>3, <1>4, <1>5, <1>6, <1>7 DEF RingSound

(* What a page holds stays sound when a line is written that it has not read. *)
LEMMA SoundStays ==
  ASSUME NEW ends \in SUBSET Nat, NEW last \in Nat, NEW s, NEW p \in Nat, p <= last,
         Sound(ends, s, p), NEW e, e = ends \cup {last}
  PROVE  Sound(e, s, p)
<1>1. s \in Kept
  BY DEF Sound
<1>2. \A c \in Nat : StartsAt(ends, c) => StartsAt(e, c)
  BY DEF StartsAt
<1>3. s.torn \/ Runs(e, s.partial, p)
  <2> SUFFICES ASSUME ~s.torn PROVE Runs(e, s.partial, p)
    OBVIOUS
  <2>1. Runs(ends, s.partial, p) /\ Below(s.partial, p) /\ s.partial \in Seq(Nat)
    BY <1>1 DEF Sound, Kept
  <2>2. p - Len(s.partial) \in Nat
    BY <2>1 DEF Runs
  <2>3. \A i \in DOMAIN s.partial : s.partial[i] # last
    BY <2>1 DEF Below
  <2> QED BY <1>2, <2>1, <2>2, <2>3 DEF Runs
<1>4. ASSUME NEW i \in DOMAIN s.lines PROVE LineSound(e, s.lines[i], s.partial, p)
  <2> DEFINE text == s.lines[i].text
  <2>1. LineSound(ends, s.lines[i], s.partial, p)
    BY DEF Sound
  <2>2. text \in Seq(Nat)
    <3>1. s.lines \in Seq(Lines)
      BY <1>1 DEF Kept
    <3>2. s.lines[i] \in Lines
      BY <3>1
    <3> QED BY <3>2 DEF Lines
  <2>3. \A a \in DOMAIN text : text[a] # last
    BY <2>1, <2>2 DEF LineSound, Below
  <2>4. WholeIn(ends, text) => WholeIn(e, text)
    <3> SUFFICES ASSUME WholeIn(ends, text) PROVE WholeIn(e, text)
      OBVIOUS
    <3>1. {a \in DOMAIN text : text[a] \in e} = {a \in DOMAIN text : text[a] \in ends}
      BY <2>3
    <3>2. StartsAt(e, text[1])
      BY DEF StartsAt, WholeIn
    <3> QED BY <3>1, <3>2 DEF WholeIn
  <2> QED BY <2>1, <2>4 DEF LineSound
<1> QED BY <1>1, <1>3, <1>4 DEF Sound

-----------------------------------------------------------------------------
(* A chunk. *)

(* The units of a chunk put into what a page has, one by one. *)
Fed(k, from, chunk) == FoldLeft(LAMBDA s, u : Take(k, u, s), from, chunk)

LEMMA ChunkFold ==
  ASSUME NEW k \in Rings, NEW from \in Kept, NEW chunk \in Seq(Nat)
  PROVE  \E v : /\ v \in [0..Len(chunk) -> Kept] /\ v[0] = from
               /\ \A j \in 1..Len(chunk) : v[j] = Take(k, chunk[j], v[j - 1])
               /\ Fed(k, from, chunk) = v[Len(chunk)]
<1> DEFINE n == Len(chunk)
           step == [p \in Kept \X Nat |-> Take(k, p[2], p[1])]
           body(g) == [s \in SUBSET (1..n) |-> IF s = {} THEN from
                         ELSE Take(k, chunk[Max(s)], g[s \ {Max(s)}])]
<1>1. \A x \in Kept, t \in Nat :
        step[<<x, t>>] = Take(k, t, x) /\ step[<<x, t>>] \in Kept
  BY TakeKept
<1>2. StepClosed(step, Kept, Nat)
  BY <1>1 DEF StepClosed
<1>3. n \in Nat /\ DOMAIN chunk = 1..n
  OBVIOUS
<1>4. Fed(k, from, chunk) = (CHOOSE g : g = body(g))[1..n]
  BY <1>3 DEF FoldLeft, MapThenFoldSet, Fed
<1> HIDE DEF step
<1>5. PICK h : Folds(h, n, step, from, chunk)
  BY <1>3, FoldsExist
<1>6. Folded(h, n, step, from, chunk, Kept, Nat)
  <2> HIDE DEF body
  <2> QED BY <1>2, <1>5, FoldsValues
<1>7. h = body(h)
  <2>1. \A s \in SUBSET (1..n) : s # {} =>
          h[s] = Take(k, chunk[Max(s)], h[s \ {Max(s)}])
    BY <1>1, <1>6 DEF Folded
  <2> QED BY <1>5, <1>6, <2>1 DEF Folds, Folded
<1>8. ASSUME NEW g, g = body(g) PROVE g = h
  <2>1. Agree(g, h, n)
    <3>1. g[{}] = h[{}]
      BY <1>6, <1>8 DEF Folded
    <3>2. \A s \in SUBSET (1..n) : s # {} /\ g[s \ {Max(s)}] = h[s \ {Max(s)}] => g[s] = h[s]
      BY <1>7, <1>8
    <3> QED BY <3>1, <3>2 DEF Agree
  <2>2. \A s \in SUBSET (1..n) : g[s] = h[s]
    <3> HIDE DEF n, body
    <3> QED BY <1>3, <2>1, FoldsOnce
  <2> QED BY <1>7, <1>8, <2>2
<1>9. Fed(k, from, chunk) = h[1..n]
  <2> HIDE DEF body
  <2>1. (CHOOSE g : g = body(g)) = h
    BY <1>7, <1>8
  <2> QED BY <1>4, <2>1
<1> DEFINE v == [j \in 0..n |-> h[1..j]]
<1>10. Stepwise(v, n, step, from, chunk, Kept) /\ v[n] = h[1..n]
  <2> HIDE DEF n, body
  <2> QED BY <1>3, <1>6, FoldsStepwise
<1> HIDE DEF v
<1>11. \A j \in 1..n : v[j] = Take(k, chunk[j], v[j - 1])
  <2>1. \A j \in 1..n : j - 1 \in 0..n /\ chunk[j] \in Nat
    BY <1>3
  <2> QED BY <1>1, <1>10, <2>1 DEF Stepwise
<1> QED BY <1>9, <1>10, <1>11 DEF Stepwise

(* A chunk of units that follow each other keeps a page sound. *)
LEMMA ChunkSound ==
  ASSUME NEW k \in Rings, breaks[k] \in SUBSET Nat, NEW write \in Nat, Ended(breaks[k], write),
         NEW c \in Nat, NEW from, Sound(breaks[k], from, c),
         NEW chunk \in Seq(Nat), \A i \in 1..Len(chunk) : chunk[i] = c + i - 1,
         c + Len(chunk) <= write
  PROVE  /\ Sound(breaks[k], Fed(k, from, chunk), c + Len(chunk))
         /\ Fed(k, from, chunk).cursor = from.cursor
<1> DEFINE n == Len(chunk)
<1>1. n \in Nat /\ from \in Kept
  BY DEF Sound
<1>2. PICK v : /\ v \in [0..n -> Kept] /\ v[0] = from
               /\ \A j \in 1..n : v[j] = Take(k, chunk[j], v[j - 1])
               /\ Fed(k, from, chunk) = v[n]
  BY <1>1, ChunkFold
<1> DEFINE S == {j \in Nat : j <= n => Sound(breaks[k], v[j], c + j) /\ v[j].cursor = from.cursor}
<1>3. 0 \in S
  <2>1. c + 0 = c
    OBVIOUS
  <2> QED BY <1>2, <2>1
<1> HIDE DEF n
<1>4. ASSUME NEW j \in Nat, j \in S PROVE j + 1 \in S
  <2> SUFFICES ASSUME j + 1 <= n
               PROVE  Sound(breaks[k], v[j + 1], c + (j + 1)) /\ v[j + 1].cursor = from.cursor
    OBVIOUS
  <2>1. Sound(breaks[k], v[j], c + j) /\ v[j].cursor = from.cursor
    BY <1>1, <1>4
  <2> DEFINE p == c + j
             s == v[j]
  <2>2. v[j + 1] = Take(k, p, s)
    <3>1. j + 1 \in 1..n /\ (j + 1) - 1 = j
      BY <1>1
    <3>2. chunk[j + 1] = p
      BY <3>1 DEF n
    <3> QED BY <1>2, <3>1, <3>2
  <2>3. p \in Nat /\ p < write /\ p + 1 = c + (j + 1)
    BY <1>1 DEF n
  <2>4. s \in Kept
    BY <2>1 DEF Sound
  <2> HIDE DEF p, s
  <2>5. Sound(breaks[k], s, p) /\ s.cursor = from.cursor
    BY <2>1 DEF p, s
  <2>6. Sound(breaks[k], Take(k, p, s), p + 1)
    BY <2>3, <2>5, TakeSound
  <2>7. Take(k, p, s).cursor = s.cursor
    BY <2>3, <2>4, TakeKept
  <2> QED BY <2>2, <2>3, <2>5, <2>6, <2>7
<1> HIDE DEF S
<1>5. n \in S
  BY <1>1, <1>3, <1>4, EveryNumber
<1> QED BY <1>1, <1>2, <1>5 DEF S, n

-----------------------------------------------------------------------------
(* The steps. *)

(* Where a request starts, and how far it comes. *)
LEMMA RequestPlaces ==
  ASSUME NEW g \in Logs, g.from <= g.write, NEW cursor \in Nat, cursor <= g.write
  PROVE  /\ Starts(g, cursor) \in Nat /\ cursor <= Starts(g, cursor)
         /\ Starts(g, cursor) <= g.write /\ g.write - RingSize <= Starts(g, cursor)
         /\ \A c \in Nat : c <= g.write =>
              Behind(g, c) = c + (IF g.write - c > Chunk THEN Chunk ELSE g.write - c)
<1>1. g.from \in Nat /\ g.write \in Nat /\ RingSize \in Nat /\ Chunk \in Nat
  BY LogAssumption DEF Logs
<1>2. Earliest(g) \in Nat /\ Earliest(g) <= g.write /\ g.write - RingSize <= Earliest(g)
  BY <1>1 DEF Earliest
<1> QED BY <1>1, <1>2 DEF Starts, Behind

(* What a page has after a request. *)
LEMMA TakenSound ==
  ASSUME NEW r \in Readers, NEW k \in Rings, k = RingOf(r), breaks[k] \in SUBSET Nat,
         ring[k] \in Logs, RingSound(ring[k], breaks[k]),
         ReaderSound(ring[k], breaks[k], reader[r]),
         NEW c, c = Starts(ring[k], reader[r].cursor)
  PROVE  /\ Behind(ring[k], c) \in Nat /\ c <= Behind(ring[k], c) /\ c \in Nat
         /\ Behind(ring[k], c) <= ring[k].write /\ reader[r].cursor <= c
         /\ Sound(breaks[k], Taken(r, c), Behind(ring[k], c))
         /\ Taken(r, c).cursor = reader[r].cursor
         /\ (c = ring[k].write => Sound(breaks[k], Taken(r, c), reader[r].cursor))
<1> DEFINE g == ring[k]
           s == reader[r]
           n == IF g.write - c > Chunk THEN Chunk ELSE g.write - c
           cut == c # s.cursor /\ ~ (s.partial = <<>> /\ IsStart(k, c))
           from == [s EXCEPT !.torn = @ \/ cut]
           chunk == [i \in 1..n |-> g.cells[(c + i - 1) % RingSize]]
<1>1. s \in Kept /\ s.cursor \in Nat /\ s.cursor <= g.write /\ Sound(breaks[k], s, s.cursor)
  BY DEF ReaderSound, Sound, Kept
<1>2. g.write \in Nat /\ g.from \in Nat /\ g.from <= g.write /\ Chunk \in Nat \ {0}
      /\ RingSize \in Nat
  BY LogAssumption DEF Logs, RingSound
<1>3. /\ c \in Nat /\ s.cursor <= c /\ c <= g.write /\ g.write - RingSize <= c
      /\ Behind(g, c) = c + n
  <2> HIDE DEF g, s
  <2>1. g \in Logs
    BY DEF g
  <2>2. c = Starts(g, s.cursor)
    BY DEF g, s
  <2>3. /\ c \in Nat /\ s.cursor <= c /\ c <= g.write /\ g.write - RingSize <= c
        /\ \A d \in Nat : d <= g.write =>
              Behind(g, d) = d + (IF g.write - d > Chunk THEN Chunk ELSE g.write - d)
    BY <1>1, <1>2, <2>1, <2>2, RequestPlaces
  <2> QED BY <2>3
<1>4. n \in Nat /\ c + n <= g.write /\ (c = g.write => n = 0)
  <2> HIDE DEF g
  <2> QED BY <1>2, <1>3
<1>5. Taken(r, c) = Fed(k, from, chunk)
  BY DEF Taken, Fed
<1>6. chunk \in Seq(Nat) /\ Len(chunk) = n /\ \A i \in 1..n : chunk[i] = c + i - 1
  <2>1. ASSUME NEW i \in 1..n PROVE g.cells[(c + i - 1) % RingSize] = c + i - 1
    <3> DEFINE p == c + i - 1
    <3> HIDE DEF g
    <3>1. p \in Nat /\ g.write - RingSize <= p /\ p < g.write
      BY <1>2, <1>3, <1>4
    <3> HIDE DEF p
    <3>2. g.cells[p % RingSize] = p
      BY <3>1 DEF RingSound, Holds, g
    <3> QED BY <3>2 DEF p
  <2> HIDE DEF g, n
  <2>2. \A i \in 1..n : chunk[i] = c + i - 1 /\ c + i - 1 \in Nat
    BY <1>3, <1>4, <2>1
  <2>3. Len(chunk) = n /\ chunk = [i \in 1..n |-> chunk[i]]
    BY <1>4
  <2> HIDE DEF chunk
  <2>4. chunk \in Seq(Nat)
    BY <1>4, <2>2, <2>3
  <2> QED BY <2>2, <2>3, <2>4
<1>7. Sound(breaks[k], from, c) /\ from.cursor = s.cursor
  <2>1. /\ from \in Kept /\ from.cursor = s.cursor /\ from.partial = s.partial
        /\ from.lines = s.lines /\ from.torn = (s.torn \/ cut)
    <3>1. cut \in BOOLEAN
      OBVIOUS
    <3> HIDE DEF cut, s
    <3> QED BY <1>1, <3>1 DEF Kept
  <2>2. CASE c = s.cursor
    <3>1. from.torn = s.torn
      BY <1>1, <2>1, <2>2 DEF Kept
    <3> HIDE DEF from, s
    <3> QED BY <1>1, <2>1, <2>2, <3>1 DEF Sound
  <2>3. CASE c # s.cursor
    <3>1. \A q \in Seq(Nat) : Below(q, s.cursor) => Below(q, c)
      BY <1>1, <1>3 DEF Below
    <3>2. from.torn \/ Runs(breaks[k], from.partial, c)
      <4> SUFFICES ASSUME ~from.torn PROVE Runs(breaks[k], from.partial, c)
        OBVIOUS
      <4>1. s.partial = <<>> /\ IsStart(k, c)
        BY <2>1, <2>3
      <4> HIDE DEF s, from
      <4> QED BY <1>3, <2>1, <4>1 DEF Runs, StartsAt, IsStart
    <3>3. s.partial \in Seq(Nat) /\ \A i \in DOMAIN s.lines : s.lines[i].text \in Seq(Nat)
      <4>1. s.partial \in Seq(Nat) /\ s.lines \in Seq(Lines)
        BY <1>1 DEF Kept
      <4>2. \A i \in DOMAIN s.lines : s.lines[i] \in Lines
        BY <4>1
      <4> QED BY <4>1, <4>2 DEF Lines
    <3> HIDE DEF from, s
    <3>4. Below(s.partial, c)
      BY <1>1, <3>1, <3>3 DEF Sound
    <3>5. \A i \in DOMAIN s.lines : LineSound(breaks[k], s.lines[i], s.partial, c)
      BY <1>1, <3>1, <3>3 DEF Sound, LineSound
    <3> QED BY <1>1, <2>1, <3>2, <3>4, <3>5 DEF Sound
  <2> QED BY <2>2, <2>3
<1>8. Sound(breaks[k], from, s.cursor)
  <2>1. /\ from \in Kept /\ from.partial = s.partial /\ from.lines = s.lines
        /\ (s.torn => from.torn)
    <3>1. cut \in BOOLEAN
      OBVIOUS
    <3> HIDE DEF cut, s
    <3> QED BY <1>1, <3>1 DEF Kept
  <2> HIDE DEF from, s
  <2> QED BY <1>1, <2>1 DEF Sound
<1>9. Ended(breaks[k], g.write)
  BY DEF RingSound
<1> HIDE DEF chunk, from, g, s, n
<1>10. /\ Sound(breaks[k], Fed(k, from, chunk), c + Len(chunk))
      /\ Fed(k, from, chunk).cursor = from.cursor
  <2>1. \A i \in 1..Len(chunk) : chunk[i] = c + i - 1
    BY <1>6
  <2>2. c + Len(chunk) <= g.write
    BY <1>4, <1>6
  <2> DEFINE w == g.write
  <2> HIDE DEF w
  <2>3. w \in Nat /\ Ended(breaks[k], w) /\ c + Len(chunk) <= w
    BY <1>2, <1>9, <2>2 DEF w
  <2>4. c \in Nat /\ Sound(breaks[k], from, c) /\ chunk \in Seq(Nat)
    BY <1>3, <1>6, <1>7
  <2> QED BY <2>1, <2>3, <2>4, ChunkSound
<1>11. ASSUME c = g.write PROVE Sound(breaks[k], Fed(k, from, chunk), s.cursor)
  <2>1. n = 0 /\ Len(chunk) = 0
    BY <1>4, <1>6, <1>11
  <2>2. \A i \in 1..Len(chunk) : chunk[i] = s.cursor + i - 1
    BY <2>1
  <2> DEFINE w == g.write
             d == s.cursor
  <2> HIDE DEF w, d
  <2>3. w \in Nat /\ Ended(breaks[k], w) /\ d + Len(chunk) <= w
    BY <1>1, <1>2, <1>9, <2>1 DEF w, d
  <2>4. Sound(breaks[k], from, d) /\ d \in Nat /\ \A i \in 1..Len(chunk) : chunk[i] = d + i - 1
    BY <1>1, <1>8, <2>2 DEF d
  <2>5. Sound(breaks[k], Fed(k, from, chunk), d + Len(chunk))
    BY <1>6, <2>3, <2>4, ChunkSound
  <2> QED BY <1>1, <2>1, <2>5 DEF d
<1>12. Behind(g, c) \in Nat /\ c <= Behind(g, c) /\ Behind(g, c) <= g.write
  BY <1>2, <1>3, <1>4
<1> QED BY <1>3, <1>5, <1>6, <1>7, <1>10, <1>12, <1>11 DEF g, s

LEMMA EmptyRuns ==
  ASSUME NEW ends, NEW p \in Nat, StartsAt(ends, p)
  PROVE  Runs(ends, <<>>, p)
BY DEF Runs

LEMMA UnreadSound ==
  ASSUME NEW ends
  PROVE  Unread \in Kept /\ Sound(ends, Unread, 0) /\ Unread.cursor = 0
<1>1. Unread \in Kept
  BY DEF Unread, Kept
<1>2. Unread.partial = <<>> /\ Unread.lines = <<>> /\ Unread.cursor = 0
  BY DEF Unread
<1>3. Rises(<<>>) /\ Below(<<>>, 0)
  BY DEF Rises, Below
<1>4. Runs(ends, <<>>, 0)
  BY EmptyRuns DEF StartsAt
<1> QED BY <1>1, <1>2, <1>3, <1>4 DEF Sound

LEMMA RingIs == \A r \in Readers : RingOf(r) \in Rings
  BY DEF RingOf, Readers, Rings

LEMMA LogsInitSound == LogsInit => LogsInv
<1> SUFFICES ASSUME LogsInit PROVE LogsInv
  OBVIOUS
<1> DEFINE g == [cells |-> [i \in 0 .. RingSize - 1 |-> Nul], write |-> 0, from |-> 0]
<1>1. ring = [k \in Rings |-> g] /\ breaks = [k \in Rings |-> {}]
      /\ reader = [r \in Readers |-> Unread]
  BY DEF LogsInit
<1>2. g \in Logs /\ g.write = 0 /\ g.from = 0
  BY DEF Logs, Nul
<1> HIDE DEF g
<1>3. RingSound(g, {})
  BY <1>2 DEF RingSound, Holds, Ended
<1>4. ReaderSound(g, {}, Unread)
  BY <1>2, UnreadSound DEF ReaderSound
<1>5. ring \in [Rings -> Logs] /\ breaks \in [Rings -> SUBSET Nat]
  BY <1>1, <1>2
<1>6. \A k \in Rings : ring[k] = g /\ breaks[k] = {}
  BY <1>1
<1>7. \A r \in Readers : reader[r] = Unread
  BY <1>1
<1> QED BY <1>1, <1>3, <1>4, <1>5, <1>6, <1>7, RingIs DEF LogsInv

(* The conjuncts of the invariant over a step that leaves rings or pages as they are. *)
LEMMA LogsSame ==
  ASSUME LogsInv, UNCHANGED <<ring, breaks, reader>>
  PROVE  LogsInv'
BY DEF LogsInv

LEMMA LogKeeps ==
  ASSUME LogsInv, NEW k \in Rings, Log(k)
  PROVE  LogsInv'
<1> DEFINE g == ring[k]
           ends == breaks[k]
<1>1. g \in Logs /\ ends \in SUBSET Nat /\ RingSound(g, ends)
  BY DEF LogsInv
<1>2. PICK last \in g.write..(g.write + LineMax - 1) :
        /\ ring' = [ring EXCEPT ![k].cells = Written(@, g.write, last), ![k].write = last + 1]
        /\ breaks' = [breaks EXCEPT ![k] = @ \cup {last}]
        /\ reader' = reader
  BY DEF Log
<1>3. last \in Nat /\ g.write \in Nat /\ g.write <= last /\ g.from \in Nat
      /\ g.cells \in [0..(RingSize - 1) -> Int]
  BY <1>1, LogAssumption DEF Logs
<1> DEFINE h == ring'[k]
<1>4. /\ h = [g EXCEPT !.cells = Written(@, g.write, last), !.write = last + 1]
      /\ \A j \in Rings : j # k => ring'[j] = ring[j]
      /\ ring' = [j \in Rings |-> ring'[j]]
  BY <1>2 DEF LogsInv
<1>5. /\ breaks'[k] = ends \cup {last} /\ \A j \in Rings : j # k => breaks'[j] = breaks[j]
      /\ breaks' \in [Rings -> SUBSET Nat]
  BY <1>2, <1>3 DEF LogsInv
<1>6. h \in Logs /\ h.cells = Written(g.cells, g.write, last) /\ h.write = last + 1
      /\ h.from = g.from
  <2> HIDE DEF h, g
  <2>1. Written(g.cells, g.write, last) \in [0..(RingSize - 1) -> Int]
    BY <1>3, CellsType
  <2> DEFINE cells == Written(g.cells, g.write, last)
  <2>2. h = [g EXCEPT !.cells = cells, !.write = last + 1]
    BY <1>4
  <2> HIDE DEF cells
  <2>3. cells \in [0..(RingSize - 1) -> Int]
    BY <2>1 DEF cells
  <2>4. h \in Logs /\ h.cells = cells /\ h.write = last + 1 /\ h.from = g.from
    <3>1. h.cells = cells /\ h.write = last + 1 /\ h.from = g.from
          /\ h = [cells |-> cells, write |-> last + 1, from |-> g.from]
      BY <1>1, <2>2 DEF Logs
    <3> QED BY <1>3, <2>3, <3>1 DEF Logs
  <2> QED BY <2>4 DEF cells
<1>7. RingSound(h, ends \cup {last})
  <2> HIDE DEF h, g, ends
  <2> QED BY <1>1, <1>6, LogSound
<1>8. ring' \in [Rings -> Logs]
  BY <1>4, <1>6 DEF LogsInv
<1>9. \A j \in Rings : RingSound(ring'[j], breaks'[j])
  <2> HIDE DEF ends
  <2> QED BY <1>4, <1>5, <1>7 DEF LogsInv
<1>10. ASSUME NEW r \in Readers
       PROVE  ReaderSound(ring'[RingOf(r)], breaks'[RingOf(r)], reader'[r])
  <2>1. ReaderSound(ring[RingOf(r)], breaks[RingOf(r)], reader[r]) /\ RingOf(r) \in Rings
    BY RingIs DEF LogsInv
  <2>2. CASE RingOf(r) # k
    BY <1>2, <1>4, <1>5, <2>1, <2>2
  <2>3. CASE RingOf(r) = k
    <3> DEFINE s == reader[r]
               e == breaks'[k]
    <3>1. s.cursor \in Nat /\ s.cursor <= g.write /\ Sound(ends, s, s.cursor)
      BY <2>1, <2>3 DEF ReaderSound, Sound, Kept
    <3> HIDE DEF s, e, g, ends
    <3>2. s.cursor <= last
      BY <1>3, <3>1
    <3>3. e = ends \cup {last}
      BY <1>5 DEF e
    <3>4. Sound(e, s, s.cursor)
      BY <1>1, <1>3, <3>1, <3>2, <3>3, SoundStays
    <3>5. s.cursor <= h.write
      <4> HIDE DEF h
      <4> QED BY <1>3, <1>6, <3>1, <3>2
    <3> QED BY <1>2, <2>3, <3>4, <3>5 DEF ReaderSound, s, e
  <2> QED BY <2>2, <2>3
<1>11. DOMAIN reader' = Readers /\ reader' = [r \in Readers |-> reader'[r]]
  BY <1>2 DEF LogsInv
<1> QED BY <1>5, <1>8, <1>9, <1>10, <1>11 DEF LogsInv

LEMMA BeginKeeps ==
  ASSUME LogsInv, Begin
  PROVE  LogsInv'
<1> DEFINE g == ring["poc"]
           h == ring'["poc"]
<1>0. "poc" \in Rings
  BY DEF Rings
<1>1. /\ ring' = [ring EXCEPT !["poc"].from = g.write] /\ breaks' = breaks /\ reader' = reader
  BY DEF Begin
<1>2. g \in Logs /\ RingSound(g, breaks["poc"])
  BY <1>0 DEF LogsInv
<1>3. /\ h = [g EXCEPT !.from = g.write] /\ \A j \in Rings : j # "poc" => ring'[j] = ring[j]
      /\ ring' = [j \in Rings |-> ring'[j]]
  BY <1>0, <1>1 DEF LogsInv
<1>4. h \in Logs /\ h.write = g.write /\ h.cells = g.cells /\ h.from = g.write /\ g.write \in Nat
  <2> HIDE DEF g, h
  <2> QED BY <1>2, <1>3 DEF Logs
<1>5. RingSound(h, breaks["poc"])
  <2> HIDE DEF g, h
  <2> QED BY <1>2, <1>4 DEF RingSound, Holds
<1>6. ring' \in [Rings -> Logs]
  BY <1>3, <1>4 DEF LogsInv
<1>7. \A j \in Rings : RingSound(ring'[j], breaks[j]) /\ ring'[j].write = ring[j].write
  BY <1>3, <1>4, <1>5 DEF LogsInv
<1>8. ASSUME NEW r \in Readers
      PROVE  ReaderSound(ring'[RingOf(r)], breaks[RingOf(r)], reader[r])
  <2>1. ReaderSound(ring[RingOf(r)], breaks[RingOf(r)], reader[r]) /\ RingOf(r) \in Rings
    BY RingIs DEF LogsInv
  <2> QED BY <1>7, <2>1 DEF ReaderSound
<1> QED BY <1>1, <1>6, <1>7, <1>8 DEF LogsInv

LEMMA RequestKeeps ==
  ASSUME LogsInv, Request
  PROVE  LogsInv'
<1>1. PICK r \in Readers : r = page
  BY DEF Request
<1> DEFINE k == RingOf(r)
           g == ring[k]
           c == Starts(g, reader[r].cursor)
           next == Behind(g, c)
           t == Taken(r, c)
           came == c < g.write
           s == reader'[r]
<1>2. k \in Rings /\ g \in Logs /\ RingSound(g, breaks[k]) /\ breaks[k] \in SUBSET Nat
      /\ ReaderSound(g, breaks[k], reader[r])
  BY RingIs DEF LogsInv
<1>3. /\ next \in Nat /\ c <= next /\ c \in Nat /\ next <= g.write /\ reader[r].cursor <= c
      /\ Sound(breaks[k], t, next) /\ t.cursor = reader[r].cursor
      /\ (c = g.write => Sound(breaks[k], t, reader[r].cursor))
  <2> HIDE DEF k, c
  <2>1. c = Starts(ring[k], reader[r].cursor) /\ k = RingOf(r)
    BY DEF c, k
  <2> QED BY <1>2, <2>1, TakenSound
<1>4. /\ reader' = [reader EXCEPT ![r] =
                      [t EXCEPT !.cursor = IF r = "socket" /\ ~came THEN @ ELSE next]]
      /\ ring' = ring /\ breaks' = breaks
  BY <1>1 DEF Request
<1>5. /\ s = [t EXCEPT !.cursor = IF r = "socket" /\ ~came THEN @ ELSE next]
      /\ \A q \in Readers : q # r => reader'[q] = reader[q]
      /\ DOMAIN reader' = Readers /\ reader' = [q \in Readers |-> reader'[q]]
  BY <1>4 DEF LogsInv
<1>6. t \in Kept /\ t.cursor \in Nat /\ g.write \in Nat
  BY <1>2, <1>3 DEF Sound, Kept, Logs
<1> HIDE DEF t, s, next, c, g
<1>7. /\ s \in Kept /\ s.partial = t.partial /\ s.lines = t.lines /\ s.torn = t.torn
      /\ s.cursor = IF r = "socket" /\ ~came THEN t.cursor ELSE next
  BY <1>3, <1>5, <1>6 DEF Kept
<1>8. Sound(breaks[k], s, next)
  BY <1>3, <1>7 DEF Sound
<1>9. ReaderSound(g, breaks[k], s)
  <2>1. CASE s.cursor = next
    BY <1>3, <1>8, <2>1 DEF ReaderSound
  <2>2. CASE s.cursor # next
    <3>1. ~came /\ s.cursor = reader[r].cursor
      BY <1>3, <1>7, <2>2
    <3>2. c = g.write
      BY <1>3, <1>6, <3>1
    <3>3. Sound(breaks[k], s, s.cursor) /\ s.cursor <= g.write
      BY <1>2, <1>3, <1>7, <3>1, <3>2 DEF Sound, ReaderSound
    <3> QED BY <3>3 DEF ReaderSound
  <2> QED BY <2>1, <2>2
<1>10. ASSUME NEW q \in Readers PROVE ReaderSound(ring[RingOf(q)], breaks[RingOf(q)], reader'[q])
  BY <1>5, <1>9 DEF LogsInv, g, s
<1> QED BY <1>4, <1>5, <1>10 DEF LogsInv

LEMMA EndsKeep ==
  ASSUME LogsInv, ProgramEnds
  PROVE  LogsInv'
<1>1. ring' = ring /\ breaks' = breaks /\ reader' = [r \in Readers |-> Unread]
  BY DEF ProgramEnds
<1>2. ASSUME NEW r \in Readers
      PROVE  ReaderSound(ring[RingOf(r)], breaks[RingOf(r)], reader'[r])
  <2>1. reader'[r] = Unread /\ RingOf(r) \in Rings
    BY <1>1, RingIs
  <2>2. ring[RingOf(r)].write \in Nat
    BY <2>1 DEF LogsInv, Logs
  <2> QED BY <2>1, <2>2, UnreadSound DEF ReaderSound
<1> QED BY <1>1, <1>2 DEF LogsInv

(* In every reachable state the rings hold the last of the log and every page has a part of
   it that follows on, whole where it is not marked. *)
THEOREM LogsAreSound == LogsSpec => []LogsInv
<1>1. LogsInit => LogsInv
  BY LogsInitSound
<1>2. LogsInv /\ [LogsNext]_logVars => LogsInv'
  <2> SUFFICES ASSUME LogsInv, [LogsNext]_logVars PROVE LogsInv'
    OBVIOUS
  <2>1. CASE \E k \in Rings : Log(k)
    BY <2>1, LogKeeps
  <2>2. CASE Begin
    BY <2>2, BeginKeeps
  <2>3. CASE Request
    BY <2>3, RequestKeeps
  <2>4. CASE Fails
    BY <2>4, LogsSame DEF Fails
  <2>5. CASE Frame
    BY <2>5, LogsSame DEF Frame
  <2>6. CASE OpenPage
    BY <2>6, LogsSame DEF OpenPage
  <2>7. CASE LeavePage
    BY <2>7, LogsSame DEF LeavePage
  <2>8. CASE ProgramStarts
    BY <2>8, LogsSame DEF ProgramStarts
  <2>9. CASE ProgramEnds
    BY <2>9, EndsKeep
  <2>10. CASE UNCHANGED logVars
    BY <2>10, LogsSame DEF logVars
  <2> QED BY <2>1, <2>2, <2>3, <2>4, <2>5, <2>6, <2>7, <2>8, <2>9, <2>10 DEF LogsNext
<1> QED BY <1>1, <1>2, PTL DEF LogsSpec

(* What a page shows goes up from row to row. *)
LEMMA ShownAscends ==
  ASSUME NEW ends, NEW s, Sound(ends, s, s.cursor)
  PROVE  Ascends(Shown(s))
<1>1. s \in Kept
  BY DEF Sound
<1>2. s.cursor \in Nat /\ s.partial \in Seq(Nat) /\ s.lines \in Seq(Lines)
  BY <1>1 DEF Kept
<1>3. \A i \in DOMAIN s.lines : s.lines[i].text \in Seq(Nat)
  <2>1. \A i \in DOMAIN s.lines : s.lines[i] \in Lines
    BY <1>2
  <2> QED BY <2>1 DEF Lines
<1> DEFINE n == Len(s.lines)
           rows == Shown(s)
           texts == [i \in DOMAIN s.lines |-> s.lines[i].text]
           rest == <<s.partial, <<s.cursor>>>>
<1>4. n \in Nat /\ DOMAIN s.lines = 1..n
  BY <1>2
<1>5. /\ DOMAIN rows = 1..(n + 2) /\ rows[n + 1] = s.partial /\ rows[n + 2] = <<s.cursor>>
      /\ \A i \in 1..n : rows[i] = s.lines[i].text
  <2> DEFINE S == Seq(Nat)
  <2>1. texts \in Seq(S) /\ Len(texts) = n /\ \A i \in 1..n : texts[i] = s.lines[i].text
    BY <1>3, <1>4
  <2>2. rest \in Seq(S) /\ Len(rest) = 2 /\ rest[1] = s.partial /\ rest[2] = <<s.cursor>>
    BY <1>2
  <2>3. rows = texts \o rest
    BY DEF Shown
  <2> HIDE DEF texts, rest, rows, n, S
  <2>4. /\ texts \o rest \in Seq(S) /\ Len(texts \o rest) = Len(texts) + Len(rest)
        /\ \A i \in 1..Len(texts) : (texts \o rest)[i] = texts[i]
        /\ \A i \in 1..Len(rest) : (texts \o rest)[Len(texts) + i] = rest[i]
    <3>1. texts \in Seq(S) /\ rest \in Seq(S)
      BY <2>1, <2>2
    <3> QED BY <3>1
  <2>5. /\ DOMAIN rows = 1..(n + 2)
        /\ \A i \in 1..n : rows[i] = texts[i]
        /\ \A i \in 1..2 : rows[n + i] = rest[i]
    BY <1>4, <2>1, <2>2, <2>3, <2>4
  <2>6. rows[n + 1] = rest[1] /\ rows[n + 2] = rest[2]
    BY <2>5
  <2> QED BY <2>1, <2>2, <2>5, <2>6
<1>6. /\ Rises(s.partial) /\ Below(s.partial, s.cursor)
      /\ \A i \in 1..n : /\ Rises(rows[i]) /\ Below(rows[i], s.cursor)
                         /\ Before(rows[i], s.partial)
      /\ \A i, j \in 1..n : i < j => Before(rows[i], rows[j])
  BY <1>4, <1>5 DEF Sound, LineSound
<1>7. \A q : Below(q, s.cursor) => Before(q, <<s.cursor>>)
  BY DEF Below, Before
<1>8. Rises(<<s.cursor>>)
  BY DEF Rises
<1> HIDE DEF rows, n
<1>9. \A i \in DOMAIN rows : i \in 1..n \/ i = n + 1 \/ i = n + 2
  BY <1>4, <1>5
<1>10. \A i \in DOMAIN rows : Rises(rows[i])
  BY <1>5, <1>6, <1>8, <1>9
<1>11. ASSUME NEW i \in DOMAIN rows, NEW j \in DOMAIN rows, i < j PROVE Before(rows[i], rows[j])
  <2>1. i \in Int /\ j \in Int /\ i # n + 2
    BY <1>4, <1>5, <1>11
  <2>2. CASE i = n + 1
    <3>1. j = n + 2
      BY <1>4, <1>9, <1>11, <2>2
    <3> QED BY <1>5, <1>6, <1>7, <2>2, <3>1
  <2>3. CASE i \in 1..n
    BY <1>5, <1>6, <1>7, <1>9, <1>11, <2>3
  <2> QED BY <1>9, <2>1, <2>2, <2>3
<1>12. ASSUME NEW i \in DOMAIN rows, NEW j \in DOMAIN rows,
              NEW a \in DOMAIN rows[i], NEW b \in DOMAIN rows[j], i < j \/ (i = j /\ a < b)
       PROVE  rows[i][a] < rows[j][b]
  <2>1. CASE i < j
    BY <1>11, <2>1 DEF Before
  <2>2. CASE i = j /\ a < b
    BY <1>10, <2>2 DEF Rises
  <2> QED BY <1>12, <2>1, <2>2
<1> QED BY <1>12 DEF Ascends, rows

(* What a page shows is the log, in order, and a line is one whole line unless the ring had
   moved on under the page (LinesAreTheLog): for rings, chunks and scrollbacks of any size
   and any schedule of writers and pages. *)
THEOREM PagesShowTheLog == LogsSpec => []LinesAreTheLog
<1>1. ASSUME LogsInv PROVE LinesAreTheLog
  <2> SUFFICES ASSUME NEW r \in Readers
               PROVE  /\ Ascends(Shown(reader[r]))
                      /\ \A i \in DOMAIN reader[r].lines :
                           reader[r].lines[i].torn \/ Whole(RingOf(r), reader[r].lines[i].text)
    BY DEF LinesAreTheLog
  <2>1. Sound(breaks[RingOf(r)], reader[r], reader[r].cursor)
    BY <1>1 DEF LogsInv, ReaderSound
  <2>2. Ascends(Shown(reader[r]))
    BY <2>1, ShownAscends
  <2>3. \A i \in DOMAIN reader[r].lines :
          reader[r].lines[i].torn \/ WholeIn(breaks[RingOf(r)], reader[r].lines[i].text)
    BY <2>1 DEF Sound, LineSound
  <2>4. \A text : WholeIn(breaks[RingOf(r)], text) => Whole(RingOf(r), text)
    BY DEF WholeIn, Whole, StartsAt, IsStart
  <2> QED BY <2>2, <2>3, <2>4
<1> QED BY <1>1, LogsAreSound, PTL
=============================================================================
