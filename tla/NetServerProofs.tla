-------------------------- MODULE NetServerProofs --------------------------
(***************************************************************************)
(* Proofs about NetServer for every set of connections and every size of   *)
(* the queues: type correctness, the soundness of the pairing, that the    *)
(* server implements the pairing promise and two first-in first-out        *)
(* streams, and that gestures only mix after a wipe by a stranger.         *)
(***************************************************************************)
EXTENDS NetServer, FiniteSetTheorems, TLAPS

-----------------------------------------------------------------------------
(* The ring *)

\* Remainders by the queue length are ring positions.
LEMMA ModIndex == \A x \in Int : x % QueueSlots \in Indices
  BY SizesAssumption DEF Indices

LEMMA ClearedType == ASSUME NEW q \in Queues PROVE Cleared(q) \in Queues
  <1>1. 0 \in Indices /\ 0 \in 0..QueueSlots
    BY SizesAssumption DEF Indices
  <1> QED BY <1>1 DEF Cleared, Queues

\* A batch is whole elements that are in the queue.
LEMMA BatchBound ==
  ASSUME NEW q \in Queues
  PROVE  Batch(q) \in Nat /\ Batch(q) * ElementSlots \in 0..q.count
         /\ (Batch(q) > 0 => Batch(q) * ElementSlots \in 1..q.count)
  <1> DEFINE e == q.count \div ElementSlots
  <1>1. q.count \in Nat /\ ElementSlots \in Nat \ {0} /\ BatchElements \in Nat \ {0}
    BY SizesAssumption DEF Queues
  <1>2. e \in Nat /\ e * ElementSlots <= q.count
    BY <1>1
  <1>3. Batch(q) \in Nat /\ Batch(q) <= e
    BY <1>1, <1>2 DEF Batch
  <1>4. Batch(q) * ElementSlots \in Nat /\ Batch(q) * ElementSlots <= e * ElementSlots
    BY <1>1, <1>2, <1>3
  <1>5. Batch(q) > 0 => Batch(q) * ElementSlots >= 1
    BY <1>1, <1>3
  <1> QED BY <1>1, <1>2, <1>3, <1>4, <1>5

LEMMA DropType ==
  ASSUME NEW q \in Queues, NEW n \in Nat PROVE Drop(q, n) \in Queues
  <1> DEFINE gone == IF n > q.count THEN q.count ELSE n
  <1>1. gone \in 0..q.count
    BY DEF Queues
  <1>2. (q.head + gone) % QueueSlots \in Indices
    <2>1. q.head + gone \in Int
      BY <1>1, SizesAssumption DEF Queues, Indices
    <2> QED BY <2>1, ModIndex
  <1>3. q.count - gone \in 0..QueueSlots
    BY <1>1, SizesAssumption DEF Queues
  <1> QED BY <1>2, <1>3 DEF Drop, Queues

LEMMA PushType ==
  ASSUME NEW q \in Queues, NEW first \in Nat, NEW n \in 1..QueueSlots
  PROVE  Push(q, first, n) \in Queues
  <1> DEFINE over == q.count + n - QueueSlots
             kept == IF over > 0 THEN Drop(q, over) ELSE q
             slots == [i \in Indices |->
                         LET place == (i - kept.head - kept.count) % QueueSlots
                         IN  IF place < n THEN first + place ELSE kept.slots[i]]
  <1>1. over \in Int
    BY SizesAssumption DEF Queues
  <1>2. kept \in Queues
    BY <1>1, DropType
  <1>3. kept.count + n \in 0..QueueSlots
    <2>1. CASE over > 0
      <3>1. over <= q.count
        BY <2>1, SizesAssumption DEF Queues
      <3>2. kept.count = q.count - over
        BY <2>1, <3>1, <1>1 DEF Drop, Queues
      <3> QED BY <3>2, <2>1, SizesAssumption DEF Queues
    <2>2. CASE ~(over > 0)
      BY <2>2, SizesAssumption DEF Queues
    <2> QED BY <2>1, <2>2
  <1>4. slots \in [Indices -> SlotNames]
    <2> SUFFICES ASSUME NEW i \in Indices PROVE slots[i] \in Nat
      BY DEF SlotNames
    <2> DEFINE x == i - kept.head - kept.count
    <2>1. x \in Int
      BY <1>2, SizesAssumption DEF Queues, Indices
    <2>2. x % QueueSlots \in Nat
      BY <2>1, ModIndex, SizesAssumption DEF Indices
    <2>3. kept.slots[i] \in Nat
      BY <1>2 DEF Queues, SlotNames
    <2> HIDE DEF kept, x
    <2>4. slots[i] = IF x % QueueSlots < n THEN first + (x % QueueSlots) ELSE kept.slots[i]
      BY DEF x
    <2> QED BY <2>2, <2>3, <2>4
  <1>5. Push(q, first, n) = [kept EXCEPT !.slots = slots, !.count = kept.count + n]
    BY DEF Push
  <1> HIDE DEF kept, slots
  <1> QED BY <1>2, <1>3, <1>4, <1>5 DEF Queues

LEMMA AgedType == ASSUME NEW q \in Queues, NEW d \in Nat PROVE Aged(q, d) \in Queues
  BY DEF Aged, Queues

LEMMA SentType == ASSUME NEW q \in Queues PROVE Sent(q) \in Queues
  <1>1. Batch(q) \in Nat /\ Batch(q) * ElementSlots \in Nat
    BY BatchBound DEF Queues
  <1>2. Drop(q, Batch(q) * ElementSlots) \in Queues
    BY <1>1, DropType
  <1>3. (IF Batch(q) > LeadTicks THEN Batch(q) - LeadTicks ELSE 0) \in Nat
    BY <1>1, SizesAssumption
  <1> QED BY <1>2, <1>3 DEF Sent, Queues

LEMMA FedType == ASSUME NEW q \in Queues PROVE Fed(q) \in Queues
  <1> DEFINE told == [q EXCEPT !.clearPending = FALSE]
  <1>1. told \in Queues /\ [told EXCEPT !.wait = 0] \in Queues
    BY DEF Queues
  <1>2. Sent(told) \in Queues
    BY <1>1, SentType
  <1> QED BY <1>1, <1>2 DEF Fed

LEMMA UnfedType == ASSUME NEW q \in Queues PROVE Unfed(q) \in Queues
  BY DEF Unfed, Queues

LEMMA UploadedType ==
  ASSUME NEW q \in Queues, NEW mode, NEW first \in Nat, NEW n \in 1..QueueSlots
  PROVE  Uploaded(q, mode, first, n) \in Queues
  <1>1. [Cleared(q) EXCEPT !.clearPending = TRUE] \in Queues
    BY ClearedType DEF Queues
  <1> QED BY <1>1, PushType DEF Uploaded

\* What the App gets are slot names.
LEMMA HeardType ==
  ASSUME NEW ch \in Channels, NEW q \in Queues,
         app[ch] \in [first : SlotNames, last : SlotNames]
  PROVE  Heard(ch, q) \in [first : SlotNames, last : SlotNames]
  <1> DEFINE n == Batch(q) * ElementSlots
  <1>1. CASE Due(q)
    <2>1. n \in 1..q.count /\ 1 \in 1..q.count
      <3>1. n \in 1..q.count
        BY <1>1, BatchBound DEF Due
      <3> QED BY <3>1 DEF Queues
    <2>2. \A i \in 1..q.count : Pending(q)[i] \in SlotNames
      <3> SUFFICES ASSUME NEW i \in 1..q.count PROVE q.slots[(q.head + i - 1) % QueueSlots] \in SlotNames
        BY DEF Pending
      <3>1. q.head + i - 1 \in Int
        BY SizesAssumption DEF Queues, Indices
      <3> QED BY <3>1, ModIndex DEF Queues
    <2>3. Pending(q)[1] \in SlotNames /\ Pending(q)[n] \in SlotNames
      BY <2>1, <2>2
    <2> HIDE DEF n
    <2> QED BY <1>1, <2>3 DEF Heard, SlotNames, n
  <1>2. CASE ~Due(q)
    BY <1>2 DEF Heard, SlotNames
  <1> QED BY <1>1, <1>2

-----------------------------------------------------------------------------
(* Type correctness *)

LEMMA AllClearedType == wave \in [Channels -> Queues] => AllCleared \in [Channels -> Queues]
  BY ClearedType DEF AllCleared

LEMMA NoAppType == NoApp \in [Channels -> [first : SlotNames, last : SlotNames]]
  BY DEF NoApp, SlotNames

LEMMA InitType == Init => TypeOK
  <1> SUFFICES ASSUME Init PROVE TypeOK
    OBVIOUS
  <1>1. 0 \in Indices /\ 0 \in 0..QueueSlots
    BY SizesAssumption DEF Indices
  <1>2. wave \in [Channels -> Queues]
    BY <1>1 DEF Init, Queues, SlotNames
  <1>3. /\ state \in States /\ paired \in BOOLEAN /\ peer \in Conns \cup {None}
        /\ clientCount \in Nat /\ wiped \in BOOLEAN
        /\ active \in SUBSET Conns /\ bound \in SUBSET Conns /\ broken \in SUBSET Conns
    BY DEF Init, States
  <1>4. /\ fresh \in [Channels -> SlotNames \ {0}]
        /\ lastSent \in [Channels -> SlotNames] /\ gesture \in [Channels -> SlotNames]
    BY DEF Init, SlotNames
  <1>5. app \in [Channels -> [first : SlotNames, last : SlotNames]]
    BY NoAppType DEF Init
  <1> QED BY <1>2, <1>3, <1>4, <1>5 DEF TypeOK

LEMMA TickType ==
  ASSUME TypeOK, NEW d \in 1..MaxDelay, Tick(d) PROVE TypeOK'
  <1> DEFINE aged == [ch \in Channels |-> Aged(wave[ch], d)]
  <1>1. d \in Nat
    BY SizesAssumption
  <1>2. aged \in [Channels -> Queues]
    BY <1>1, AgedType DEF TypeOK
  <1>3. \A ch \in Channels : /\ Fed(aged[ch]) \in Queues /\ Unfed(aged[ch]) \in Queues
                             /\ Heard(ch, aged[ch]) \in [first : SlotNames, last : SlotNames]
    BY <1>2, FedType, UnfedType, HeardType DEF TypeOK
  <1> HIDE DEF aged
  <1>4. wave' \in [Channels -> Queues]
    BY <1>2, <1>3 DEF Tick, aged, Channels
  <1>5. app' \in [Channels -> [first : SlotNames, last : SlotNames]]
    BY <1>3 DEF Tick, TypeOK, aged
  <1>6. lastSent' \in [Channels -> SlotNames]
    BY <1>5 DEF Tick, TypeOK
  <1> QED BY <1>4, <1>5, <1>6 DEF Tick, TypeOK, statusVars, clientVars

LEMMA UploadType ==
  ASSUME TypeOK, NEW mode, NEW channels \in SUBSET Channels, NEW n \in UploadSizes,
         UploadWaveform(mode, channels, n)
  PROVE  TypeOK'
  <1>1. n \in 1..QueueSlots /\ n \in Nat
    BY SizesAssumption
  <1>2. wave' \in [Channels -> Queues]
    BY <1>1, UploadedType DEF UploadWaveform, TypeOK, SlotNames
  <1>3. fresh' \in [Channels -> SlotNames \ {0}]
    BY <1>1 DEF UploadWaveform, TypeOK, SlotNames
  <1>4. gesture' \in [Channels -> SlotNames]
    BY DEF UploadWaveform, TypeOK, SlotNames
  <1> QED BY <1>2, <1>3, <1>4 DEF UploadWaveform, TypeOK, statusVars, clientVars

LEMMA ClearType ==
  ASSUME TypeOK, NEW channels \in SUBSET Channels, SendClear(channels) PROVE TypeOK'
  <1>1. wave' \in [Channels -> Queues]
    BY ClearedType DEF SendClear, TypeOK
  <1>2. app' \in [Channels -> [first : SlotNames, last : SlotNames]]
    BY DEF SendClear, TypeOK, SlotNames
  <1> QED BY <1>1, <1>2 DEF SendClear, TypeOK, statusVars, clientVars

\* Type correctness of the server core for every instance: ring heads stay in the
\* ring, counts within the queue, whatever the sequence of calls.
THEOREM TypeCorrect == Spec => []TypeOK
  <1>1. Init => TypeOK
    BY InitType
  <1>2. TypeOK /\ [Next]_vars => TypeOK'
    <2> SUFFICES ASSUME TypeOK, [Next]_vars PROVE TypeOK'
      OBVIOUS
    <2> USE AllClearedType, NoAppType DEF statusVars, clientVars, streamVars, States, Unpair
    <2>1. CASE SetListening
      BY <2>1 DEF SetListening, TypeOK
    <2>2. CASE SetFailed
      BY <2>2 DEF SetFailed, TypeOK
    <2>3. CASE SetStopped
      BY <2>3 DEF SetStopped, TypeOK
    <2>4. ASSUME NEW c \in Conns, Attach(c) PROVE TypeOK'
      <3>1. CASE c \in broken
        BY <2>4, <3>1 DEF Attach, MayAttach, TypeOK
      <3>2. CASE c \notin broken
        <4>1. /\ active' = active \cup {c} /\ bound' = bound \cup {c}
              /\ state' = "Paired" /\ paired' = TRUE /\ peer' = c
              /\ clientCount' = clientCount + 1 /\ wiped' = FALSE
              /\ UNCHANGED <<streamVars, broken, app>>
          BY <2>4, <3>2 DEF Attach
        <4>2. active' \in SUBSET Conns /\ bound' \in SUBSET Conns /\ clientCount' \in Nat
          BY <4>1 DEF TypeOK
        <4> QED BY <4>1, <4>2 DEF TypeOK
      <3> QED BY <3>1, <3>2
    <2>5. ASSUME NEW c \in Conns, Detach(c) PROVE TypeOK'
      <3>1. /\ active' \in SUBSET Conns /\ bound' \in SUBSET Conns
            /\ broken' \in SUBSET Conns /\ wiped' \in BOOLEAN
        BY <2>5 DEF Detach, TypeOK
      <3>2. clientCount' \in Nat
        BY <2>5 DEF Detach, TypeOK
      <3>3. /\ state' \in {"Idle", "Listening", "Paired", "Stopped", "Failed"}
            /\ paired' \in BOOLEAN /\ peer' \in Conns \cup {None}
        BY <2>5 DEF Detach, TypeOK
      <3>4. wave' \in [Channels -> Queues]
            /\ app' \in [Channels -> [first : SlotNames, last : SlotNames]]
        BY <2>5 DEF Detach, TypeOK
      <3> QED BY <2>5, <3>1, <3>2, <3>3, <3>4 DEF Detach, TypeOK
    <2>6. ASSUME NEW c \in Conns, OnBreak(c) PROVE TypeOK'
      BY <2>6 DEF OnBreak, TypeOK
    <2>7. ASSUME NEW c \in Conns, ConnBreaks(c) PROVE TypeOK'
      BY <2>7 DEF ConnBreaks, TypeOK
    <2>8. ASSUME NEW d \in 1..MaxDelay, Tick(d) PROVE TypeOK'
      BY <2>8, TickType
    <2>9. ASSUME NEW mode \in Modes, NEW channels \in ChannelLists, NEW n \in UploadSizes,
                 UploadWaveform(mode, channels, n)
          PROVE  TypeOK'
      BY <2>9, UploadType DEF ChannelLists
    <2>10. ASSUME NEW channels \in ChannelLists, SendClear(channels) PROVE TypeOK'
      BY <2>10, ClearType DEF ChannelLists
    <2>11. CASE UNCHANGED vars
      BY <2>11 DEF vars, TypeOK
    <2> QED BY <2>1, <2>2, <2>3, <2>4, <2>5, <2>6, <2>7, <2>8, <2>9, <2>10, <2>11 DEF Next
  <1> QED BY <1>1, <1>2, PTL DEF Spec

-----------------------------------------------------------------------------
(* The pairing *)

LEMMA ActiveFinite == TypeOK => IsFiniteSet(active) /\ Cardinality(active) \in Nat
  BY ConnsAssumption, FS_Subset, FS_CardinalityType DEF TypeOK

LEMMA InitSound == Init => PairingSound
  BY FS_EmptySet, SizesAssumption DEF Init, PairingSound

LEMMA AttachSound ==
  ASSUME TypeOK, PairingSound, NEW c \in Conns, Attach(c) PROVE PairingSound'
  <1>1. /\ c \notin active /\ state \in {"Listening", "Paired"} /\ bound = {}
        /\ Cardinality(active) < MaxClients
    BY DEF Attach, MayAttach
  <1>2. CASE c \notin broken
    <2>1. /\ active' = active \cup {c} /\ bound' = {c}
          /\ state' = "Paired" /\ paired' = TRUE /\ peer' = c
          /\ clientCount' = clientCount + 1
      BY <1>1, <1>2 DEF Attach
    <2>2. Cardinality(active') = Cardinality(active) + 1
      BY <1>1, <2>1, ActiveFinite, FS_AddElement
    <2>3. Cardinality(active') <= MaxClients
      BY <1>1, <2>2, ActiveFinite, SizesAssumption
    <2>4. c # None
      BY ConnsAssumption
    <2> QED BY <2>1, <2>2, <2>3, <2>4 DEF PairingSound
  <1>3. CASE c \in broken
    <2>1. /\ UNCHANGED <<active, bound, clientCount>>
          /\ paired' = FALSE /\ peer' = None /\ state' = "Listening"
      BY <1>1, <1>3 DEF Attach, Unpair, clientVars
    <2> QED BY <2>1 DEF PairingSound
  <1> QED BY <1>2, <1>3

LEMMA DetachSound ==
  ASSUME TypeOK, PairingSound, NEW c \in Conns, Detach(c) PROVE PairingSound'
  <1>1. /\ c \in active /\ active' = active \ {c} /\ bound' = bound \ {c}
        /\ clientCount' = IF clientCount > 0 THEN clientCount - 1 ELSE 0
    BY DEF Detach
  <1>2. Cardinality(active') = Cardinality(active) - 1
    BY <1>1, ActiveFinite, FS_RemoveElement
  <1>3. Cardinality(active) > 0
    BY <1>1, ActiveFinite, FS_EmptySet
  <1>4. clientCount' = Cardinality(active') /\ Cardinality(active') <= MaxClients
    BY <1>1, <1>2, <1>3, ActiveFinite, SizesAssumption DEF PairingSound
  <1>5. bound' \subseteq active' /\ \A b, e \in bound' : b = e
    BY <1>1 DEF PairingSound
  <1>6. (state' = "Paired" <=> paired') /\ (peer' # None <=> paired') /\ (paired' => peer' \in bound')
    <2>1. CASE c \in bound
      BY <2>1 DEF Detach, Unpair, PairingSound
    <2>2. CASE c \notin bound
      BY <1>1, <2>2 DEF Detach, PairingSound
    <2> QED BY <2>1, <2>2
  <1> QED BY <1>4, <1>5, <1>6 DEF PairingSound

\* The pairing is inductive on its own: every call that moves one of the client
\* slots, the flag, the peer id or the state moves the others with it.
LEMMA NextSound == TypeOK /\ PairingSound /\ [Next]_vars => PairingSound'
  <1> SUFFICES ASSUME TypeOK, PairingSound, [Next]_vars PROVE PairingSound'
    OBVIOUS
  <1>1. CASE SetListening
    BY <1>1 DEF SetListening, PairingSound, clientVars
  <1>2. CASE SetFailed
    BY <1>2 DEF SetFailed, PairingSound, clientVars
  <1>3. CASE SetStopped
    BY <1>3, FS_EmptySet, SizesAssumption DEF SetStopped, PairingSound
  <1>4. ASSUME NEW c \in Conns, OnBreak(c) PROVE PairingSound'
    BY <1>4 DEF OnBreak, Unpair, PairingSound
  <1>5. CASE UNCHANGED <<statusVars, clientVars>>
    BY <1>5 DEF statusVars, clientVars, PairingSound
  <1>6. ASSUME NEW c \in Conns, ConnBreaks(c) PROVE UNCHANGED <<statusVars, clientVars>>
    BY <1>6 DEF ConnBreaks
  <1>7. ASSUME NEW d \in 1..MaxDelay, Tick(d) PROVE UNCHANGED <<statusVars, clientVars>>
    BY <1>7 DEF Tick
  <1>8. ASSUME NEW mode, NEW channels, NEW n, UploadWaveform(mode, channels, n)
        PROVE  UNCHANGED <<statusVars, clientVars>>
    BY <1>8 DEF UploadWaveform
  <1>9. ASSUME NEW channels, SendClear(channels) PROVE UNCHANGED <<statusVars, clientVars>>
    BY <1>9 DEF SendClear
  <1>10. CASE UNCHANGED vars
    BY <1>5, <1>10 DEF vars
  <1> QED BY <1>1, <1>2, <1>3, <1>4, <1>5, <1>6, <1>7, <1>8, <1>9, <1>10,
             AttachSound, DetachSound DEF Next

\* At most one connection is the App and the status never announces a pairing that
\* no client slot holds, for any number of connections and slots.
THEOREM PairingIsSound == Spec => []PairingSound
  <1>1. Init => PairingSound
    BY InitSound
  <1>2. TypeOK /\ PairingSound /\ [Next]_vars => PairingSound'
    BY NextSound
  <1> QED BY <1>1, <1>2, TypeCorrect, PTL DEF Spec

-----------------------------------------------------------------------------
(* The pairing promise *)

Holder == IF bound = {} THEN None ELSE CHOOSE c \in bound : TRUE

\* The strengthening the refinement needs: a binding exists only while the server
\* is open, so leaving any other state revokes nothing.
BoundOnlyWhileOpen == bound # {} => state \in {"Listening", "Paired"}

LEMMA BoundOpenInductive ==
  /\ Init => BoundOnlyWhileOpen
  /\ TypeOK /\ PairingSound /\ BoundOnlyWhileOpen /\ [Next]_vars => BoundOnlyWhileOpen'
  <1>1. Init => BoundOnlyWhileOpen
    BY DEF Init, BoundOnlyWhileOpen
  <1>2. ASSUME TypeOK, PairingSound, BoundOnlyWhileOpen, [Next]_vars
        PROVE  BoundOnlyWhileOpen'
    <2> USE <1>2 DEF BoundOnlyWhileOpen
    <2>1. CASE SetListening \/ SetFailed \/ SetStopped
      BY <2>1 DEF SetListening, SetFailed, SetStopped, clientVars, PairingSound
    <2>2. ASSUME NEW c \in Conns, Attach(c) \/ Detach(c) \/ OnBreak(c)
          PROVE  BoundOnlyWhileOpen'
      <3>1. CASE Attach(c)
        BY <3>1 DEF Attach, MayAttach, Unpair, clientVars
      <3>2. CASE Detach(c)
        BY <3>2 DEF Detach, Unpair
      <3>3. CASE OnBreak(c)
        BY <3>3 DEF OnBreak, Unpair
      <3> QED BY <2>2, <3>1, <3>2, <3>3
    <2>3. CASE UNCHANGED <<state, bound>>
      BY <2>3
    <2>4. ASSUME NEW c \in Conns, ConnBreaks(c) PROVE UNCHANGED <<state, bound>>
      BY <2>4 DEF ConnBreaks, statusVars, clientVars
    <2>5. ASSUME NEW d \in 1..MaxDelay, Tick(d) PROVE UNCHANGED <<state, bound>>
      BY <2>5 DEF Tick, statusVars, clientVars
    <2>6. ASSUME NEW mode, NEW channels, NEW n,
                 UploadWaveform(mode, channels, n) \/ SendClear(channels)
          PROVE  UNCHANGED <<state, bound>>
      BY <2>6 DEF UploadWaveform, SendClear, statusVars, clientVars
    <2>7. CASE UNCHANGED vars
      BY <2>7 DEF vars, statusVars, clientVars
    <2> QED BY <2>1, <2>2, <2>3, <2>4, <2>5, <2>6, <2>7 DEF Next
  <1> QED BY <1>1, <1>2

LEMMA NextRefines ==
  TypeOK /\ PairingSound /\ BoundOnlyWhileOpen /\ [Next]_vars =>
    [ServerPairing!Next]_<<PairingPhase, Holder>>
  <1> SUFFICES ASSUME TypeOK, PairingSound, BoundOnlyWhileOpen, [Next]_vars
               PROVE  ServerPairing!Next \/ UNCHANGED <<PairingPhase, Holder>>
    OBVIOUS
  <1> USE DEF PairingPhase, Holder, ServerPairing!Next
  <1>1. CASE SetListening
    <2>1. bound = {} /\ bound' = {} /\ state \notin {"Listening", "Paired"} /\ state' = "Listening"
      BY <1>1 DEF SetListening, clientVars, PairingSound
    <2> QED BY <2>1 DEF ServerPairing!Open
  <1>2. CASE SetFailed
    <2>1. bound = {} /\ bound' = {} /\ state' = "Failed"
      BY <1>2 DEF SetFailed, clientVars, PairingSound
    <2> QED BY <2>1 DEF ServerPairing!Close
  <1>3. CASE SetStopped
    <2>1. bound' = {} /\ state' = "Stopped"
      BY <1>3 DEF SetStopped
    <2>2. CASE state \in {"Listening", "Paired"}
      BY <2>1, <2>2 DEF ServerPairing!Close
    <2>3. CASE state = "Failed" /\ bound = {}
      BY <2>1, <2>3
    <2> QED BY <2>1, <2>2, <2>3, <1>3 DEF SetStopped, BoundOnlyWhileOpen
  <1>4. ASSUME NEW c \in Conns, Attach(c) PROVE ServerPairing!Next \/ UNCHANGED <<PairingPhase, Holder>>
    <2>1. bound = {} /\ state \in {"Listening", "Paired"}
      BY <1>4 DEF Attach, MayAttach
    <2>2. CASE c \notin broken
      <3>1. bound' = {c} /\ state' = "Paired"
        BY <1>4, <2>1, <2>2 DEF Attach
      <3>2. Holder' = c
        BY <3>1
      <3> QED BY <2>1, <3>1, <3>2 DEF ServerPairing!Take
    <2>3. CASE c \in broken
      BY <1>4, <2>1, <2>3 DEF Attach, Unpair, clientVars
    <2> QED BY <2>2, <2>3
  <1>5. ASSUME NEW c \in Conns, Detach(c) \/ OnBreak(c)
        PROVE  ServerPairing!Next \/ UNCHANGED <<PairingPhase, Holder>>
    <2>1. bound' = bound \ {c}
      BY <1>5 DEF Detach, OnBreak
    <2>2. CASE c \in bound
      <3>1. bound' = {} /\ state \in {"Listening", "Paired"}
        BY <2>1, <2>2 DEF PairingSound, BoundOnlyWhileOpen
      <3>2. state' \in {"Listening", "Paired"}
        BY <1>5, <2>2, <3>1 DEF Detach, OnBreak, Unpair
      <3> QED BY <2>2, <3>1, <3>2 DEF ServerPairing!Release
    <2>3. CASE c \notin bound
      <3>1. bound' = bound
        BY <2>1, <2>3
      <3>2. state' = state \/ (state = "Paired" /\ state' = "Listening")
        BY <1>5, <2>3 DEF Detach, OnBreak, Unpair
      <3> QED BY <3>1, <3>2
    <2> QED BY <2>2, <2>3
  <1>6. CASE UNCHANGED <<state, bound>>
    BY <1>6
  <1>7. ASSUME NEW c \in Conns, ConnBreaks(c) PROVE UNCHANGED <<state, bound>>
    BY <1>7 DEF ConnBreaks, statusVars, clientVars
  <1>8. ASSUME NEW d \in 1..MaxDelay, Tick(d) PROVE UNCHANGED <<state, bound>>
    BY <1>8 DEF Tick, statusVars, clientVars
  <1>9. ASSUME NEW mode, NEW channels, NEW n,
               UploadWaveform(mode, channels, n) \/ SendClear(channels)
        PROVE  UNCHANGED <<state, bound>>
    BY <1>9 DEF UploadWaveform, SendClear, statusVars, clientVars
  <1>10. CASE UNCHANGED vars
    BY <1>10 DEF vars, statusVars, clientVars
  <1> HIDE DEF PairingPhase, Holder, ServerPairing!Next
  <1> QED BY <1>1, <1>2, <1>3, <1>4, <1>5, <1>6, <1>7, <1>8, <1>9, <1>10 DEF Next

\* The server core implements the pairing promise: a binding is taken only when
\* nobody holds it, and is given up by its holder's departure, its break or a stop.
THEOREM ServerImplementsPairing == Spec => ImplementsPairing
  <1>1. Init => ServerPairing!Init
    BY DEF Init, ServerPairing!Init, PairingPhase
  <1>2. TypeOK /\ PairingSound /\ BoundOnlyWhileOpen /\ [Next]_vars =>
          [ServerPairing!Next]_ServerPairing!pairingVars
    BY NextRefines DEF ServerPairing!pairingVars, Holder
  <1>3. Spec => []BoundOnlyWhileOpen
    <2>1. Init => BoundOnlyWhileOpen
      BY BoundOpenInductive
    <2>2. TypeOK /\ PairingSound /\ BoundOnlyWhileOpen /\ [Next]_vars => BoundOnlyWhileOpen'
      BY BoundOpenInductive
    <2> QED BY <2>1, <2>2, TypeCorrect, PairingIsSound, PTL DEF Spec
  <1> QED BY <1>1, <1>2, <1>3, TypeCorrect, PairingIsSound, PTL
          DEF Spec, ImplementsPairing, ServerPairing!Spec
-----------------------------------------------------------------------------
(* What the rings hold *)

\* Small numbers around a ring.
LEMMA ModSmall ==
  ASSUME NEW x \in Int
  PROVE  /\ x \in 0..(QueueSlots - 1) => x % QueueSlots = x
         /\ x \in QueueSlots..(2 * QueueSlots - 1) => x % QueueSlots = x - QueueSlots
         /\ x \in (-QueueSlots)..(-1) => x % QueueSlots = x + QueueSlots
  BY SizesAssumption

\* n slots in the order they were uploaded, up to the one before f.
Run(f, n) == [i \in 1..n |-> f - n + i - 1]

\* What waits is such a run: nothing is lost, repeated or moved inside a ring.
Holds(q, f) == q.count < f /\ Pending(q) = Run(f, q.count)

LEMMA HoldsAt ==
  ASSUME NEW q \in Queues, NEW f \in Nat
  PROVE  Holds(q, f) <=>
           /\ q.count < f
           /\ \A i \in 1..q.count :
                q.slots[(q.head + i - 1) % QueueSlots] = f - q.count + i - 1
  <1>1. q.count \in Nat
    BY SizesAssumption DEF Queues
  <1> QED BY <1>1 DEF Holds, Pending, Run

LEMMA EmptyHolds ==
  ASSUME NEW q \in Queues, NEW f \in Nat \ {0}, q.count = 0
  PROVE  Holds(q, f) /\ Pending(q) = <<>>
  <1>1. Pending(q) = <<>>
    BY DEF Pending
  <1> QED BY <1>1, HoldsAt

LEMMA DropHolds ==
  ASSUME NEW q \in Queues, NEW f \in Nat, Holds(q, f), NEW n \in 0..q.count
  PROVE  Holds(Drop(q, n), f) /\ Drop(q, n).count = q.count - n
  <1> DEFINE d == Drop(q, n)
  <1>1. q.count \in 0..QueueSlots /\ q.head \in 0..(QueueSlots - 1) /\ n \in Nat
    BY SizesAssumption DEF Queues, Indices
  <1>2. /\ d.slots = q.slots /\ d.count = q.count - n
        /\ d.head = (q.head + n) % QueueSlots
    BY <1>1 DEF Drop, Queues
  <1>3. d \in Queues
    BY <1>1, DropType
  <1>4. ASSUME NEW i \in 1..d.count
        PROVE  (d.head + i - 1) % QueueSlots = (q.head + (n + i) - 1) % QueueSlots
    <2>1. n + i \in 1..q.count
      BY <1>1, <1>2
    <2>2. CASE q.head + n < QueueSlots
      <3>1. q.head + n \in Int /\ q.head + n \in 0..(QueueSlots - 1)
        BY <1>1, <2>2, SizesAssumption
      <3>2. d.head = q.head + n
        BY <1>2, <3>1, ModSmall
      <3> QED BY <1>1, <1>2, <3>2
    <2>3. CASE q.head + n >= QueueSlots
      <3>1. d.head = q.head + n - QueueSlots
        BY <1>1, <1>2, <2>3, SizesAssumption, ModSmall
      <3>2. /\ d.head + i - 1 \in 0..(QueueSlots - 1)
            /\ q.head + (n + i) - 1 \in QueueSlots..(2 * QueueSlots - 1)
        BY <1>1, <2>1, <2>3, <3>1, SizesAssumption
      <3>3. (d.head + i - 1) % QueueSlots = d.head + i - 1
        <4>1. d.head + i - 1 \in Int
          BY <1>1, <3>1, SizesAssumption
        <4> HIDE DEF d
        <4> QED BY <3>2, <4>1, ModSmall
      <3>4. (q.head + (n + i) - 1) % QueueSlots = q.head + (n + i) - 1 - QueueSlots
        <4>1. q.head + (n + i) - 1 \in Int
          BY <1>1, <2>1
        <4> QED BY <1>1, <2>1, <3>2, <4>1, ModSmall, SizesAssumption
      <3> QED BY <1>1, <2>1, <3>1, <3>3, <3>4, SizesAssumption
    <2> QED BY <1>1, <2>2, <2>3, SizesAssumption
  <1>5. ASSUME NEW i \in 1..d.count
        PROVE  d.slots[(d.head + i - 1) % QueueSlots] = f - d.count + i - 1
    <2>1. n + i \in 1..q.count
      BY <1>1, <1>2
    <2>2. q.slots[(q.head + (n + i) - 1) % QueueSlots] = f - q.count + (n + i) - 1
      BY <2>1, HoldsAt
    <2> QED BY <1>1, <1>2, <1>4, <2>2
  <1>6. d.count < f
    BY <1>1, <1>2 DEF Holds
  <1> QED BY <1>2, <1>3, <1>5, <1>6, HoldsAt

LEMMA PushHolds ==
  ASSUME NEW q \in Queues, NEW f \in Nat, Holds(q, f), NEW n \in 1..QueueSlots
  PROVE  /\ Holds(Push(q, f, n), f + n)
         /\ Push(q, f, n).count = IF q.count + n > QueueSlots THEN QueueSlots ELSE q.count + n
  <1> DEFINE over == q.count + n - QueueSlots
             kept == IF over > 0 THEN Drop(q, over) ELSE q
             p == Push(q, f, n)
  <1>1. q.count \in 0..QueueSlots /\ over \in Int /\ n \in Nat
    BY SizesAssumption DEF Queues
  <1>2. /\ kept \in Queues /\ Holds(kept, f)
        /\ kept.count = IF over > 0 THEN QueueSlots - n ELSE q.count
    <2>1. CASE over > 0
      <3>1. over \in 0..q.count
        BY <1>1, <2>1, SizesAssumption
      <3> QED BY <1>1, <2>1, <3>1, DropHolds, DropType, SizesAssumption
    <2>2. CASE ~(over > 0)
      BY <2>2
    <2> QED BY <2>1, <2>2
  <1> DEFINE slots == [i \in Indices |->
                         LET place == (i - kept.head - kept.count) % QueueSlots
                         IN  IF place < n THEN f + place ELSE kept.slots[i]]
  <1>3. p = [kept EXCEPT !.slots = slots, !.count = kept.count + n]
    BY DEF Push
  <1>4. kept.count = IF q.count + n > QueueSlots THEN QueueSlots - n ELSE q.count
    BY <1>1, <1>2, SizesAssumption
  <1> HIDE DEF kept
  <1>5. /\ kept.count + n \in 1..QueueSlots /\ kept.head \in 0..(QueueSlots - 1)
        /\ kept.count \in Nat
    BY <1>1, <1>2, <1>4, SizesAssumption DEF Queues, Indices
  <1>6. /\ p \in Queues /\ p.count = kept.count + n /\ p.head = kept.head
        /\ \A i \in Indices :
             p.slots[i] = LET place == (i - kept.head - kept.count) % QueueSlots
                          IN  IF place < n THEN f + place ELSE kept.slots[i]
    <2>1. p \in Queues
      BY PushType
    <2> HIDE DEF slots, p
    <2>2. p.count = kept.count + n /\ p.head = kept.head /\ p.slots = slots
      BY <1>2, <1>3 DEF Queues
    <2> QED BY <2>1, <2>2 DEF slots
  <1> HIDE DEF p, slots
  <1>7. ASSUME NEW i \in 1..p.count
        PROVE  p.slots[(p.head + i - 1) % QueueSlots] = (f + n) - p.count + i - 1
    <2> DEFINE at == (kept.head + i - 1) % QueueSlots
               place == (at - kept.head - kept.count) % QueueSlots
    <2>1. /\ i \in 1..QueueSlots /\ i - 1 \in 0..(QueueSlots - 1)
          /\ kept.head + i - 1 \in 0..(2 * QueueSlots - 1)
      BY <1>5, <1>6, SizesAssumption
    <2>2. at \in {kept.head + i - 1, kept.head + i - 1 - QueueSlots} /\ at \in Indices
      <3> DEFINE x == kept.head + i - 1
      <3>1. x \in Int /\ (x \in 0..(QueueSlots - 1) \/ x \in QueueSlots..(2 * QueueSlots - 1))
        BY <1>5, <2>1, SizesAssumption
      <3> HIDE DEF x
      <3>2. x % QueueSlots \in {x, x - QueueSlots} /\ x % QueueSlots \in Indices
        BY <3>1, ModSmall, ModIndex
      <3>3. x = kept.head + i - 1 /\ at = x % QueueSlots
        BY DEF x
      <3> HIDE DEF at
      <3> QED BY <1>5, <2>1, <3>1, <3>2, <3>3, SizesAssumption
    <2>3. p.slots[at] = IF place < n THEN f + place ELSE kept.slots[at]
      BY <1>6, <2>2
    <2>4. i > kept.count => place = i - 1 - kept.count
      <3> SUFFICES ASSUME i > kept.count PROVE place = i - 1 - kept.count
        OBVIOUS
      <3>1. i - 1 - kept.count \in 0..(QueueSlots - 1)
        BY <1>5, <2>1, SizesAssumption
      <3>2. CASE at = kept.head + i - 1
        <4>1. at - kept.head - kept.count = i - 1 - kept.count
          BY <1>5, <2>1, <3>2
        <4> QED BY <3>1, <4>1, ModSmall
      <3>3. CASE at = kept.head + i - 1 - QueueSlots
        <4>1. at - kept.head - kept.count = i - 1 - kept.count - QueueSlots
          BY <1>5, <2>1, <3>3, SizesAssumption
        <4>2. i - 1 - kept.count - QueueSlots \in (-QueueSlots)..(-1)
          BY <1>5, <2>1, <3>1, SizesAssumption
        <4>3. (i - 1 - kept.count - QueueSlots) % QueueSlots = i - 1 - kept.count
          BY <1>5, <2>1, <4>2, SizesAssumption, ModSmall
        <4> QED BY <4>1, <4>3
      <3> QED BY <2>2, <3>2, <3>3
    <2>5. i <= kept.count => place = i - 1 - kept.count + QueueSlots
      <3> SUFFICES ASSUME i <= kept.count PROVE place = i - 1 - kept.count + QueueSlots
        OBVIOUS
      <3>1. i - 1 - kept.count \in (-QueueSlots)..(-1)
        BY <1>5, <2>1, SizesAssumption
      <3>2. CASE at = kept.head + i - 1
        <4>1. at - kept.head - kept.count = i - 1 - kept.count
          BY <1>5, <2>1, <3>2
        <4> QED BY <3>1, <4>1, ModSmall
      <3>3. CASE at = kept.head + i - 1 - QueueSlots
        <4>1. at - kept.head - kept.count = i - 1 - kept.count - QueueSlots
          BY <1>5, <2>1, <3>3, SizesAssumption
        <4>2. i - 1 - kept.count + QueueSlots \in 0..(QueueSlots - 1)
          BY <3>1, <2>1, <1>5, SizesAssumption
        <4>3. (i - 1 - kept.count - QueueSlots) % QueueSlots = i - 1 - kept.count + QueueSlots
          <5> DEFINE x == i - 1 - kept.count
          <5>1. x \in (-QueueSlots)..(-1)
            BY <3>1
          <5> HIDE DEF x
          <5>2. (x - QueueSlots) % QueueSlots = x + QueueSlots
            BY <5>1, SizesAssumption
          <5> QED BY <5>2 DEF x
        <4> QED BY <4>1, <4>3
      <3> QED BY <2>2, <3>2, <3>3
    <2> HIDE DEF place
    <2>6. CASE i > kept.count
      <3>1. place < n /\ place = i - 1 - kept.count
        BY <1>5, <1>6, <2>1, <2>4, <2>6
      <3> QED BY <1>5, <1>6, <2>1, <2>3, <3>1
    <2>7. CASE i <= kept.count
      <3>1. ~(place < n)
        BY <1>5, <2>1, <2>5, <2>7, SizesAssumption
      <3>2. i \in 1..kept.count
        BY <1>5, <2>1, <2>7
      <3>3. kept.slots[at] = f - kept.count + i - 1
        BY <1>2, <3>2, HoldsAt
      <3> QED BY <1>5, <1>6, <2>1, <2>3, <3>1, <3>3
    <2> QED BY <1>5, <2>1, <2>6, <2>7
  <1>8. p.count < f + n
    BY <1>2, <1>5, <1>6 DEF Holds
  <1>9. Holds(p, f + n)
    BY <1>6, <1>7, <1>8, HoldsAt
  <1>10. p.count = IF q.count + n > QueueSlots THEN QueueSlots ELSE q.count + n
    BY <1>1, <1>4, <1>6, SizesAssumption
  <1> QED BY <1>9, <1>10 DEF p
\* Waiting and owing a clear are not the ring's.
LEMMA SameRing ==
  ASSUME NEW q \in Queues, NEW r \in Queues, NEW f \in Nat,
         r.slots = q.slots, r.head = q.head, r.count = q.count
  PROVE  Pending(r) = Pending(q) /\ (Holds(r, f) <=> Holds(q, f))
  <1>1. Pending(r) = Pending(q)
    BY DEF Pending
  <1> QED BY <1>1 DEF Holds

\* Newest, as the stream keeps it, of two runs that follow each other.
NewestSlots(s) == SubSeq(s, IF Len(s) > QueueSlots THEN Len(s) - QueueSlots + 1 ELSE 1, Len(s))
Added(f, n) == [i \in 1..n |-> f + i - 1]

LEMMA RunPrefix ==
  ASSUME NEW f \in Nat, NEW c \in Nat, NEW k \in 0..c
  PROVE  SubSeq(Run(f, c), k + 1, c) = Run(f, c - k)
  BY DEF Run

LEMMA RunAdded ==
  ASSUME NEW f \in Nat, NEW c \in Nat, NEW n \in Nat
  PROVE  Run(f, c) \o Added(f, n) = Run(f + n, c + n)
  BY DEF Run, Added

LEMMA RunLen ==
  ASSUME NEW f \in Nat, NEW c \in Nat
  PROVE  Len(Run(f, c)) = c /\ \A i \in 1..c : Run(f, c)[i] = f - c + i - 1
  BY DEF Run

LEMMA NewestOfRun ==
  ASSUME NEW f \in Nat, NEW c \in Nat
  PROVE  NewestSlots(Run(f, c)) = Run(f, IF c > QueueSlots THEN QueueSlots ELSE c)
  <1>1. Len(Run(f, c)) = c
    BY RunLen
  <1>2. CASE c > QueueSlots
    <2> DEFINE k == c - QueueSlots
    <2>1. k \in 0..c /\ c - k = QueueSlots /\ k + 1 = c - QueueSlots + 1
      BY <1>2, SizesAssumption
    <2> HIDE DEF k
    <2>2. SubSeq(Run(f, c), k + 1, c) = Run(f, QueueSlots)
      BY <2>1, RunPrefix
    <2> QED BY <1>1, <1>2, <2>1, <2>2 DEF NewestSlots
  <1>3. CASE ~(c > QueueSlots)
    <2>1. 0 \in 0..c /\ 0 + 1 = 1 /\ c - 0 = c
      OBVIOUS
    <2>2. SubSeq(Run(f, c), 1, c) = Run(f, c)
      BY <2>1, RunPrefix
    <2> QED BY <1>1, <1>3, <2>2 DEF NewestSlots
  <1> QED BY <1>2, <1>3

LEMMA RunNewest ==
  ASSUME NEW f \in Nat, NEW c \in Nat, NEW n \in Nat
  PROVE  NewestSlots(Run(f, c) \o Added(f, n)) =
           Run(f + n, IF c + n > QueueSlots THEN QueueSlots ELSE c + n)
  <1>1. f + n \in Nat /\ c + n \in Nat
    OBVIOUS
  <1> QED BY <1>1, RunAdded, NewestOfRun

\* The pump takes whole elements off the front, or nothing.
LEMMA FedRing ==
  ASSUME NEW q \in Queues, NEW f \in Nat, Holds(q, f)
  PROVE  /\ Fed(q) \in Queues /\ Holds(Fed(q), f) /\ Fed(q).clearPending = FALSE
         /\ Due(q) => /\ Fed(q).count = q.count - Batch(q) * ElementSlots
                      /\ Batch(q) * ElementSlots \in 1..q.count
         /\ ~Due(q) => Fed(q).count = q.count
  <1> DEFINE told == [q EXCEPT !.clearPending = FALSE]
             n == Batch(q) * ElementSlots
             left == Drop(told, n)
  <1>1. /\ told \in Queues /\ told.slots = q.slots /\ told.head = q.head /\ told.count = q.count
        /\ told.clearPending = FALSE /\ Batch(told) = Batch(q)
    BY DEF Queues, Batch
  <1>2. Holds(told, f)
    BY <1>1, SameRing
  <1>3. n \in 0..q.count /\ (Batch(q) > 0 => n \in 1..q.count) /\ Batch(q) \in Nat
    BY BatchBound
  <1> HIDE DEF told, n
  <1>4. Fed(q) \in Queues
    BY FedType
  <1>5. CASE Due(q)
    <2>1. left \in Queues /\ Holds(left, f) /\ left.count = q.count - n
      <3>1. n \in 0..told.count /\ n \in Nat
        BY <1>1, <1>3, SizesAssumption DEF Queues
      <3>2. Holds(Drop(told, n), f) /\ Drop(told, n).count = told.count - n
        BY <1>1, <1>2, <3>1, DropHolds
      <3>3. Drop(told, n) \in Queues
        BY <1>1, <3>1, DropType
      <3> QED BY <1>1, <3>2, <3>3
    <2>2. left.clearPending = FALSE
      BY <1>1 DEF Drop, Queues
    <2> HIDE DEF left
    <2>3. Fed(q) = [left EXCEPT !.wait = IF Batch(q) > LeadTicks THEN Batch(q) - LeadTicks ELSE 0]
      <3>1. Batch(q) # 0
        BY <1>3, <1>5 DEF Due
      <3>2. Fed(q) = Sent(told)
        BY <1>5, <3>1 DEF Fed, told
      <3> QED BY <1>1, <3>2 DEF Sent, left, n
    <2>4. /\ Fed(q).slots = left.slots /\ Fed(q).head = left.head /\ Fed(q).count = left.count
          /\ Fed(q).clearPending = left.clearPending
      BY <2>1, <2>3 DEF Queues
    <2>5. Holds(Fed(q), f)
      BY <1>4, <2>1, <2>4, SameRing
    <2>6. n \in 1..q.count
      BY <1>3, <1>5 DEF Due
    <2> QED BY <1>4, <1>5, <2>1, <2>2, <2>4, <2>5, <2>6 DEF n
  <1>6. CASE ~Due(q)
    <2>1. Fed(q) \in {told, [told EXCEPT !.wait = 0]}
      BY <1>6 DEF Fed, told
    <2>2. /\ Fed(q).slots = told.slots /\ Fed(q).head = told.head /\ Fed(q).count = told.count
          /\ Fed(q).clearPending = FALSE
      BY <1>1, <2>1 DEF Queues
    <2>3. Holds(Fed(q), f)
      BY <1>1, <1>2, <1>4, <2>2, SameRing
    <2> QED BY <1>1, <1>4, <1>6, <2>2, <2>3
  <1> QED BY <1>5, <1>6

\* Aging the wait, and a pump that fails, leave the ring alone.
LEMMA WaitRing ==
  ASSUME NEW q \in Queues, NEW f \in Nat, NEW d \in Nat
  PROVE  /\ Aged(q, d) \in Queues /\ Aged(q, d).count = q.count
         /\ Aged(q, d).clearPending = q.clearPending
         /\ Pending(Aged(q, d)) = Pending(q) /\ (Holds(Aged(q, d), f) <=> Holds(q, f))
         /\ Unfed(q) \in Queues /\ Unfed(q).count = q.count
         /\ Pending(Unfed(q)) = Pending(q) /\ (Holds(Unfed(q), f) <=> Holds(q, f))
  <1>1. Aged(q, d) \in Queues /\ Unfed(q) \in Queues
    BY AgedType, UnfedType
  <1>2. /\ Aged(q, d).slots = q.slots /\ Aged(q, d).head = q.head /\ Aged(q, d).count = q.count
        /\ Aged(q, d).clearPending = q.clearPending
    BY DEF Aged, Queues
  <1>3. Unfed(q).slots = q.slots /\ Unfed(q).head = q.head /\ Unfed(q).count = q.count
    BY DEF Unfed, Queues
  <1> QED BY <1>1, <1>2, <1>3, SameRing

LEMMA ClearedRing ==
  ASSUME NEW q \in Queues, NEW f \in Nat \ {0}
  PROVE  /\ Cleared(q) \in Queues /\ Cleared(q).count = 0 /\ Cleared(q).clearPending = FALSE
         /\ Holds(Cleared(q), f) /\ Pending(Cleared(q)) = <<>>
  <1>1. Cleared(q) \in Queues
    BY ClearedType
  <1>2. Cleared(q).count = 0 /\ Cleared(q).clearPending = FALSE
    BY DEF Cleared, Queues
  <1> QED BY <1>1, <1>2, EmptyHolds

\* An upload adds behind what waits, a Replace behind nothing, owing a clear.
LEMMA UploadedRing ==
  ASSUME NEW q \in Queues, NEW f \in Nat \ {0}, Holds(q, f), NEW mode \in Modes,
         NEW n \in 1..QueueSlots
  PROVE  /\ Uploaded(q, mode, f, n) \in Queues /\ Holds(Uploaded(q, mode, f, n), f + n)
         /\ Uploaded(q, mode, f, n).count <= (IF mode = "Replace" THEN 0 ELSE q.count) + n
         /\ Uploaded(q, mode, f, n).clearPending =
              IF mode = "Replace" THEN TRUE ELSE q.clearPending
         /\ Pending(Uploaded(q, mode, f, n)) =
              NewestSlots((IF mode = "Replace" THEN <<>> ELSE Pending(q)) \o Added(f, n))
  <1> DEFINE base == IF mode = "Replace" THEN [Cleared(q) EXCEPT !.clearPending = TRUE] ELSE q
             had == IF mode = "Replace" THEN 0 ELSE q.count
             u == Uploaded(q, mode, f, n)
             c == IF had + n > QueueSlots THEN QueueSlots ELSE had + n
  <1>1. n \in Nat /\ had \in Nat /\ f \in Nat
    BY SizesAssumption DEF Queues
  <1>2. u = Push(base, f, n)
    BY DEF Uploaded
  <1>3. /\ base \in Queues /\ Holds(base, f) /\ base.count = had
        /\ base.clearPending = IF mode = "Replace" THEN TRUE ELSE q.clearPending
        /\ Pending(base) = Run(f, had)
    <2>1. CASE mode = "Replace"
      <3>1. /\ base \in Queues /\ base.slots = Cleared(q).slots /\ base.head = Cleared(q).head
            /\ base.count = Cleared(q).count /\ base.clearPending = TRUE
        BY <2>1, ClearedType DEF Queues
      <3>2. Holds(base, f) /\ base.count = 0
        BY <3>1, ClearedRing, SameRing
      <3> QED BY <2>1, <3>1, <3>2 DEF Holds
    <2>2. CASE mode # "Replace"
      BY <2>2 DEF Holds
    <2> QED BY <2>1, <2>2
  <1> HIDE DEF base
  <1>4. Holds(u, f + n) /\ u.count = c /\ u \in Queues
    BY <1>1, <1>2, <1>3, PushHolds, PushType
  <1>5. u.clearPending = base.clearPending
    <2>1. \A k \in Nat : Drop(base, k).clearPending = base.clearPending /\ Drop(base, k) \in Queues
      BY <1>3, DropType DEF Drop, Queues
    <2>2. base.count + n - QueueSlots > 0 => base.count + n - QueueSlots \in Nat
      BY <1>1, <1>3, SizesAssumption
    <2>3. ASSUME NEW kept \in Queues, kept.clearPending = base.clearPending, NEW slots, NEW count
          PROVE  [kept EXCEPT !.slots = slots, !.count = count].clearPending = base.clearPending
      BY <2>3 DEF Queues
    <2>4. PICK kept, slots :
            /\ kept \in Queues /\ kept.clearPending = base.clearPending
            /\ Push(base, f, n) = [kept EXCEPT !.slots = slots, !.count = kept.count + n]
      <3> DEFINE over == base.count + n - QueueSlots
                 kept == IF over > 0 THEN Drop(base, over) ELSE base
                 slots == [i \in Indices |->
                             LET place == (i - kept.head - kept.count) % QueueSlots
                             IN  IF place < n THEN f + place ELSE kept.slots[i]]
      <3>1. Push(base, f, n) = [kept EXCEPT !.slots = slots, !.count = kept.count + n]
        BY DEF Push
      <3>2. kept \in Queues /\ kept.clearPending = base.clearPending
        BY <1>3, <2>1, <2>2
      <3> HIDE DEF kept, slots
      <3> QED BY <3>1, <3>2
    <2> QED BY <1>2, <2>3, <2>4
  <1>6. Pending(u) = NewestSlots(Run(f, had) \o Added(f, n))
    <2>1. Pending(u) = Run(f + n, u.count)
      BY <1>4 DEF Holds
    <2> HIDE DEF u, had
    <2>2. NewestSlots(Run(f, had) \o Added(f, n)) = Run(f + n, c)
      BY <1>1, RunNewest
    <2> QED BY <1>4, <2>1, <2>2
  <1>7. Run(f, had) = IF mode = "Replace" THEN <<>> ELSE Pending(q)
    <2>1. Run(f, 0) = <<>>
      BY DEF Run
    <2> QED BY <2>1 DEF Holds
  <1>8. u.count <= had + n
    BY <1>1, <1>4, SizesAssumption
  <1> HIDE DEF u
  <1> QED BY <1>3, <1>4, <1>5, <1>6, <1>7, <1>8 DEF u
-----------------------------------------------------------------------------
(* The streams *)

RingsHold == \A ch \in Channels : Holds(wave[ch], fresh[ch])

\* A step of the stream of one channel, in the words of SlotStream.
Steps(ch) ==
  LET pending == Pending(wave[ch])
      after == Pending(wave'[ch])
  IN  \/ \E n \in 1..QueueSlots, kept \in {pending, <<>>} :
           /\ after = NewestSlots(kept \o Added(fresh[ch], n))
           /\ fresh'[ch] = fresh[ch] + n /\ lastSent'[ch] = lastSent[ch]
      \/ \E k \in 1..BatchElements :
           /\ k * ElementSlots <= Len(pending)
           /\ after = SubSeq(pending, k * ElementSlots + 1, Len(pending))
           /\ lastSent'[ch] = pending[k * ElementSlots] /\ fresh'[ch] = fresh[ch]
      \/ after = <<>> /\ lastSent'[ch] = lastSent[ch] /\ fresh'[ch] = fresh[ch]
      \/ after = pending /\ lastSent'[ch] = lastSent[ch] /\ fresh'[ch] = fresh[ch]

Streamed == RingsHold' /\ \A ch \in Channels : Steps(ch)

LEMMA RingsInit == Init => RingsHold /\ \A ch \in Channels : Pending(wave[ch]) = <<>>
  <1> SUFFICES ASSUME Init, NEW ch \in Channels
               PROVE  Holds(wave[ch], fresh[ch]) /\ Pending(wave[ch]) = <<>>
    BY DEF RingsHold
  <1>1. TypeOK
    BY InitType
  <1>2. wave[ch] \in Queues /\ fresh[ch] \in Nat \ {0}
    BY <1>1 DEF TypeOK, SlotNames
  <1>3. wave[ch].count = 0
    BY DEF Init
  <1> QED BY <1>2, <1>3, EmptyHolds

LEMMA ClearsStream ==
  ASSUME TypeOK, RingsHold, UNCHANGED <<fresh, lastSent>>,
         \A ch \in Channels : wave'[ch] \in {wave[ch], Cleared(wave[ch])}
  PROVE  Streamed
  <1> SUFFICES ASSUME NEW ch \in Channels PROVE Holds(wave'[ch], fresh'[ch]) /\ Steps(ch)
    BY DEF Streamed, RingsHold
  <1>1. wave[ch] \in Queues /\ fresh[ch] \in Nat \ {0}
    BY DEF TypeOK, SlotNames
  <1>2. CASE wave'[ch] = wave[ch]
    BY <1>2 DEF RingsHold, Steps
  <1>3. CASE wave'[ch] = Cleared(wave[ch])
    BY <1>1, <1>3, ClearedRing DEF Steps
  <1> QED BY <1>2, <1>3

LEMMA UploadStream ==
  ASSUME TypeOK, RingsHold, NEW mode \in Modes, NEW channels \in SUBSET Channels,
         NEW n \in UploadSizes, UploadWaveform(mode, channels, n)
  PROVE  Streamed
  <1> SUFFICES ASSUME NEW ch \in Channels PROVE Holds(wave'[ch], fresh'[ch]) /\ Steps(ch)
    BY DEF Streamed, RingsHold
  <1>1. /\ wave[ch] \in Queues /\ fresh[ch] \in Nat \ {0} /\ Holds(wave[ch], fresh[ch])
        /\ n \in 1..QueueSlots
    BY SizesAssumption DEF TypeOK, SlotNames, RingsHold
  <1>2. lastSent'[ch] = lastSent[ch]
    BY DEF UploadWaveform
  <1>3. CASE ch \in channels
    <2>1. wave'[ch] = Uploaded(wave[ch], mode, fresh[ch], n) /\ fresh'[ch] = fresh[ch] + n
      BY <1>3 DEF UploadWaveform
    <2>2. /\ Holds(wave'[ch], fresh'[ch])
          /\ Pending(wave'[ch]) =
               NewestSlots((IF mode = "Replace" THEN <<>> ELSE Pending(wave[ch])) \o Added(fresh[ch], n))
      <3>1. /\ Holds(Uploaded(wave[ch], mode, fresh[ch], n), fresh[ch] + n)
            /\ Pending(Uploaded(wave[ch], mode, fresh[ch], n)) =
                 NewestSlots((IF mode = "Replace" THEN <<>> ELSE Pending(wave[ch]))
                             \o Added(fresh[ch], n))
        <4> DEFINE q == wave[ch]
                   f == fresh[ch]
        <4>1. q \in Queues /\ f \in Nat \ {0} /\ Holds(q, f) /\ n \in 1..QueueSlots
          BY <1>1
        <4> HIDE DEF q, f
        <4>2. Holds(Uploaded(q, mode, f, n), f + n)
          BY <4>1, UploadedRing
        <4>3. Pending(Uploaded(q, mode, f, n)) =
                NewestSlots((IF mode = "Replace" THEN <<>> ELSE Pending(q)) \o Added(f, n))
          BY <4>1, UploadedRing
        <4> QED BY <4>2, <4>3 DEF q, f
      <3> QED BY <2>1, <3>1
    <2> QED BY <1>1, <1>2, <2>1, <2>2 DEF Steps
  <1>4. CASE ch \notin channels
    <2>1. wave'[ch] = wave[ch] /\ fresh'[ch] = fresh[ch]
      BY <1>4 DEF UploadWaveform
    <2> QED BY <1>1, <1>2, <2>1 DEF Steps
  <1> QED BY <1>3, <1>4

LEMMA TickStream ==
  ASSUME TypeOK, RingsHold, NEW d \in 1..MaxDelay, Tick(d)
  PROVE  Streamed
  <1> DEFINE aged == [ch \in Channels |-> Aged(wave[ch], d)]
  <1> SUFFICES ASSUME NEW ch \in Channels PROVE Holds(wave'[ch], fresh'[ch]) /\ Steps(ch)
    BY DEF Streamed, RingsHold
  <1>1. /\ wave[ch] \in Queues /\ fresh[ch] \in Nat \ {0} /\ Holds(wave[ch], fresh[ch])
        /\ d \in Nat
    BY SizesAssumption DEF TypeOK, SlotNames, RingsHold
  <1> DEFINE q == Aged(wave[ch], d)
             k == Batch(q)
  <1>2. /\ q \in Queues /\ Holds(q, fresh[ch]) /\ Pending(q) = Pending(wave[ch])
        /\ Pending(Unfed(q)) = Pending(wave[ch]) /\ Holds(Unfed(q), fresh[ch])
    BY <1>1, WaitRing
  <1>3. fresh'[ch] = fresh[ch]
    BY DEF Tick
  <1>4. CASE ~Sendable
    <2>1. wave'[ch] \in {q, Unfed(q)} /\ lastSent'[ch] = lastSent[ch]
      BY <1>4 DEF Tick
    <2> QED BY <1>2, <1>3, <2>1 DEF Steps
  <1>5. CASE Sendable
    <2>1. /\ wave'[ch] = Fed(q) /\ app'[ch] = Heard(ch, q)
          /\ lastSent'[ch] = IF Due(q) THEN app'[ch].last ELSE lastSent[ch]
      BY <1>5 DEF Tick
    <2> HIDE DEF q
    <2>2. /\ Fed(q) \in Queues /\ Holds(Fed(q), fresh[ch])
          /\ Due(q) => /\ Fed(q).count = q.count - k * ElementSlots
                       /\ k * ElementSlots \in 1..q.count
          /\ ~Due(q) => Fed(q).count = q.count
      BY <1>1, <1>2, FedRing
    <2>3. CASE ~Due(q)
      <3>1. Pending(Fed(q)) = Pending(q)
        BY <1>2, <2>2, <2>3 DEF Holds
      <3> QED BY <1>2, <1>3, <2>1, <2>2, <2>3, <3>1 DEF Steps
    <2>4. CASE Due(q)
      <3> DEFINE m == k * ElementSlots
      <3>1. q.count \in Nat /\ m \in 1..q.count /\ m \in 0..q.count /\ fresh[ch] \in Nat
        BY <1>1, <1>2, <2>2, <2>4, SizesAssumption DEF Queues
      <3>2. Pending(q) = Run(fresh[ch], q.count) /\ Len(Pending(q)) = q.count
        BY <1>1, <1>2, <3>1, RunLen DEF Holds
      <3> HIDE DEF m
      <3>3. SubSeq(Run(fresh[ch], q.count), m + 1, q.count) = Run(fresh[ch], q.count - m)
        BY <3>1, RunPrefix
      <3>4. Pending(Fed(q)) = SubSeq(Pending(q), m + 1, Len(Pending(q)))
        BY <2>2, <2>4, <3>2, <3>3 DEF Holds, m
      <3>5. k \in 1..BatchElements
        <4>1. k \in Nat /\ k > 0
          BY <1>2, <2>4, BatchBound DEF Due
        <4>2. k <= BatchElements
          BY <1>2, SizesAssumption DEF Batch, Queues
        <4> QED BY <4>1, <4>2, SizesAssumption
      <3>6. lastSent'[ch] = Pending(q)[m]
        BY <2>1, <2>4 DEF Heard, m
      <3> HIDE DEF k
      <3>7. /\ m <= Len(Pending(wave[ch]))
            /\ Pending(wave'[ch]) = SubSeq(Pending(wave[ch]), m + 1, Len(Pending(wave[ch])))
            /\ lastSent'[ch] = Pending(wave[ch])[m] /\ fresh'[ch] = fresh[ch]
        BY <1>2, <1>3, <2>1, <3>1, <3>2, <3>4, <3>6
      <3> QED BY <1>3, <2>1, <2>2, <3>5, <3>7 DEF Steps, m
    <2> QED BY <2>3, <2>4
  <1> QED BY <1>4, <1>5

\* Every call moves each ring as the stream may move, and leaves a run in it.
LEMMA StreamSteps == TypeOK /\ RingsHold /\ [Next]_vars => Streamed
  <1> SUFFICES ASSUME TypeOK, RingsHold, [Next]_vars PROVE Streamed
    OBVIOUS
  <1>1. UNCHANGED <<wave, fresh, lastSent>> => Streamed
    BY ClearsStream
  <1>2. wave' = AllCleared /\ UNCHANGED <<fresh, lastSent>> => Streamed
    BY ClearsStream DEF AllCleared
  <1>3. CASE SetListening \/ SetFailed \/ SetStopped
    BY <1>1, <1>2, <1>3 DEF SetListening, SetFailed, SetStopped, streamVars
  <1>4. ASSUME NEW c \in Conns, Attach(c) \/ Detach(c) \/ OnBreak(c) \/ ConnBreaks(c)
        PROVE  Streamed
    BY <1>1, <1>2, <1>4 DEF Attach, Detach, OnBreak, ConnBreaks, streamVars
  <1>5. ASSUME NEW d \in 1..MaxDelay, Tick(d) PROVE Streamed
    BY <1>5, TickStream
  <1>6. ASSUME NEW mode \in Modes, NEW channels \in ChannelLists, NEW n \in UploadSizes,
               UploadWaveform(mode, channels, n)
        PROVE  Streamed
    BY <1>6, UploadStream DEF ChannelLists
  <1>7. ASSUME NEW channels \in ChannelLists, SendClear(channels) PROVE Streamed
    <2>1. \A ch \in Channels : wave'[ch] \in {wave[ch], Cleared(wave[ch])}
      BY <1>7 DEF SendClear
    <2> QED BY <1>7, <2>1, ClearsStream DEF SendClear
  <1>8. CASE UNCHANGED vars
    BY <1>1, <1>8 DEF vars, streamVars
  <1> QED BY <1>3, <1>4, <1>5, <1>6, <1>7, <1>8 DEF Next

LEMMA StreamRefines ==
  ASSUME Streamed
  PROVE  /\ [StreamA!Next]_StreamA!streamVars
         /\ [StreamB!Next]_StreamB!streamVars
  <1>1. Steps("A") /\ Steps("B")
    BY DEF Streamed, Channels
  <1>2. [StreamA!Next]_StreamA!streamVars
    BY <1>1 DEF Steps, StreamA!Next, StreamA!streamVars, StreamA!Offer, StreamA!Replace,
                StreamA!Add, StreamA!Newest, StreamA!Deliver, StreamA!Discard, NewestSlots, Added
  <1>3. [StreamB!Next]_StreamB!streamVars
    BY <1>1 DEF Steps, StreamB!Next, StreamB!streamVars, StreamB!Offer, StreamB!Replace,
                StreamB!Add, StreamB!Newest, StreamB!Deliver, StreamB!Discard, NewestSlots, Added
  <1> QED BY <1>2, <1>3

(* Each ring implements a first-in first-out stream, for every ring length, element, batch
   and upload: slots leave in order and at most once, in whole elements, and a full queue
   loses its oldest slots (net_server.c:577-694). *)
THEOREM ServerImplementsStreams == Spec => ImplementsStreams
  <1>1. Init => RingsHold /\ StreamA!Init /\ StreamB!Init
    <2>1. Init => RingsHold /\ Pending(wave["A"]) = <<>> /\ Pending(wave["B"]) = <<>>
      BY RingsInit DEF Channels
    <2> QED BY <2>1 DEF Init, StreamA!Init, StreamB!Init, Channels
  <1>2. TypeOK /\ RingsHold /\ [Next]_vars =>
          RingsHold' /\ [StreamA!Next]_StreamA!streamVars /\ [StreamB!Next]_StreamB!streamVars
    BY StreamSteps, StreamRefines DEF Streamed
  <1> QED BY <1>1, <1>2, TypeCorrect, PTL
          DEF Spec, ImplementsStreams, StreamA!Spec, StreamB!Spec
-----------------------------------------------------------------------------
(* Gestures *)

\* The strengthening, per channel.  What waits and what the App was sent is older than the
\* next slot, and nothing that waits is older than the newest Replace.  An App that can be
\* written to and is not owed a clear plays nothing older than that either: only a pump to a
\* broken connection forgets the clear, and that connection never hears another slot.
PlaysOnly(ch) == app[ch].first = 0 \/ app[ch].first >= gesture[ch]

GestureInv(ch) ==
  /\ gesture[ch] + wave[ch].count <= fresh[ch] /\ gesture[ch] < fresh[ch]
  /\ app[ch].last < fresh[ch]
  /\ bound = {} => app[ch].first = 0
  /\ \/ wiped
     \/ /\ app[ch].last >= gesture[ch] => PlaysOnly(ch)
        /\ Sendable /\ ~wave[ch].clearPending => PlaysOnly(ch)

Gestured == \A ch \in Channels : GestureInv(ch)

LEMMA ChannelTypes ==
  ASSUME TypeOK, NEW ch \in Channels
  PROVE  /\ wave[ch] \in Queues /\ wave[ch].count \in Nat /\ fresh[ch] \in Nat \ {0}
         /\ app[ch] \in [first : Nat, last : Nat] /\ app[ch].first \in Nat /\ app[ch].last \in Nat
         /\ gesture[ch] \in Nat /\ lastSent[ch] \in Nat
  BY SizesAssumption DEF TypeOK, Queues, SlotNames

LEMMA GestureInit == Init => Gestured
  <1> SUFFICES ASSUME Init, NEW ch \in Channels PROVE GestureInv(ch)
    BY DEF Gestured
  <1>1. /\ wave[ch].count = 0 /\ fresh[ch] = 1 /\ gesture[ch] = 0
        /\ app[ch].first = 0 /\ app[ch].last = 0
    BY DEF Init, NoApp
  <1> QED BY <1>1 DEF GestureInv, PlaysOnly

\* The App forgets, because it has gone: nothing is mixed.
LEMMA AppGone ==
  ASSUME TypeOK, Gestured, app' = NoApp, UNCHANGED <<fresh, gesture>>,
         \A ch \in Channels : wave'[ch].count \in {0, wave[ch].count}
  PROVE  Gestured'
  <1> SUFFICES ASSUME NEW ch \in Channels PROVE GestureInv(ch)'
    BY DEF Gestured
  <1>1. app'[ch].first = 0 /\ app'[ch].last = 0
    BY DEF NoApp
  <1>2. wave'[ch].count \in {0, wave[ch].count} /\ fresh'[ch] = fresh[ch] /\ gesture'[ch] = gesture[ch]
    OBVIOUS
  <1>3. gesture'[ch] + wave'[ch].count <= fresh'[ch] /\ gesture'[ch] < fresh'[ch]
    BY <1>2, ChannelTypes DEF Gestured, GestureInv
  <1> QED BY <1>1, <1>2, <1>3, ChannelTypes DEF GestureInv, PlaysOnly

\* Nobody is bound before the call, so that nothing is played.
LEMMA NobodyBound ==
  ASSUME TypeOK, Gestured, bound = {}, UNCHANGED <<app, fresh, gesture>>,
         \A ch \in Channels : wave'[ch].count \in {0, wave[ch].count}
  PROVE  Gestured'
  <1> SUFFICES ASSUME NEW ch \in Channels PROVE GestureInv(ch)'
    BY DEF Gestured
  <1>1. app'[ch].first = 0 /\ app'[ch].last < fresh'[ch]
    BY DEF Gestured, GestureInv
  <1>2. wave'[ch].count \in {0, wave[ch].count} /\ fresh'[ch] = fresh[ch] /\ gesture'[ch] = gesture[ch]
    OBVIOUS
  <1>3. gesture'[ch] + wave'[ch].count <= fresh'[ch] /\ gesture'[ch] < fresh'[ch]
    BY <1>2, ChannelTypes DEF Gestured, GestureInv
  <1> QED BY <1>1, <1>3 DEF GestureInv, PlaysOnly

LEMMA PairingGestured ==
  ASSUME TypeOK, PairingSound, Gestured,
         \/ SetListening \/ SetFailed \/ SetStopped
         \/ \E c \in Conns : Attach(c) \/ Detach(c) \/ OnBreak(c) \/ ConnBreaks(c)
  PROVE  Gestured'
  <1>1. \A ch \in Channels : AllCleared[ch].count = 0
    BY ChannelTypes, ClearedRing DEF AllCleared
  <1>2. ASSUME UNCHANGED <<bound, app, fresh, gesture, wave, wiped>>, broken \subseteq broken'
        PROVE  Gestured'
    <2>1. Sendable' => Sendable
      BY <1>2 DEF Sendable
    <2> QED BY <1>2, <2>1 DEF Gestured, GestureInv, PlaysOnly
  <1>3. CASE SetListening \/ SetFailed
    BY <1>2, <1>3 DEF SetListening, SetFailed, clientVars, streamVars
  <1>4. CASE SetStopped
    BY <1>1, <1>4, AppGone DEF SetStopped
  <1>5. ASSUME NEW c \in Conns, Attach(c) PROVE Gestured'
    <2>1. bound = {} /\ UNCHANGED <<app, fresh, gesture>>
      BY <1>5 DEF Attach, MayAttach, streamVars
    <2>2. wave' \in {wave, AllCleared}
      BY <1>5 DEF Attach, streamVars
    <2> QED BY <1>1, <2>1, <2>2, NobodyBound
  <1>6. ASSUME NEW c \in Conns, Detach(c) PROVE Gestured'
    <2>1. wave' = AllCleared /\ UNCHANGED <<fresh, gesture>>
      BY <1>6 DEF Detach
    <2>2. CASE bound \subseteq {c}
      BY <1>1, <1>6, <2>1, <2>2, AppGone DEF Detach
    <2>3. CASE ~(bound \subseteq {c})
      <3>1. wiped' /\ app' = app /\ bound # {}
        BY <1>6, <2>3 DEF Detach
      <3>2. bound' # {}
        BY <1>6, <2>3 DEF Detach
      <3> SUFFICES ASSUME NEW ch \in Channels PROVE GestureInv(ch)'
        BY DEF Gestured
      <3>3. /\ wave'[ch].count = 0 /\ fresh'[ch] = fresh[ch] /\ gesture'[ch] = gesture[ch]
            /\ app'[ch] = app[ch]
        BY <1>1, <2>1, <3>1
      <3> QED BY <3>1, <3>2, <3>3, ChannelTypes DEF Gestured, GestureInv
    <2> QED BY <2>2, <2>3
  <1>7. ASSUME NEW c \in Conns, OnBreak(c) PROVE Gestured'
    <2>1. UNCHANGED <<wave, fresh, gesture, broken, wiped>> /\ bound' = bound \ {c}
      BY <1>7 DEF OnBreak, streamVars
    <2>2. CASE bound \subseteq {c}
      BY <1>7, <2>1, <2>2, AppGone DEF OnBreak
    <2>3. CASE ~(bound \subseteq {c})
      <3>1. bound' = bound /\ app' = app
        BY <1>7, <2>1, <2>3 DEF OnBreak, PairingSound
      <3> QED BY <1>2, <2>1, <3>1
    <2> QED BY <2>2, <2>3
  <1>8. ASSUME NEW c \in Conns, ConnBreaks(c) PROVE Gestured'
    BY <1>2, <1>8 DEF ConnBreaks, clientVars, streamVars
  <1> QED BY <1>3, <1>4, <1>5, <1>6, <1>7, <1>8

\* A Replace is a gesture of slots nobody has heard yet, and owes the clear.
LEMMA PushOwes ==
  ASSUME NEW q \in Queues, NEW f \in Nat, NEW n \in Nat
  PROVE  Push(q, f, n).clearPending = q.clearPending
  BY DEF Push, Drop, Queues

LEMMA ReplaceOwes ==
  ASSUME NEW q \in Queues, NEW f \in Nat, NEW n \in Nat
  PROVE  Uploaded(q, "Replace", f, n).clearPending = TRUE
  <1> DEFINE b == [Cleared(q) EXCEPT !.clearPending = TRUE]
  <1>1. b \in Queues /\ b.clearPending = TRUE
    BY ClearedType DEF Queues
  <1>2. Uploaded(q, "Replace", f, n) = Push(b, f, n)
    BY DEF Uploaded
  <1> HIDE DEF b
  <1> QED BY <1>1, <1>2, PushOwes

LEMMA AddOwes ==
  ASSUME NEW q \in Queues, NEW f \in Nat, NEW n \in Nat, NEW mode, mode # "Replace"
  PROVE  Uploaded(q, mode, f, n).clearPending = q.clearPending
  BY PushOwes DEF Uploaded

LEMMA UploadGestured ==
  ASSUME TypeOK, RingsHold, Gestured, NEW mode \in Modes, NEW channels \in SUBSET Channels,
         NEW n \in UploadSizes, UploadWaveform(mode, channels, n)
  PROVE  Gestured'
  <1> SUFFICES ASSUME NEW ch \in Channels PROVE GestureInv(ch)'
    BY DEF Gestured
  <1> DEFINE q == wave[ch]
             f == fresh[ch]
  <1>1. /\ q \in Queues /\ q.count \in Nat /\ f \in Nat \ {0} /\ Holds(q, f)
        /\ n \in 1..QueueSlots /\ n \in Nat
        /\ gesture[ch] \in Nat /\ app[ch].first \in Nat /\ app[ch].last \in Nat
    BY ChannelTypes, SizesAssumption DEF RingsHold
  <1>2. UNCHANGED <<bound, broken, app, wiped>>
    BY DEF UploadWaveform, clientVars
  <1>3. GestureInv(ch)
    BY DEF Gestured
  <1>4. Sendable' = Sendable
    BY <1>2 DEF Sendable
  <1>5. CASE ch \notin channels
    <2>1. wave'[ch] = wave[ch] /\ fresh'[ch] = fresh[ch] /\ gesture'[ch] = gesture[ch]
      BY <1>5 DEF UploadWaveform
    <2> QED BY <1>2, <1>3, <1>4, <2>1 DEF GestureInv, PlaysOnly
  <1>6. CASE ch \in channels
    <2>1. /\ wave'[ch] = Uploaded(q, mode, f, n) /\ fresh'[ch] = f + n
          /\ gesture'[ch] = IF mode = "Replace" THEN f ELSE gesture[ch]
      BY <1>6 DEF UploadWaveform
    <2> HIDE DEF q, f
    <2>2. /\ Uploaded(q, mode, f, n) \in Queues
          /\ Uploaded(q, mode, f, n).count <= (IF mode = "Replace" THEN 0 ELSE q.count) + n
          /\ Uploaded(q, mode, f, n).clearPending =
               IF mode = "Replace" THEN TRUE ELSE q.clearPending
      <3>1. Uploaded(q, mode, f, n) \in Queues
        BY <1>1, UploadedRing
      <3>2. Uploaded(q, mode, f, n).count <= (IF mode = "Replace" THEN 0 ELSE q.count) + n
        <4>1. q \in Queues /\ f \in Nat \ {0} /\ Holds(q, f) /\ n \in 1..QueueSlots
          BY <1>1
        <4> DEFINE least == (IF mode = "Replace" THEN 0 ELSE q.count) + n
        <4>2. Uploaded(q, mode, f, n).count <= least
          BY <4>1, UploadedRing
        <4> QED BY <4>2
      <3>3. Uploaded(q, mode, f, n).clearPending =
              IF mode = "Replace" THEN TRUE ELSE q.clearPending
        <4>1. CASE mode = "Replace"
          BY <1>1, <4>1, ReplaceOwes
        <4>2. CASE mode # "Replace"
          BY <1>1, <4>2, AddOwes
        <4> QED BY <4>1, <4>2
      <3> QED BY <3>1, <3>2, <3>3
    <2>3. Uploaded(q, mode, f, n).count \in Nat
      BY <2>2, SizesAssumption DEF Queues
    <2>4. CASE mode = "Replace"
      <3>1. /\ gesture'[ch] = f /\ fresh'[ch] = f + n /\ wave'[ch].clearPending
            /\ wave'[ch].count \in Nat /\ wave'[ch].count <= n
        BY <1>1, <2>1, <2>2, <2>3, <2>4
      <3>2. app'[ch].last < f
        BY <1>2, <1>3 DEF GestureInv, f
      <3> QED BY <1>1, <1>2, <1>3, <3>1, <3>2 DEF GestureInv
    <2>5. CASE mode # "Replace"
      <3>1. /\ gesture'[ch] = gesture[ch] /\ fresh'[ch] = f + n
            /\ wave'[ch].clearPending = q.clearPending
            /\ wave'[ch].count \in Nat /\ wave'[ch].count <= q.count + n
        BY <2>1, <2>2, <2>3, <2>5
      <3> QED BY <1>1, <1>2, <1>3, <1>4, <3>1 DEF GestureInv, PlaysOnly, q, f
    <2> QED BY <2>4, <2>5
  <1> QED BY <1>5, <1>6

LEMMA ClearGestured ==
  ASSUME TypeOK, Gestured, NEW channels \in ChannelLists, SendClear(channels)
  PROVE  Gestured'
  <1> SUFFICES ASSUME NEW ch \in Channels PROVE GestureInv(ch)'
    BY DEF Gestured
  <1>1. UNCHANGED <<bound, broken, fresh, gesture, wiped>> /\ bound # {} /\ Sendable' = Sendable
    BY DEF SendClear, clientVars, Sendable
  <1>2. GestureInv(ch)
    BY DEF Gestured
  <1>3. wave'[ch] \in {wave[ch], Cleared(wave[ch])}
    BY DEF SendClear
  <1>4. Cleared(wave[ch]).count = 0
    BY ChannelTypes, ClearedRing
  <1>5. app'[ch].last = app[ch].last /\ app'[ch].first \in {0, app[ch].first}
    BY ChannelTypes DEF SendClear
  <1>6. wave'[ch] # wave[ch] /\ Sendable => app'[ch].first = 0
    BY ChannelTypes DEF SendClear
  <1>7. wave'[ch].count \in {0, wave[ch].count}
    BY <1>3, <1>4
  <1> QED BY <1>1, <1>2, <1>3, <1>5, <1>6, <1>7, ChannelTypes DEF GestureInv, PlaysOnly

\* What the pump sends an App is no older than the gesture, and it sends the clear first.
LEMMA TickGestured ==
  ASSUME TypeOK, RingsHold, Gestured, NEW d \in 1..MaxDelay, Tick(d)
  PROVE  Gestured'
  <1> SUFFICES ASSUME NEW ch \in Channels PROVE GestureInv(ch)'
    BY DEF Gestured
  <1> DEFINE q == Aged(wave[ch], d)
             m == Batch(q) * ElementSlots
             old == IF q.clearPending THEN [app[ch] EXCEPT !.first = 0] ELSE app[ch]
  <1>1. /\ wave[ch] \in Queues /\ fresh[ch] \in Nat /\ Holds(wave[ch], fresh[ch]) /\ d \in Nat
        /\ gesture[ch] \in Nat /\ app[ch] \in [first : Nat, last : Nat]
    BY ChannelTypes, SizesAssumption DEF RingsHold
  <1>2. UNCHANGED <<bound, broken, fresh, gesture, wiped>> /\ Sendable' = Sendable
    BY DEF Tick, clientVars, Sendable
  <1>3. GestureInv(ch)
    BY DEF Gestured
  <1>4. /\ q \in Queues /\ q.count = wave[ch].count /\ q.clearPending = wave[ch].clearPending
        /\ Holds(q, fresh[ch]) /\ Unfed(q).count = q.count
    BY <1>1, WaitRing
  <1>5. CASE ~Sendable
    <2>1. wave'[ch].count = wave[ch].count /\ app' = app
      BY <1>4, <1>5 DEF Tick
    <2> QED BY <1>2, <1>3, <1>5, <2>1 DEF GestureInv, PlaysOnly
  <1>6. CASE Sendable
    <2>1. wave'[ch] = Fed(q) /\ app'[ch] = Heard(ch, q)
      BY <1>6 DEF Tick
    <2> HIDE DEF q
    <2>2. /\ Fed(q).clearPending = FALSE
          /\ Due(q) => Fed(q).count = q.count - m /\ m \in 1..q.count
          /\ ~Due(q) => Fed(q).count = q.count
      BY <1>1, <1>4, FedRing
    <2>3. q.count \in Nat /\ gesture[ch] + q.count <= fresh[ch]
      BY <1>3, <1>4, SizesAssumption DEF Queues, GestureInv
    <2>4. /\ old.first \in Nat /\ old.last = app[ch].last
          /\ old.first \in {0, app[ch].first}
          /\ wiped \/ old.first = 0 \/ old.first >= gesture[ch]
      BY <1>1, <1>3, <1>4, <1>6 DEF GestureInv, PlaysOnly
    <2>5. CASE ~Due(q)
      <3>1. app'[ch] = old /\ wave'[ch].count = q.count
        BY <2>1, <2>2, <2>5 DEF Heard
      <3> HIDE DEF old
      <3> QED BY <1>2, <1>3, <1>4, <2>4, <3>1 DEF GestureInv, PlaysOnly
    <2>6. CASE Due(q)
      <3>1. m \in 1..q.count /\ 1 \in 1..q.count
        BY <2>2, <2>3, <2>6
      <3>2. \A i \in 1..q.count : Pending(q)[i] = fresh[ch] - q.count + i - 1
        <4>1. Pending(q) = Run(fresh[ch], q.count)
          BY <1>4 DEF Holds
        <4>2. \A i \in 1..q.count : Run(fresh[ch], q.count)[i] = fresh[ch] - q.count + i - 1
          BY <1>1, <2>3, RunLen
        <4> QED BY <4>1, <4>2
      <3>3. /\ app'[ch].first = IF old.first = 0 THEN Pending(q)[1] ELSE old.first
            /\ app'[ch].last = Pending(q)[m]
        BY <2>1, <2>6 DEF Heard
      <3> HIDE DEF m, old
      <3>4. Pending(q)[1] >= gesture[ch] /\ Pending(q)[1] \in Nat /\ Pending(q)[m] < fresh[ch]
        BY <1>1, <2>3, <3>1, <3>2
      <3>5. wave'[ch].count = q.count - m
        BY <2>1, <2>2, <2>6
      <3>6. gesture[ch] + wave'[ch].count <= fresh[ch]
        BY <1>1, <2>3, <3>1, <3>5
      <3>7. wiped \/ app'[ch].first >= gesture[ch]
        BY <1>1, <2>4, <3>3, <3>4
      <3>8. bound # {}
        BY <1>6 DEF Sendable
      <3> QED BY <1>2, <1>3, <3>3, <3>4, <3>6, <3>7, <3>8 DEF GestureInv, PlaysOnly
    <2> QED BY <2>5, <2>6
  <1> QED BY <1>5, <1>6

LEMMA GestureStep ==
  TypeOK /\ PairingSound /\ RingsHold /\ Gestured /\ [Next]_vars => Gestured'
  <1> SUFFICES ASSUME TypeOK, PairingSound, RingsHold, Gestured, [Next]_vars PROVE Gestured'
    OBVIOUS
  <1>1. CASE UNCHANGED vars
    BY <1>1 DEF vars, clientVars, streamVars, Gestured, GestureInv, PlaysOnly, Sendable
  <1> QED BY <1>1, PairingGestured, UploadGestured, ClearGestured, TickGestured
          DEF Next, ChannelLists

(* A Replace gesture never reaches an App that still plays slots uploaded before it, for any
   number of connections and any sizes: but for a departure that took the queues and the
   owed clear of its successor along (net_server.c:417-419, 708-720, 774-782). *)
THEOREM GesturesUnmixed == Spec => []GesturesMixOnlyWhenWiped
  <1>1. Init => RingsHold /\ Gestured
    BY RingsInit, GestureInit
  <1>2. TypeOK /\ PairingSound /\ RingsHold /\ Gestured /\ [Next]_vars => RingsHold' /\ Gestured'
    BY StreamSteps, GestureStep DEF Streamed
  <1>3. TypeOK /\ Gestured => GesturesMixOnlyWhenWiped
    BY ChannelTypes DEF Gestured, GestureInv, PlaysOnly, GesturesMixOnlyWhenWiped, NoMixedGestures
  <1> QED BY <1>1, <1>2, <1>3, TypeCorrect, PairingIsSound, PTL DEF Spec
=============================================================================
