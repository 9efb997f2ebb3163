----------------------------- MODULE NetServer -----------------------------
(***************************************************************************)
(* The socket server core, sysmodule/source/net/net_server.c: which        *)
(* connection is the bound App, and the two waveform queues the tick       *)
(* thread feeds to it.  Every operation runs under the transport lock, so  *)
(* one call is one step.  Time is counted in ticks of 100 ms, which is     *)
(* also the playing time of one waveform element (four slots of 25 ms).    *)
(*                                                                         *)
(* Left out: counters, the log, uuids (a connection stands for the id it   *)
(* was given), what the App reports, and the commands that change nothing  *)
(* here (strength, test pulse).                                            *)
(***************************************************************************)
EXTENDS Integers, FiniteSets, SequencesExt

CONSTANTS
  Conns,           \* connections the transport hands over
  None,            \* no connection
  MaxClients,      \* DGLAB_NET_MAX_CLIENTS
  ElementSlots,    \* DGLAB_COYOTE_V3_WAVEFORM_SLOTS
  QueueSlots,      \* DGLAB_NET_WAVEFORM_QUEUE_SLOTS
  BatchElements,   \* DGLAB_NET_WAVEFORM_BATCH_SLOTS in elements
  LeadTicks,       \* DGLAB_NET_WAVEFORM_LEAD_MS in ticks
  UploadSizes,     \* slot counts of a request, 1..DGLAB_NET_WAVEFORM_MAX_SLOTS in the code
  MaxDelay,        \* bound: ticks between two polls
  SlotBudget       \* bound: slots uploaded to each channel

ASSUME ConnsAssumption == None \notin Conns /\ IsFiniteSet(Conns)
ASSUME SizesAssumption ==
  /\ MaxClients \in Nat \ {0} /\ ElementSlots \in Nat \ {0} /\ QueueSlots \in Nat \ {0}
  /\ BatchElements \in Nat \ {0} /\ LeadTicks \in Nat
  /\ UploadSizes \subseteq 1..QueueSlots
  /\ MaxDelay \in Nat \ {0} /\ SlotBudget \in [{"A", "B"} -> Nat]

Channels == {"A", "B"}
States == {"Idle", "Listening", "Paired", "Stopped", "Failed"}

VARIABLES
  state,        \* status.state
  paired,       \* status.paired
  peer,         \* status.peer_id
  clientCount,  \* status.clients
  active,       \* connections that own a client slot
  bound,        \* ... and whose slot says it is the paired App
  wave,         \* per channel: the ring of slots, when to send, whether a clear is owed
  fresh,        \* per channel: the name the next uploaded slot gets
  broken,       \* connections whose writes fail (external: the socket)
  app,          \* per channel: first and last slot the bound App got since its last clear
  lastSent,     \* per channel: the newest slot ever sent
  gesture,      \* per channel: the first slot of the newest Replace, 0 before any
  wiped         \* a connection that is not the App left and took the App's queues along

statusVars == <<state, paired, peer, clientCount>>
clientVars == <<active, bound>>
streamVars == <<wave, fresh, lastSent, gesture>>
vars == <<statusVars, clientVars, streamVars, broken, app, wiped>>

Indices == 0..(QueueSlots - 1)
SlotNames == Nat
Queues == [slots : [Indices -> SlotNames], head : Indices, count : 0..QueueSlots,
           wait : Nat, clearPending : BOOLEAN]

NoApp == [ch \in Channels |-> [first |-> 0, last |-> 0]]

\* The slots of a queue that wait to be sent, oldest first.
Pending(q) == [i \in 1..q.count |-> q.slots[(q.head + i - 1) % QueueSlots]]

-----------------------------------------------------------------------------
(* The ring, net_server.c:577-617. *)

Cleared(q) == [q EXCEPT !.head = 0, !.count = 0, !.wait = 0, !.clearPending = FALSE]

\* Mutant: the head runs off the end of the ring.
DropUnwrapped(q, n) ==
  LET gone == IF n > q.count THEN q.count ELSE n
  IN  [q EXCEPT !.head = q.head + gone, !.count = q.count - gone]

\* Mutant: the head moves one slot too far when the ring wraps.
DropSlipping(q, n) ==
  LET gone == IF n > q.count THEN q.count ELSE n
  IN  [q EXCEPT !.head = IF q.head + gone >= QueueSlots
                         THEN (q.head + gone + 1) % QueueSlots ELSE q.head + gone,
                !.count = q.count - gone]

Drop(q, n) ==
  LET gone == IF n > q.count THEN q.count ELSE n
  IN  [q EXCEPT !.head = (q.head + gone) % QueueSlots, !.count = q.count - gone]

\* Slots first, first+1, ... are written behind the queue; the oldest make room.
Push(q, first, n) ==
  LET over == q.count + n - QueueSlots
      kept == IF over > 0 THEN Drop(q, over) ELSE q
  IN  [kept EXCEPT
         !.slots = [i \in Indices |->
                      LET place == (i - kept.head - kept.count) % QueueSlots
                      IN  IF place < n THEN first + place ELSE kept.slots[i]],
         !.count = kept.count + n]

-----------------------------------------------------------------------------
Init ==
  /\ state = "Idle" /\ paired = FALSE /\ peer = None /\ clientCount = 0
  /\ active = {} /\ bound = {} /\ broken = {}
  /\ wave = [ch \in Channels |-> [slots |-> [i \in Indices |-> 0], head |-> 0, count |-> 0,
                                  wait |-> 0, clearPending |-> FALSE]]
  /\ fresh = [ch \in Channels |-> 1]
  /\ app = NoApp
  /\ lastSent = [ch \in Channels |-> 0]
  /\ gesture = [ch \in Channels |-> 0]
  /\ wiped = FALSE

AllCleared == [ch \in Channels |-> Cleared(wave[ch])]

\* The transport opened its socket (dglabNetSocketStart, no client thread exists).
SetListening ==
  /\ state \in {"Idle", "Stopped", "Failed"} /\ active = {}
  /\ state' = "Listening" /\ paired' = FALSE
  /\ UNCHANGED <<peer, clientCount, clientVars, streamVars, broken, app, wiped>>

SetFailed ==
  /\ state \in {"Idle", "Stopped", "Listening"} /\ active = {}
  /\ state' = "Failed"
  /\ UNCHANGED <<paired, peer, clientCount, clientVars, streamVars, broken, app, wiped>>

SetStopped ==
  /\ state \in {"Listening", "Paired", "Failed"}
  /\ state' = "Stopped" /\ paired' = FALSE /\ peer' = None /\ clientCount' = 0
  /\ active' = {} /\ bound' = {} /\ broken' = {}
  /\ wave' = AllCleared
  /\ app' = NoApp /\ wiped' = FALSE
  /\ UNCHANGED <<fresh, lastSent, gesture>>

\* No App is bound any more: what Detach and a "break" message do to the status.
Unpair ==
  /\ paired' = FALSE /\ peer' = None
  /\ state' = IF state = "Paired" THEN "Listening" ELSE state

\* Mutant: a free slot is all a newcomer needs.
NoGate(c) == c \notin active /\ state \in {"Listening", "Paired"}
             /\ Cardinality(active) < MaxClients

MayAttach(c) ==
  /\ c \notin active
  /\ state \in {"Listening", "Paired"}
  /\ Cardinality(active) < MaxClients
  /\ bound = {}

\* The handshake is done and the bind reply went out (a rejected connection
\* changes nothing but counters).
Attach(c) ==
  /\ MayAttach(c)
  /\ IF c \notin broken
     THEN /\ active' = active \cup {c} /\ bound' = bound \cup {c}
          /\ state' = "Paired" /\ paired' = TRUE /\ peer' = c
          /\ clientCount' = clientCount + 1
          /\ wiped' = FALSE
          /\ UNCHANGED <<streamVars, broken, app>>
     ELSE \* the bind reply failed: bound and detached again in the same call
          /\ Unpair /\ wave' = AllCleared
          /\ UNCHANGED <<clientCount, clientVars, fresh, lastSent, gesture, broken, app, wiped>>

\* Mutant: leaving is only noticed for the status when the leaver was alone.
DetachForgetful(c) ==
  /\ c \in active
  /\ active' = active \ {c} /\ bound' = bound \ {c} /\ broken' = broken \ {c}
  /\ wave' = AllCleared
  /\ clientCount' = clientCount - 1
  /\ IF active = {c} THEN Unpair ELSE UNCHANGED <<paired, peer, state>>
  /\ app' = IF bound \subseteq {c} THEN NoApp ELSE app
  /\ wiped' = (bound \ {c} # {})
  /\ UNCHANGED <<fresh, lastSent, gesture>>

Detach(c) ==
  /\ c \in active
  /\ active' = active \ {c} /\ bound' = bound \ {c} /\ broken' = broken \ {c}
  /\ wave' = AllCleared
  /\ clientCount' = IF clientCount > 0 THEN clientCount - 1 ELSE 0
  /\ IF c \in bound THEN Unpair ELSE UNCHANGED <<paired, peer, state>>
  /\ app' = IF bound \subseteq {c} THEN NoApp ELSE app
  /\ wiped' = (bound \ {c} # {})
  /\ UNCHANGED <<fresh, lastSent, gesture>>

\* The one message of the App that changes the pairing.
OnBreak(c) ==
  /\ c \in active
  /\ bound' = bound \ {c}
  /\ Unpair
  /\ app' = IF bound \subseteq {c} THEN NoApp ELSE app
  /\ UNCHANGED <<clientCount, active, streamVars, broken, wiped>>

\* External: the socket of a connection stops taking bytes.
ConnBreaks(c) ==
  /\ c \notin broken
  /\ broken' = broken \cup {c}
  /\ UNCHANGED <<statusVars, clientVars, streamVars, app, wiped>>

-----------------------------------------------------------------------------
(* Feeding the App, net_server.c:538-732. *)

Sendable == bound # {} /\ bound \cap broken = {}

Batch(q) ==
  LET elements == q.count \div ElementSlots
  IN  IF elements > BatchElements THEN BatchElements ELSE elements

Aged(q, d) == [q EXCEPT !.wait = IF q.wait > d THEN q.wait - d ELSE 0]

Due(q) == Batch(q) > 0 /\ q.wait = 0

\* One pulse command went out; the next one is due when the App is down to the lead.
Sent(q) == [Drop(q, Batch(q) * ElementSlots) EXCEPT
              !.wait = IF Batch(q) > LeadTicks THEN Batch(q) - LeadTicks ELSE 0]

\* The pump on one channel when every write succeeds.
Fed(q) ==
  LET told == [q EXCEPT !.clearPending = FALSE]
  IN  IF Batch(q) = 0 THEN [told EXCEPT !.wait = 0]
      ELSE IF Due(q) THEN Sent(told) ELSE told

\* The pump on one channel when every write fails: the slots stay queued.
Unfed(q) == [q EXCEPT !.clearPending = FALSE,
                      !.wait = IF Batch(q) = 0 /\ ~q.clearPending THEN 0 ELSE q.wait]

\* What the App holds after the pump fed it (external: the App adds a pulse to
\* what it plays and drops everything on a clear).
Heard(ch, q) ==
  LET old == IF q.clearPending THEN [app[ch] EXCEPT !.first = 0] ELSE app[ch]
  IN  IF Due(q)
      THEN [first |-> IF old.first = 0 THEN Pending(q)[1] ELSE old.first,
            last |-> Pending(q)[Batch(q) * ElementSlots]]
      ELSE old

\* Mutant: the poll feeds channel A only.
TickOneChannel(d) ==
  LET aged == [ch \in Channels |-> Aged(wave[ch], d)]
  IN  /\ wave' = IF Sendable THEN [aged EXCEPT !["A"] = Fed(aged["A"])] ELSE aged
      /\ app' = IF Sendable THEN [app EXCEPT !["A"] = Heard("A", aged["A"])] ELSE app
      /\ lastSent' = IF Sendable /\ Due(aged["A"])
                     THEN [lastSent EXCEPT !["A"] = app'["A"].last] ELSE lastSent
      /\ UNCHANGED <<statusVars, clientVars, fresh, gesture, broken, wiped>>

\* The tick thread's poll, d ticks after the last one.
Tick(d) ==
  LET aged == [ch \in Channels |-> Aged(wave[ch], d)]
  IN  /\ IF Sendable
         THEN /\ wave' = [ch \in Channels |-> Fed(aged[ch])]
              /\ app' = [ch \in Channels |-> Heard(ch, aged[ch])]
              /\ lastSent' = [ch \in Channels |->
                                IF Due(aged[ch]) THEN app'[ch].last ELSE lastSent[ch]]
         ELSE /\ wave' = IF bound = {} THEN aged
                         ELSE IF aged["A"].clearPending  \* the pump gives up on B too
                              THEN [aged EXCEPT !["A"] = Unfed(aged["A"])]
                              ELSE [ch \in Channels |-> Unfed(aged[ch])]
              /\ UNCHANGED <<app, lastSent>>
      /\ UNCHANGED <<statusVars, clientVars, fresh, gesture, broken, wiped>>

-----------------------------------------------------------------------------
(* Requests of the front end, net_server.c:734-809 and 870-968. *)

\* Mutant: a Replace empties the queue but never tells the App.
UploadedUntold(q, mode, first, n) ==
  Push(IF mode = "Replace" THEN Cleared(q) ELSE q, first, n)

Uploaded(q, mode, first, n) ==
  Push(IF mode = "Replace" THEN [Cleared(q) EXCEPT !.clearPending = TRUE] ELSE q, first, n)

UploadWaveform(mode, channels, n) ==
  /\ bound # {}
  /\ \A ch \in channels : fresh[ch] + n <= SlotBudget[ch] + 1
  /\ wave' = [ch \in Channels |-> IF ch \in channels
                                  THEN Uploaded(wave[ch], mode, fresh[ch], n) ELSE wave[ch]]
  /\ fresh' = [ch \in Channels |-> IF ch \in channels THEN fresh[ch] + n ELSE fresh[ch]]
  /\ gesture' = [ch \in Channels |-> IF ch \in channels /\ mode = "Replace"
                                     THEN fresh[ch] ELSE gesture[ch]]
  /\ UNCHANGED <<statusVars, clientVars, broken, app, lastSent, wiped>>

\* The Clear command.  Each queue is emptied before its command is sent, and a
\* failed send ends the request before the other channel.
SendClear(channels) ==
  /\ bound # {}
  /\ LET first == CHOOSE ch \in channels : "A" \in channels => ch = "A"
         reached == IF Sendable THEN channels ELSE {first}
     IN  /\ wave' = [ch \in Channels |-> IF ch \in reached THEN Cleared(wave[ch]) ELSE wave[ch]]
         /\ app' = [ch \in Channels |-> IF ch \in reached /\ Sendable
                                        THEN [app[ch] EXCEPT !.first = 0] ELSE app[ch]]
  /\ UNCHANGED <<statusVars, clientVars, fresh, broken, lastSent, gesture, wiped>>

ChannelLists == {Channels} \cup {{ch} : ch \in Channels}
Modes == {"Append", "Replace"}

Next ==
  \/ SetListening \/ SetFailed \/ SetStopped
  \/ \E c \in Conns : Attach(c)
  \/ \E c \in Conns : Detach(c)
  \/ \E c \in Conns : OnBreak(c)
  \/ \E c \in Conns : ConnBreaks(c)
  \/ \E d \in 1..MaxDelay : Tick(d)
  \/ \E mode \in Modes, channels \in ChannelLists, n \in UploadSizes :
       UploadWaveform(mode, channels, n)
  \/ \E channels \in ChannelLists : SendClear(channels)

Spec == Init /\ [][Next]_vars

\* The tick thread polls for ever; nothing else has to happen.
FairSpec == Spec /\ WF_vars(\E d \in 1..MaxDelay : Tick(d))

-----------------------------------------------------------------------------
(* Properties *)

TypeOK ==
  /\ state \in States /\ paired \in BOOLEAN /\ peer \in Conns \cup {None}
  /\ clientCount \in Nat
  /\ active \in SUBSET Conns /\ bound \in SUBSET Conns /\ broken \in SUBSET Conns
  /\ wave \in [Channels -> Queues]
  /\ fresh \in [Channels -> SlotNames \ {0}]
  /\ app \in [Channels -> [first : SlotNames, last : SlotNames]]
  /\ lastSent \in [Channels -> SlotNames]
  /\ gesture \in [Channels -> SlotNames]
  /\ wiped \in BOOLEAN

\* At most one connection is the App, however connects, breaks, lost sockets and
\* stops interleave; the client count is exact; and the three status fields never
\* announce a pairing that no client slot holds (net_server.c:303-431, 509-518).
PairingSound ==
  /\ bound \subseteq active
  /\ \A c, e \in bound : c = e
  /\ Cardinality(active) <= MaxClients
  /\ clientCount = Cardinality(active)
  /\ state = "Paired" <=> paired
  /\ peer # None <=> paired
  /\ paired => peer \in bound

\* What common/include/dglab/ipc.h:114 says of the status: paired is 1 while the
\* App is bound.  (A "break" from a connection that lost its binding earlier
\* resets the flag of its successor, net_server.c:509-515.)
PairedWhileBound == bound # {} => paired

\* What net_server.c:708-709 says: a replacement drops what the App is playing
\* before the new slots go out.
NoMixedGestures ==
  \A ch \in Channels :
    app[ch].first # 0 /\ app[ch].last >= gesture[ch] => app[ch].first >= gesture[ch]

\* A Replace gesture never reaches an App that still plays slots uploaded before
\* it, whatever uploads, clears, reconnects and stops come in between: the owed
\* clear survives and goes out first.  The one exception is a departing
\* connection that lost its binding earlier, which takes the queues and the owed
\* clear of its successor along (net_server.c:417-419, 708-720, 774-782).
GesturesMixOnlyWhenWiped == wiped \/ NoMixedGestures

\* The pairing promise (module Pairing), read off the client slots.
PairingPhase ==
  IF state \notin {"Listening", "Paired"} THEN "down"
  ELSE IF bound = {} THEN "open" ELSE "taken"

ServerPairing == INSTANCE Pairing WITH
  phase <- PairingPhase,
  holder <- IF bound = {} THEN None ELSE CHOOSE c \in bound : TRUE

\* The server implements the pairing promise: nobody takes a binding that was
\* not given up, and closing the server revokes it (net_server.c:294-431, 509-518).
ImplementsPairing == ServerPairing!Spec

StreamA == INSTANCE SlotStream WITH Capacity <- QueueSlots, pending <- Pending(wave["A"]),
                                    lastSent <- lastSent["A"], fresh <- fresh["A"]
StreamB == INSTANCE SlotStream WITH Capacity <- QueueSlots, pending <- Pending(wave["B"]),
                                    lastSent <- lastSent["B"], fresh <- fresh["B"]

\* Each ring implements a first-in first-out stream: slots leave in order and
\* at most once, in whole elements, and a full queue loses its oldest slots
\* (net_server.c:577-694).
ImplementsStreams == StreamA!Spec /\ StreamB!Spec

Waiting(ch, s) == Sendable /\ Batch(wave[ch]) > 0 /\ Pending(wave[ch])[1] = s

\* A whole element at the head of a queue does not stay there while an App
\* that can be written to is bound (net_server.c:697-732).
Flushed == \A ch \in Channels : \A s \in 1..SlotBudget[ch] : Waiting(ch, s) ~> ~Waiting(ch, s)
=============================================================================
