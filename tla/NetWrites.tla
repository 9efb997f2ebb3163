------------------------------ MODULE NetWrites ------------------------------
(***************************************************************************)
(* Who writes to a WebSocket connection, and under which lock              *)
(* (net_socket.c:590-724, ws.c:334-360).  The core writes under the        *)
(* transport lock, which only queues the frame in the slot; whoever let go *)
(* of that lock flushes the queues.  A connection thread answers pings     *)
(* itself, straight to the socket.  The frame lock of a slot keeps the     *)
(* frames whole; a header or a payload that finds the queue full is        *)
(* dropped.  A thread is the list of steps it still has to take; one step  *)
(* is what it does between two points where another may come in between.   *)
(* A send may never return.  Descriptors are numbers the kernel hands out  *)
(* again, also while a thread still means to write to the last owner.      *)
(***************************************************************************)
EXTENDS Integers, FiniteSets, SequencesExt

CONSTANTS
  SlotList,     \* the client slots in the order of the code, each with its thread
  FdList,       \* descriptors of connections, lowest number first
  None,         \* no descriptor, no slot, no thread
  TxRoom,       \* units of any size a queue takes; more of them may not fit its 4096 bytes
  MaxConns,     \* bound: connections accepted
  MaxFrames     \* bound: frames made for each connection

Slots == ToSet(SlotList)
Fds == ToSet(FdList)
Threads == {"ipc", "tick"} \cup Slots
Conns == 1..MaxConns

ASSUME WritesAssumption ==
  /\ SlotList \in Seq(Slots) /\ SlotList # <<>> /\ IsInjective(SlotList)
  /\ Slots \cap {"ipc", "tick"} = {} /\ None \notin Fds \cup Threads
  /\ MaxConns \in Nat /\ MaxFrames \in [Conns -> Nat] /\ TxRoom \in Nat /\ TxRoom >= 2

VARIABLES
  lock,       \* who holds the transport lock
  frame,      \* per slot: who holds the frame lock (write_mutex)
  slot,       \* per slot: fd, conn: the connection it is used for
  tx,         \* per slot: the queued bytes, two units a frame
  bound,      \* the slot of the App the core writes to
  proc,       \* per thread: the steps still to take
  stage,      \* g_stage_fd while the last mark is SendBegin, else None
  owner,      \* descriptor -> connection it belongs to, 0 when it is closed (external)
  down,       \* connections that are shut down (external)
  wire,       \* per connection: the units its App got (external)
  parked,     \* threads whose send does not come back (external)
  made,       \* per connection: the frames made for it, in order, by "core" or by "self"
  lost,       \* per connection: the units that found the queue full
  inherited   \* connections accepted while a write for the last owner of their slot or number
              \* was on its way

history == <<made, lost, inherited>>
vars == <<lock, frame, slot, tx, bound, proc, stage, owner, down, wire, parked, history>>
kernel == <<owner, down, wire, parked>>

Do(op, s) == [op |-> op, slot |-> s, fd |-> None, units |-> <<>>]
Flushes == [i \in DOMAIN SlotList |-> Do("flush", SlotList[i])]

Init ==
  /\ lock = None /\ frame = [s \in Slots |-> None] /\ bound = None
  /\ slot = [s \in Slots |-> [fd |-> None, conn |-> 0]]
  /\ tx = [s \in Slots |-> <<>>] /\ proc = [t \in Threads |-> <<>>] /\ stage = None
  /\ owner = [fd \in Fds |-> 0] /\ down = {}
  /\ wire = [c \in Conns |-> <<>>] /\ parked = {} /\ made = [c \in Conns |-> <<>>]
  /\ lost = [c \in Conns |-> {}] /\ inherited = {}

Doing(t, op) == proc[t] # <<>> /\ Head(proc[t]).op = op
At(t) == Head(proc[t]).slot
Done(t) == proc' = [proc EXCEPT ![t] = Tail(@)]
Then(t, steps) == proc' = [proc EXCEPT ![t] = steps \o Tail(@)]
Begin(t, steps) == proc[t] = <<>> /\ proc' = [proc EXCEPT ![t] = steps]

\* What a thread does under the transport lock is one step unless it has to write.
Holding(t, s) == <<Do("write", s), Do("unlock", s)>>

Unlock(t) ==
  /\ Doing(t, "unlock") /\ lock' = None /\ Done(t)
  /\ UNCHANGED <<frame, slot, tx, bound, stage, kernel, history>>

-----------------------------------------------------------------------------
(* Frames. *)

\* The two units of the n-th frame for a connection: header and payload.
Units(c, n) == <<[conn |-> c, n |-> n, part |-> "head"], [conn |-> c, n |-> n, part |-> "body"]>>
MayMake(c) == Len(made[c]) < MaxFrames[c]
Make(c, by) == made' = [made EXCEPT ![c] = Append(@, by)]
NextUnits(c) == Units(c, Len(made[c]) + 1)

\* Mutant: the frame takes the place of what is queued.
Instead(s, units) == units

\* netSocketWrite under the transport lock: what fits is copied behind the others.
Queued(s, units) == tx[s] \o units

\* The header and the payload are written one by one; what comes after TxRoom units may not
\* fit and is dropped as if it had been taken, the payload with its header or alone.
Taken(s, units) ==
  {SubSeq(units, 1, k) : k \in {i \in 0..Len(units) : i < Len(units) => Len(tx[s]) + i >= TxRoom}}

\* Mutant: the frame is written without the frame lock.
Unguarded(s) == TRUE

\* netWriteLock, netFlushPending.
FrameFree(s) == frame[s] = None

\* wsConnSend of a thread that holds the transport lock, which may have more to say (the bind
\* reply and a heartbeat, the batches of a poll).
Write(t) ==
  /\ Doing(t, "write") /\ FrameFree(At(t))
  /\ LET s == At(t)  c == slot[s].conn IN
       IF MayMake(c)
       THEN /\ Done(t) \/ UNCHANGED proc
            /\ \E units \in Taken(s, NextUnits(c)) :
                 /\ tx' = [tx EXCEPT ![s] = Queued(s, units)] /\ Make(c, "core")
                 /\ lost' = [lost EXCEPT ![c] = @ \cup (ToSet(NextUnits(c)) \ ToSet(units))]
       ELSE Done(t) /\ UNCHANGED <<tx, made, lost>>
  /\ UNCHANGED <<lock, frame, slot, bound, stage, kernel, inherited>>

Send(s, units) == [op |-> "sending", slot |-> s, fd |-> slot[s].fd, units |-> units]

\* wsConnSend of a connection thread: header, then payload, both under the frame lock.
Reply(t) ==
  /\ Doing(t, "reply") /\ FrameFree(At(t))
  /\ LET s == At(t)  c == slot[s].conn IN
       IF MayMake(c)
       THEN /\ Then(t, <<Send(s, SubSeq(NextUnits(c), 1, 1)), Send(s, SubSeq(NextUnits(c), 2, 2)),
                         Do("release", s)>>)
            /\ frame' = [frame EXCEPT ![s] = t] /\ stage' = slot[s].fd /\ Make(c, "self")
       ELSE Done(t) /\ UNCHANGED <<frame, stage, made>>
  /\ UNCHANGED <<lock, slot, tx, bound, kernel, lost, inherited>>

\* netFlushPending: an empty queue is left alone, anything else is sent in one go, to the
\* descriptor the slot has now.
Flush(t) ==
  /\ Doing(t, "flush")
  /\ LET s == At(t) IN
       \/ tx[s] = <<>> /\ Done(t) /\ UNCHANGED <<frame, stage>>
       \/ /\ tx[s] # <<>> /\ FrameFree(s)
          /\ frame' = [frame EXCEPT ![s] = t] /\ stage' = slot[s].fd
          /\ Then(t, <<Send(s, tx[s]), Do("empty", s)>>)
  /\ UNCHANGED <<lock, slot, tx, bound, kernel, history>>

Peer(fd) == IF fd = None THEN 0 ELSE owner[fd]

\* A send does not return: nothing says that it ever will.
Parks(t) ==
  /\ Doing(t, "sending") /\ t \notin parked /\ parked' = parked \cup {t}
  /\ UNCHANGED <<lock, frame, slot, tx, bound, proc, stage, owner, down, wire, history>>

\* A send returns and everything was taken; the next one of the frame begins.
SendsAll(t) ==
  /\ Doing(t, "sending") /\ parked' = parked \ {t}
  /\ LET c == Peer(Head(proc[t]).fd) IN
       /\ c # 0 /\ c \notin down
       /\ wire' = [wire EXCEPT ![c] = @ \o Head(proc[t]).units]
  /\ Done(t) /\ stage' = Head(Tail(proc[t])).fd
  /\ UNCHANGED <<lock, frame, slot, tx, bound, owner, down, history>>

\* What a failed write does to the connection.
ShutDown(c) == down \cup ({c} \ {0})

\* What is left of a connection.
Leave(s) == <<Do("detach", s), Do("close", s), Do("clear", s)>>

\* Mutant: the failure is logged on the spot, which takes the transport lock.
LogsFirst(t) == <<Do("call", None)>> \o Tail(proc[t])

\* Mutant: a failed write returns without the frame lock being released.
LeavesLocked(t) == IF t \in Slots THEN Leave(t) ELSE Tail(Tail(proc[t]))

\* A flush drops the queue, a connection thread gives the frame and the connection up.
GivesUp(t) == IF t \in Slots THEN <<Do("release", t)>> \o Leave(t) ELSE Tail(proc[t])

\* ... or a part of it, or nothing: timed out, shut down or closed.
SendFails(t) ==
  /\ Doing(t, "sending") /\ parked' = parked \ {t}
  /\ LET c == Peer(Head(proc[t]).fd)  units == Head(proc[t]).units IN
       /\ \E k \in 0..(Len(units) - 1) :
            /\ k > 0 => c # 0 /\ c \notin down
            /\ wire' = IF k = 0 THEN wire ELSE [wire EXCEPT ![c] = @ \o SubSeq(units, 1, k)]
       /\ down' = ShutDown(c)
  /\ proc' = [proc EXCEPT ![t] = GivesUp(t)] /\ stage' = None
  /\ UNCHANGED <<lock, frame, slot, tx, bound, owner, history>>

\* The frame lock is released, after a flush with an empty queue.
Release(t) ==
  /\ Doing(t, "release") \/ Doing(t, "empty")
  /\ tx' = IF Doing(t, "empty") THEN [tx EXCEPT ![At(t)] = <<>>] ELSE tx
  /\ frame' = [frame EXCEPT ![At(t)] = None] /\ Done(t)
  /\ UNCHANGED <<lock, slot, bound, stage, kernel, history>>

Sending(t) == SendsAll(t) \/ SendFails(t)
Writing(t) == Write(t) \/ Reply(t) \/ Flush(t) \/ Parks(t) \/ Sending(t) \/ Release(t)

-----------------------------------------------------------------------------
(* The IPC and the tick thread. *)

\* Mutant: what the connection threads queued waits for the next IPC call.
TickOnly == <<Do("call", None)>>

\* A pass of the tick thread: the core polls, the queues go out.
TickPass == <<Do("call", None)>> \o Flushes

Ticks ==
  /\ Begin("tick", TickPass) /\ stage' = None
  /\ UNCHANGED <<lock, frame, slot, tx, bound, kernel, history>>

\* NET_SEND and NET_WAVEFORM.
Calls ==
  /\ Begin("ipc", <<Do("call", None)>> \o Flushes)
  /\ UNCHANGED <<lock, frame, slot, tx, bound, stage, kernel, history>>

\* The core has something for its App, or nothing.
Core(t) ==
  /\ Doing(t, "call") /\ lock = None
  /\ \/ Done(t) /\ UNCHANGED lock
     \/ bound # None /\ MayMake(slot[bound].conn) /\ lock' = t /\ Then(t, Holding(t, bound))
  /\ UNCHANGED <<frame, slot, tx, bound, stage, kernel, history>>

-----------------------------------------------------------------------------
(* Connections. *)

Accepted == Cardinality({c \in Conns : \E fd \in Fds : owner[fd] = c} \cup down)
Unused == {s \in Slots : slot[s].fd = None}
IsFirst(x, list, good) ==
  \E i \in DOMAIN list : list[i] = x /\ x \in good /\ \A j \in 1..(i - 1) : list[j] \notin good

\* A write for the last owner of a slot or of a number is still on its way.
OnItsWay(s, fd) ==
  \/ frame[s] # None
  \/ \E r \in Slots : slot[r].fd = fd
  \/ \E t \in Threads : Doing(t, "sending") /\ Head(proc[t]).fd = fd

\* netStartClient: a slot without a connection, whose last thread is through; the handshake
\* succeeds or not.
Accepts(s) ==
  /\ lock = None /\ IsFirst(s, SlotList, Unused) /\ Accepted < MaxConns
  /\ Begin(s, <<Do("attach", s)>>) \/ Begin(s, Leave(s))
  /\ \E fd \in Fds :
       /\ IsFirst(fd, FdList, {f \in Fds : owner[f] = 0})
       /\ owner' = [owner EXCEPT ![fd] = Accepted + 1]
       /\ inherited' = IF OnItsWay(s, fd) THEN inherited \cup {Accepted + 1} ELSE inherited
       /\ slot' = [slot EXCEPT ![s] = [fd |-> fd, conn |-> Accepted + 1]]
  /\ tx' = [tx EXCEPT ![s] = <<>>]
  /\ UNCHANGED <<lock, frame, bound, stage, down, wire, parked, made, lost>>

\* dglabNetServerAttach: the bind reply, or an error and the end.
Attach(s) ==
  /\ Doing(s, "attach") /\ lock = None /\ lock' = s
  /\ bound' = IF bound = None THEN s ELSE bound
  /\ Then(s, Holding(s, s) \o (IF bound = None THEN <<>> ELSE Leave(s)))
  /\ UNCHANGED <<frame, slot, tx, stage, kernel, history>>

\* A ping is answered by the frame layer; a message of the App by the core, if at all.
Serves(s) ==
  /\ slot[s].fd # None /\ MayMake(slot[s].conn)
  /\ Begin(s, <<Do("reply", s)>>) \/ Begin(s, <<Do("answer", s)>>)
  /\ UNCHANGED <<lock, frame, slot, tx, bound, stage, kernel, history>>

Answer(s) ==
  /\ Doing(s, "answer") /\ lock = None /\ lock' = s /\ Then(s, Holding(s, s))
  /\ UNCHANGED <<frame, slot, tx, bound, stage, kernel, history>>

\* The end of the connection ends the thread.
Ends(s) ==
  /\ slot[s].fd # None /\ slot[s].conn \in down /\ Begin(s, Leave(s))
  /\ UNCHANGED <<lock, frame, slot, tx, bound, stage, kernel, history>>

Detach(s) ==
  /\ Doing(s, "detach") /\ lock = None /\ Done(s)
  /\ bound' = IF bound = s THEN None ELSE bound
  /\ UNCHANGED <<lock, frame, slot, tx, stage, kernel, history>>

\* shutdown() and close(); the slot still has the number.
Closes(s) ==
  /\ Doing(s, "close") /\ Done(s)
  /\ owner' = [owner EXCEPT ![slot[s].fd] = 0] /\ down' = down \cup {slot[s].conn}
  /\ UNCHANGED <<lock, frame, slot, tx, bound, stage, wire, parked, history>>

Clears(s) ==
  /\ Doing(s, "clear") /\ lock = None /\ Done(s)
  /\ slot' = [slot EXCEPT ![s].fd = None]
  /\ UNCHANGED <<lock, frame, tx, bound, stage, kernel, history>>

Connection(s) == Attach(s) \/ Answer(s) \/ Ends(s) \/ Detach(s) \/ Closes(s) \/ Clears(s)

\* The App goes away.
AppLeaves ==
  /\ \E fd \in Fds : Peer(fd) \notin down \cup {0} /\ down' = down \cup {Peer(fd)}
  /\ UNCHANGED <<lock, frame, slot, tx, bound, proc, stage, owner, wire, parked, history>>

\* The watchdog shuts down the socket of the last mark once there is no new one: the tick
\* thread, which leaves one with every pass, is held up.
Watchdog ==
  /\ stage # None /\ Peer(stage) # 0 /\ proc["tick"] # <<>>
  /\ down' = down \cup {Peer(stage)}
  /\ UNCHANGED <<lock, frame, slot, tx, bound, proc, stage, owner, wire, parked, history>>

Next ==
  \/ \E t \in Threads : Unlock(t) \/ Core(t) \/ Writing(t)
  \/ Ticks \/ Calls \/ AppLeaves \/ Watchdog
  \/ \E s \in Slots : Accepts(s) \/ Serves(s) \/ Connection(s)

Spec == Init /\ [][Next]_vars

Step(t) == \/ Unlock(t) \/ Core(t) \/ Write(t) \/ Reply(t) \/ Flush(t) \/ Release(t)
           \/ t \notin parked /\ Sending(t)
           \/ t = "tick" /\ Ticks
           \/ t \in Slots /\ Connection(t)

\* Every thread is scheduled and a released mutex goes to whoever waits for it.  A send comes to
\* its end by SO_SNDTIMEO or is parked for ever ("a bsd:u send that never returns",
\* net_socket.c:109-112).  Nobody has to call, to connect or to send.
FairSpec == Spec /\ \A t \in Threads : WF_vars(Step(t))

\* The best one may hope for: the watchdog runs, and a shutdown brings a parked send back.
Rescued(t) == t \in parked /\ Peer(Head(proc[t]).fd) \in down \cup {0} /\ SendFails(t)
RescuedSpec == FairSpec /\ WF_vars(Watchdog) /\ \A t \in Threads : WF_vars(Rescued(t))

-----------------------------------------------------------------------------
(* Properties *)

UnitsOf == [conn : Conns, n : Nat, part : {"head", "body"}]
AtLock == {"call", "attach", "answer", "detach", "clear"}
Ops == AtLock \cup {"unlock", "write", "reply", "flush", "sending", "release", "empty", "close"}

\* Types.
TypeOK ==
  /\ lock \in Threads \cup {None} /\ frame \in [Slots -> Threads \cup {None}]
  /\ \A s \in Slots : /\ slot[s] \in [fd : Fds \cup {None}, conn : 0..MaxConns]
                      /\ ToSet(tx[s]) \subseteq UnitsOf
  /\ bound \in Slots \cup {None} /\ stage \in Fds \cup {None}
  /\ \A t \in Threads : \A i \in DOMAIN proc[t] :
       /\ proc[t][i].op \in Ops /\ proc[t][i].fd \in Fds \cup {None}
       /\ proc[t][i].slot \in Slots \cup {None} /\ ToSet(proc[t][i].units) \subseteq UnitsOf
  /\ owner \in [Fds -> 0..MaxConns] /\ down \subseteq Conns /\ parked \subseteq Threads
  /\ \A c \in Conns : ToSet(wire[c]) \subseteq UnitsOf /\ Len(made[c]) <= MaxFrames[c]
  /\ inherited \subseteq Conns /\ \A c \in Conns : lost[c] \subseteq UnitsOf

\* What an App gets is whole frames made for it, each once, however pings, messages, uploads
\* and a stop meet.  A header is followed by its payload unless it is the last thing on the
\* connection or the payload found the queue full (net_socket.c:590-602: "another sender could
\* slip a frame in between them, and a failure could leave half a frame on the wire").  A
\* connection that got its slot or its number under a write for another is left out.
WholeFrames ==
  \A c \in Conns \ inherited :
    /\ IsInjective(wire[c])
    /\ \A i \in DOMAIN wire[c] : LET u == wire[c][i] IN
         /\ u.conn = c
         /\ u.part = "body" => i > 1 /\ wire[c][i - 1] = [u EXCEPT !.part = "head"]
         /\ u.part = "head" /\ i < Len(wire[c]) =>
              LET payload == [u EXCEPT !.part = "body"] IN
                wire[c][i + 1] = payload \/ payload \in lost[c]

\* The frames the core made for a connection; how much of a row of units is theirs, and whether
\* that is in the order they were made in.
Said(c) == {n \in DOMAIN made[c] : made[c][n] = "core"}
HasAll(c, frames, row) == \A n \in frames : ToSet(Units(c, n)) \subseteq ToSet(row) \cup lost[c]
Before(u, v) == u.n < v.n \/ (u.n = v.n /\ u.part = "head" /\ v.part = "body")
InOrder(frames, row) ==
  \A i, j \in DOMAIN row : i < j /\ {row[i].n, row[j].n} \subseteq frames => Before(row[i], row[j])

InSlot(c) == {s \in Slots : slot[s].conn = c}
Unsent(s) == IF \E t \in Threads : Doing(t, "empty") /\ At(t) = s THEN <<>> ELSE tx[s]

\* While a connection is up nothing the core said on it is lost but what found the queue full,
\* and nothing is said twice or overtaken by what it said later: it is on the wire or still
\* queued (net_socket.c:669-717; a stop drops the queue for its close frame, 1411-1421).  A
\* connection that got its slot or its number under a write for another is left out.
NothingLost ==
  \A c \in Conns \ (down \cup inherited) : \A s \in InSlot(c) : LET row == wire[c] \o Unsent(s) IN
    HasAll(c, Said(c), row) /\ InOrder(Said(c), row)

\* A thread that flushes or answers sends without the transport lock, and nobody waits for the
\* transport lock while it holds a frame lock (docs/dglab-socket.md:102-104).
LockOrder ==
  \A t \in Threads :
    /\ Doing(t, "sending") => lock # t
    /\ (\E op \in AtLock : Doing(t, op)) => \A s \in Slots : frame[s] # t

\* A slot whose frame lock is held by a thread that does not come back from its send.
Blocked(s) == frame[s] \in parked

\* The frame lock is what a thread needs next: to queue a frame, or to send what is queued.
NeedsFrame(t) == Doing(t, "write") \/ Doing(t, "flush")

\* What may hold up a thread: a send of its own, the frame lock it needs next, or, when it is
\* the transport lock it needs, the frame lock the holder of that one waits for.
HeldUp(t) ==
  \/ t \in parked
  \/ NeedsFrame(t) /\ Blocked(At(t))
  \/ (\E op \in AtLock : Doing(t, op)) /\ lock # None /\ NeedsFrame(lock) /\ Blocked(At(lock))

\* An IPC call returns, whatever the connections and the tick thread hold at the moment, unless
\* a send that never returns is in its way.
IpcReturns == (proc["ipc"] # <<>>) ~> (proc["ipc"] = <<>> \/ HeldUp("ipc"))

\* What is queued goes out or is dropped, whoever queued it, unless a send that never
\* returns is in the way of the tick thread.
QueuesDrain == \A s \in Slots : (tx[s] # <<>>) ~> (tx[s] = <<>> \/ HeldUp("tick"))

\* net_socket.c:109-112: "a bsd:u send that never returns can only park the thread that
\* flushes - not the IPC thread and not the console's NRO".
IpcUnparked == (proc["ipc"] # <<>>) ~> (proc["ipc"] = <<>> \/ "ipc" \in parked)

\* net_socket.c:682: "Cannot happen with one frame per send": the queue is full.
NeverFull == \A c \in Conns : lost[c] = {}

\* A connection that is up gets frames of its own alone.  It does not: a number that is closed
\* and not yet cleared in its slot (net_socket.c:788-795) is handed out again, and a flush sends
\* what the last owner was to get to the new one.
OwnFramesOnly == \A c \in Conns \ down : \A u \in ToSet(wire[c]) : u.conn = c

\* tests/net/test_net_server.c:322: "Only one client can be bound at a time (400 for the
\* second one)": an App that is turned away is told so before its connection is closed.
RefusalIsSent ==
  \A s \in Slots : LET c == slot[s].conn IN
    Doing(s, "close") /\ c \notin down => HasAll(c, Said(c), wire[c])
=============================================================================
