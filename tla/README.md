# TLA+ models of DGLAB-NX

DGLAB-NX is a Switch homebrew in two programs. A background process (the *sysmodule*)
drives a DG-LAB Coyote V3, either by talking to the DG-LAB App over a WebSocket server of
its own (socket mode) or by talking to the device over Bluetooth Low Energy (BLE mode). A
foreground program (the *NRO*) draws the user interface and asks the sysmodule for
everything over IPC. This directory holds models of the control logic of both, the TLC
configurations that check them, and TLAPS proofs about them. Paths below are relative to
`src/`; the modules' comments give file names and lines.

Contents: [inventory](#1-inventory), [modules](#2-modules-and-how-they-correspond-to-the-code),
[runs](#3-what-the-runs-check), [bounds](#4-bounds), [fairness](#5-fairness-and-deadlock),
[proofs](#6-what-is-proved), [findings](#7-where-the-code-and-its-documents-disagree),
[limits](#8-what-is-not-modelled), [plan](#9-plan).

## 1. Inventory

### Threads and locks of the sysmodule

| thread | code | lives |
|---|---|---|
| IPC thread, one request at a time | `sysmodule/source/main.c` | always |
| accept thread | `net_socket.c` `netAcceptThreadMain` | while the server runs |
| tick thread, every 100 ms | `net_socket.c` `netTickThreadMain` | while the server runs |
| one thread per connection (two slots) | `net_socket.c` `netClientThreadMain` | one connection |
| power state thread, watchdog | `net_socket.c` `netPmThreadMain` | once started, always |
| BLE worker | `ble_poc.c` `pocThreadFunc` | one BLE or diagnostics run |

The *transport lock* `g_net.mutex` protects the server core and `g_net`. Each connection has
a *frame lock* `write_mutex`; the only order is transport, then frame. `g_ble_*` and
`g_poc` have a lock each, never held together.

### Components

**Socket server core** (`sysmodule/source/net/net_server.c`). State: `status` (state,
paired, peer, clients), the client slots with `in_use` and `paired`, one ring of 25 ms
waveform slots per channel with its pacing and an owed clear. Operations: `SetListening`,
`SetFailed`, `SetStopped`, `Attach`, `Detach`, `OnMessage`, `Poll`, `Send`, `SendWaveform`,
`GetStatus`. Called by the transport under the transport lock, so a call is atomic; what is
hard is the order of the calls: connections come, break and leave in any order, while
requests of the front end and the polls of the tick thread feed the same queues. Correct
means: one App is bound at a time and the status says so; every slot uploaded is sent once,
in order, in whole elements, or dropped for a stated reason; a Replace does not mix with
what it replaces; whatever can be sent is sent.

**Socket transport** (`sysmodule/source/transport/net_socket.c`). State: `g_net` (running,
stopping, the idle and restart marks), the listening socket, the slots (descriptor, thread,
transmit queue), the libnx `Thread` objects. Operations: start, stop, the idle stop, sleep
and wake, accept, connection threads, queued and direct writes. Hard: a stop comes at any
point of four kinds of threads, has to join all of them and must not join itself; the
number of a closed descriptor comes back for the next connection; a thread handle has to be
joined before its stack is used again (`docs/dglab-socket.md` tells what went wrong when it
was not). Correct means: a stop ends and leaves no thread, descriptor or connection behind;
a connection thread only touches its own descriptor; a stack is only used when released.

**Coyote V3 gate and session** (`coyote_v3_strength.c`, `coyote_v3_session.c`). State: per
channel what is owed (a sum of relative changes, a zero), one change in flight and its
sequence number, ceilings, two waveforms and their positions, time since the last packet.
Operations: connect, disconnect, adjust, zero, waveform, limits, tick, notification. Hard:
packets and notifications get lost, the wheel on the device changes strengths by itself,
the device confirms a change only if it changed something. Correct means: with feedback, one
change at a time is under way; what was asked for is sent exactly once; a zero arrives.

**Coyote V3 packets** (`coyote_v3.c`): encoding and parsing of B0, BF and B1, without state.

**BLE session and worker** (`ble_poc.c`). State: `g_ble_*` (active, ceilings, staged
waveform, ceilings and strengths, status), `g_poc` (running, stop, session requested), the
worker with its transport and Coyote session. Operations: `BLE_START/STOP/STATUS/LIMIT`,
`NET_SEND` and `NET_WAVEFORM` while a session is active, `POC_START/STOP`. Hard: the two
structures change under two locks by two threads, a start is refused half way, a stop
arrives while the worker connects, streams or closes. Correct means: the strength in the
status, what the gate owes and what the device has agree; a run that ends leaves a capped
device; a stop ends a run; a start does not wait for ever; nothing streams without an owner.

**WebSocket framing** (`ws.c`). State of a connection: the receive buffer, the message that
is being put together, the pings since the last message. Operations: handshake, read exactly
so many bytes, read a frame, receive a message, send a frame. Hard: frames arrive in pieces
of any size, control frames come between fragments, a frame may break the protocol or a
limit at any place. Correct means: what an App's frames mean is delivered, once and in
order; every ping is answered; only a wrong frame is an error.

**Writing to a connection** (`net_socket.c`, `ws.c`). State: the transport lock, a frame
lock and a transmit queue per slot, the stage mark of the watchdog. Operations: queue a
frame, flush a slot or all of them, write directly, fail and shut down. Hard: five threads
write, a queue holds 4096 bytes, a send may fail in the middle or never return, a
descriptor's number comes back. Correct means: frames stay whole, nothing is lost or
overtaken while the connection is up and there is room, no call waits for a stalled peer
for ever, and the two locks are taken in one order.

**Diagnostic probes** (`ble_poc.c`, `ble_poc_view.c`). State: what the worker holds of the
console's services, the scans it started, what it has found, the address file, the ceilings
of the device; on the page the step of the one-key sequence. Hard: every call may be refused
after others were granted, a stop comes at any place, one key runs two workers one after the
other. Correct means: nothing is left open, the device is capped again, a run with an
address connects to that one, the sequence ends.

**Log rings** (`net_server.c`, `ble_poc.c`, read by `main.c` and `ble_poc_view.c`). State: a
ring with a write offset and the offset where the run began; per page a cursor, a half line
and a scrollback. Hard: writer and readers move independently, a reader is overtaken, a
start cuts off what was not read. Correct means: what is shown is the log, in order.

**Pages of the front end** (`nro/source/main.c`). State: the page and its locals, the
strength row, what was last told to the far end, the ceilings the BLE session was told, the
parameters file's limit. Operations: open and leave a page, poll, keys. Hard: a key acts on
what a poll saw, while server, App, BLE session and console move in between. Correct means:
the row is what was sent, a stream ends with its page, the ceilings shown are those in
force.

**Automatic sleep** (`platform/auto_sleep.c`): takes over a setting of the console while
the server is up and gives it back; calls may fail. **Parameters**
(`motion/motion_settings.c`, `main.c`): sixteen rows, of which two pairs constrain each
other, edited by keys, saved to a file and read back line by line. **Motion and touch feeds,
Joy-Con handles** (`motion/`, `touch/`): hysteresis, peak of a window, envelope and
streaming; which finger owns a half of the panel; which sensor handle belongs to which side,
and when handles are taken again. Correct means: parameters stay in range and order, a half
follows a finger that is there, a controller that delivers keeps its handle, and an input
that goes away ends in silence.

**Socket V3 messages** (`dglab_socket.c`): parsing and building of JSON texts, without
state. **IPC dispatch** (`sysmodule/source/main.c`): unpacks a request and routes an input to
the BLE session if one is active, to the server otherwise. Languages, JSON, drawing, fonts
and QR code hold nothing the properties depend on. `tools/` and `third_party/` are not part
of the running program.

### Interactions

The NRO calls the IPC thread. The IPC thread calls the transport or the BLE session. The
transport's threads call the server core under the transport lock, and the core writes to a
connection through `conn->write`, which under the transport lock only copies into the slot's
transmit queue; the queue is flushed after unlocking. The BLE worker drives the Coyote
session, which writes to the radio through a callback and is given notifications. The
device and the App are reached through the radio and the sockets only.

## 2. Modules and how they correspond to the code

| module | models | builds on |
|---|---|---|
| `Pairing` | abstract: what the server promises about its binding | |
| `SlotStream` | abstract: what one waveform channel promises | |
| `NetServer` | `net_server.c` | implements `Pairing`, `SlotStream` twice |
| `NetSocket` | the life cycle in `net_socket.c` | |
| `Coyote` | `coyote_v3_strength.c`, `coyote_v3_session.c` as functions; device external | |
| `CoyoteLink` | one session, its user, a lossy link, the device | `Coyote` |
| `BleSession` | `ble_poc.c` around a session | `Coyote` |
| `MessageStream` | abstract: what a connection promises about the messages of one side | |
| `WsFrames` | the reading side of `ws.c` and the loop of a connection thread | implements `MessageStream` twice |
| `NetWrites` | locks, transmit queues and sends of `net_socket.c`, `ws.c` | |
| `ProbeWorker`, `OneKeyProbe` | the two diagnostic probes of `ble_poc.c`; the page of `ble_poc_view.c` over them | `OneKeyProbe` extends `ProbeWorker` |
| `LogRing` | both log rings and the three pages that read them | |
| `AutoSleep` | `auto_sleep.c` as functions | |
| `FrontEnd` | the pages of `main.c` | `AutoSleep` |
| `MotionSettings`, `MotionFeed`, `TouchFeed` | `motion_settings.c`, `motion_feed.c`, `touch_feed.c` as functions | |
| `Gestures` | the parameters page, the motion and the touch mode, `joycon.c` | the three above |
| `NetServerProofs`, `NetSocketProofs`, `NetWritesProofs`, `CoyoteProofs`, `BleSessionProofs`, `FrontEndProofs`, `GesturesProofs`, `OneKeyProofs` | theorems | the module of the name; `CoyoteProofs` is about `CoyoteLink`, `OneKeyProofs` about `OneKeyProbe`, `NetSocketProofs` about `WsFrames` as well, `BleSessionProofs` about `LogRing` as well |
| `MC*` | values of constants for TLC | |

**NetServer.** A step is one call of the core. `state`, `paired`, `peer`, `clientCount` are
the fields of `DglabNetStatus`; `active` and `bound` are the slots with `in_use` and with
`paired`; a connection stands for the uuid it was given. `wave[ch]` is the ring with `head`,
`count`, the wait until the next batch is due and the owed clear. Time is counted in ticks
of 100 ms, which is the tick period and the playing time of one element of four slots.
`Tick` is one poll: both channels are aged, an owed clear is sent, and a whole batch goes
out when it is due; a write that fails ends the pump as in the code. `UploadWaveform` and
`SendClear` are the two requests that touch the queues. Slots are numbered in the order they
are uploaded; `app`, `lastSent`, `gesture` and `wiped` are history: what the App plays, the
last slot sent, where the newest Replace began, and whether a departing stranger emptied the
queues of the bound App. `broken` is the contract of `conn->write`, which may fail at any
call; in `net_socket.c` a write under the transport lock is queued, so there a failure shows
up one flush later.

**NetSocket.** A step is what a thread does under the transport lock in one piece, or one
call it makes outside it (`poll`, `accept`, a join, a `shutdown`, a `close`). `slot` holds
the descriptor and `active` of each client slot, `valid` the handles that are to be joined,
`thread` the state of each libnx thread: `live`, `exited`, or `free` once it is closed.
`acceptor`, `ticker` and `client` say where the threads are, `call` where the caller of
start or stop is, including what a stop took in its snapshot. The number of a closed
descriptor is handed out again. Of the core only attach and detach are kept (`attached`);
`aged` stands for 55 s without activity. A `Thread` that was created and could not be
started is left out: the code gives such a handle up knowingly.

**Coyote, CoyoteLink.** A strength is a number, a waveform its length and a position. The
gate and the session are records with the fields of the C structures and every operation is
a function of them: `Adjust`, `RequestZero`, `ApplyToPacket`, `OnB1`, `Tick` and so on. A
packet is a record of what it means. In `CoyoteLink` packets and notifications travel in two
queues that may lose their heads; a write to a full link fails, as the write callback may.
The device is modelled after `docs/dglab-protocol.md`: it stays under its ceilings and
answers a numbered packet that changed a strength, and no other. `wanted` and `applied` are
the ledger of what was asked and what the device took since the last zero.

**BleSession.** `ble` is `g_ble_*` and `poc` is `g_poc`; a step is what a thread does under
one of the two locks. `ipc.at` is where the IPC thread is inside `blePocSessionStart`,
`blePocStart` or `blePocSessionStop`, `worker` where the worker is: waking (the 300 ms before
it looks at the request), connecting, applying staged inputs, pumping, draining, ending,
leaving. A diagnostics run starts and ends and does nothing between that touches this state.
The re-arm of the pump (a gate opened without an answer while nothing was ever heard) is a
choice the pump may take whenever it could; `answers` says whether the firmware hands
notifications to this process at all. `lost`, `drift` and `dropped` record what excuses a
difference between status and device: a lost packet, a request that met the end of a range
or a full queue, a change of ceilings that reset a gate which still owed something.

**NetWrites.** A thread is the list of steps it still has to take (`proc`), because the
same call queues, flushes or sends depending on who makes it; a step is what happens between
two points where another thread may come in. `lock` and `frame` are the two kinds of mutex.
A frame is two units, header and payload, numbered per connection; `made` says what was
meant to be sent, `Said` the core's part of that, and `wire` what the App got. Header and
payload are written one by one, as in `wsConnSend`, and a unit that finds the queue full is
dropped with success, the payload with its header or alone. Units have no size, so `TxRoom`
is the number of units that always fit; of what comes after them any may be dropped (`Taken`),
and `lost` keeps what was. The core may have more than one thing to say before it lets go of
the transport lock. A send may end well, in the middle, not at all, or not return (`parked`):
a parked one may end later and nothing says that it will. The watchdog may shut down the
connection of the last mark (`stage`) while the tick thread is held up. A connection
takes the first slot and the first number that are free (`IsFirst`), whether or not a write for
the last owner is on its way; `inherited` notes the connections that got one so.

**WsFrames.** A frame is its opcode, its flags and a size in pieces; a unit of the byte
stream stands for what one read asks for. `Meaning` says what a sequence of frames means
after RFC 6455, without a reader in it: a message is the set of pieces of its frames, put in
order (`InOrder`), and so is what the pings carry. `delivered` and `ponged` are what the code
makes of it, byte by byte.

**ProbeWorker, OneKeyProbe.** `worker` is the place in `pocThreadFunc` and the probes, a
step ends at a call that waits. `open` and `scans` are what the process holds of the
services and the radio, `unstopped` the scans whose stop was refused (the code looks at no
such result), `ceiling` the devices whose ceiling the session has raised, `link` and `asked`
the radio's state (a connect it accepted completes later, unless the device is connected).
Every call may be refused. `probe` has the variables of a probe, which end with it, `seen` those of its window. A driver-level probe with an address begins with a
control connect in a btdrv session of its own (`Cold`); its phase takes the first device it is
told of, of any kind; its window recognises a Coyote when there is no address and none was
recognised since the program began (`discovered`, which nothing takes back). Of the three
scans of the btm probe the general and the smart one are never started: the loop that would
start them runs while the result is not zero, and it is zero (`StartsScan`). The transport ends
with a look into the driver's event queues, for which btdrv is opened beside btm (`peeking`).
The page's frame reads the status, which may fail, steps the sequence and handles one key; the
requests it makes are steps of their own, so the worker moves between them.

**LogRing.** A unit is a byte and is named by its place in the log, so that a unit handed
out twice or after it was overwritten is seen in the line it ends up in. `Log` writes a whole
line under the ring's lock, `Request` is one IPC call of a poll with the clamps of both
`ReadLog`s and the assembly of `logAppend`, `Begin` is the start that moves `log_valid_from`.
`torn` notes that a clamp skipped units of the line a page is putting together.

**FrontEnd.** A frame is two steps, the poll and the keys, in the order of the page's loop;
the server, the App, the BLE session and the console are external and move in between.
`mixer.silent` is the one excuse for a row that was not sent: the Bluetooth page lowers it to
a ceiling without telling anybody. A row in socket mode is under the App's limit cut to
`DGLAB_STRENGTH_MAX` (`ChannelCeiling`). The motion and touch pages take the same steps here and
are one page, `gameplay`.

**AutoSleep, MotionSettings, MotionFeed, TouchFeed, Gestures.** The first four are the
files' functions on records with the C fields; `Gestures` has the pages that call them: the
parameters are loaded a line at a time with `fixRelations` behind every line, a save may
fail to open the file or be cut off after any line, the Joy-Cons are polled one after the
other, a frame takes any of the times in `Elapses`, and the clocks of the feed count modulo
`Width`, the 2^32 ns of the code. A line's value is an integer, a count of steps, or `NaN`,
which `strtod` makes of "nan": no comparison with it is true, so `clampf` and the relations
let it through (`Below`), and a row of milliseconds, which is cast, becomes 0. `odd` notes the
rows such a value was read for.

## 3. What the runs check

Passing runs:

| run | properties | shows |
|---|---|---|
| `net_server` (82,557 states) | `TypeOK`, `PairingSound`, `GesturesMixOnlyWhenWiped`, `ImplementsPairing`, `ImplementsStreams`, `Flushed` | one App at a time under all orders of connect, break, leave and stop; the rings are exact bounded FIFO streams that lose their oldest slots when full; gestures do not mix, with one exception; a whole element at the head of a queue leaves while the App can be written to |
| `net_socket` (441,629 states) | `NothingLeft`, `OwnDescriptor`, `StacksReleased`, `StopEnds` | a stop at any point of the accept, tick and connection threads ends and leaves nothing; no thread closes or reads a descriptor that is not its own, although numbers return; no thread starts on a stack in use |
| `net_writes` (228,778 states) | `WholeFrames`, `NothingLost`, `LockOrder`, `IpcReturns`, `QueuesDrain` | pings, messages, uploads, full queues, sends that fail or never return, and the watchdog meet on two connections: frames stay whole, the core's frames keep their order and only a full queue loses one, nobody holds the transport lock in a system call; the IPC thread comes back and every queue is sent or dropped unless a send that never returns is in the way |
| `ws_frames` (498,621 states) | `OnlyWrongIsDropped`, `ImplementsStreams`, `EverythingArrives` | four frames of eleven kinds, in pieces of any size: messages and answers to pings are two `MessageStream`s, only a wrong frame is an error, nothing waits for bytes it does not need |
| `coyote_link` (194,330 states) | `OneInFlight`, `NothingForgotten`, `ZeroDelivered` | one change at a time, sums that add up while nothing is lost, a zero that arrives unless the change before it stays unconfirmed |
| `ble_session` (3,468,329 states) | `LedgerExact` | status + owed + on the way + device agree through every order of three staged requests and the worker |
| `ble_session_live` (422,976 states) | `CappedAtEnd`, `StopEnds`, `JoinEnds` | two runs and a request: a session leaves a capped device, a stop ends the run, the join in a start ends |
| `one_key` (1,379,694 states) | `NothingLeftOpen`, `CappedAtDisconnect`, `TargetKept`, `SequenceEnds` | both probes with every refusal and stop: nothing stays open but a scan whose stop was refused, the wheel's ceilings are taken back, a btm probe with an address connects to no other one, the sequence ends |
| `log_ring` (1,105,238 states) | `LinesAreTheLog`, `CatchesUp` | what a page shows is the log in order, with whole lines but where the ring moved on under the reader; a page that stays open catches up |
| `front_end` (974,200 states) | `SleepRestored`, `RowWasSent`, `StreamEndsWithPage`, `RowsAgreeOnceMet`, `SleepFollows` | two ceilings, all pages and keys against every move of the far ends |
| `gestures` (1,221,523 states) | `RelationsHold`, `FollowsLiveFinger`, `LivingKeepsHandle`, `EndsStill` | files of any content, "nan" included, silent sensors, competing fingers, frames of ordinary and extraordinary length |

The run `settings_reload` shows a disagreement (section 7): `SettingsSurvive` is violated.

Each property of a passing run has a mutant: a second operator in the module that changes a
definition as a slip in the code would (`DropSlipping`, `OnAnyB1`, `LeavesLocked` and so on;
their comments begin with "Mutant:"). With the mutant in place of the definition TLC finds
the property violated, so each of them depends on the code it is about.

Some excuse what section 7 lists, and do not speak of it: `PairingSound` does not see the late
break that resets the status of a successor; `LedgerExact` leaves out runs in which a request
met the end of a range, a full queue or a gate that was reset (`drift`, `dropped`);
`SleepRestored` leaves out a console that refused the call (`stuck`); `WholeFrames` and
`NothingLost` leave out connections that got their slot or number under a write for another.

## 4. Bounds

* `net_server`: two connections and two slots; an element of 2 slots, a ring of 4, batches of
  one element, uploads of 3. An upload of 3 into 4 leaves half an element behind, the second
  one overflows the ring, and head and count wrap. `SlotBudget` gives channel A two uploads
  and channel B one, so both channels are in play.  With `LeadTicks = 0` the wait is one
  tick; larger leads only change when a batch is due.
* `net_socket`: the two slots of the code and three descriptors, so that both slots may be
  taken while the accept thread holds another one, and every number is used again.
  Starts and stops are not counted: the state space is finite by itself.
* `coyote_link`: strengths 0..2, sequence numbers 1..2 (the wrap and a stale number both
  occur), packets of 2 slots from a waveform of 3 (a packet with padding), ticks shorter and
  longer than the interval, two requests, one turn of the wheel, one loss. The sums meet the
  end of their range because a request is worth up to the whole range.
* `ble_session`: strengths 0..2, different ceilings per channel, a queue of 2 with three
  requests, so that it overflows. One run. `ble_session_live` has two runs, which is what a
  refused or half-made start needs, and one request.

* `net_writes`: the two slots of the code, two descriptors, two connections; room for two
  units in each queue. The first connection has two frames, so an answer and a message meet, a
  frame finds the queue full, and a payload is dropped behind its header when a flush in
  between has made room for one unit. The second has none of its own: what it gets is what is
  sent to it by mistake. Without the two properties about time the three invariants were also
  checked with three frames for the first and one for the second (`MCFrames`, `TxRoom = 3`,
  5,118,118 states).
* `ws_frames`: four frames. A payload of one piece has a short length, of two a longer one and
  fills a message, of three is over the limit, so both encodings and both limits occur; two
  fragments with a control frame between them and a second message fit, and so do three
  fragments of one piece each, which are too long together.
* `one_key`: one Coyote and one stranger, the three attempts of the code, a list of one device
  seen (4), a sequence that waits for one idle frame (30) and two keys: start and stop, or
  start twice. `Saved` and `Present` are empty, so the program begins without an address file
  and without a connected device; both come about in the run, when a probe finds the Coyote or
  connects to the stranger. The proofs have any `Saved` and `Present`.
* `log_ring`: rings of three units, chunks of two, lines of one or two units, four units
  written to each: a ring is overrun, a line is cut by a chunk, by the ring and by a start. The
  probe view makes two requests a frame, the pages one (8 and 2 in the code). That an offset
  wraps after 4 GiB of log is not modelled.
* `front_end`: `MaxStrength = 1` and an App whose limit is 0 or 2, below it or above; a row, a ceiling and a limit may differ, which is all the
  comparisons see. Nothing is counted.
* `gestures`: rows of one or two steps, so that each pair can be in either order; intensities
  0..3, two fingers, one or two readings a frame; frames of a half, a whole and three and a
  half slots with a clock that wraps at four; a file before the program's own that has
  values out of range, an unknown row, and "nan" for rows of both kinds. Quiet polls are counted up to the rescan.

`MaxDelay`, `SlotBudget`, `LinkSlots`, `MaxRequests`, `MaxTurns`, `MaxLosses`, `MaxStarts`,
`MaxConns`, `MaxFrames`, `MaxKeys` and `MaxUnits`
are the only bounds that are not in the code; they are guards of the actions that spend
them, so runs end with nothing left to ask rather than in a state the code cannot be in.

## 5. Fairness and deadlock

Fairness is assumed of threads, which the kernel schedules: the tick thread's poll in
`NetServer`; the accept, tick and connection threads and a caller in the middle of a start or
stop in `NetSocket`; the worker and an IPC request that was begun in `BleSession`; the
worker's tick, the device's reading and the radio in `CoyoteLink` (a lost packet is an
action of its own). Nobody is forced to connect, to leave, to ask for anything or to stop. In
`NetSocket` a handshake ends because its reads time out after 10 s (`net_socket.c:22`) and a
read of an attached connection ends only when the peer leaves or the socket is shut down.
In `NetWrites` every thread goes on and a released mutex goes to whoever waits (weak fairness of
each thread's step). A send ends by `SO_SNDTIMEO`, or it is parked and need not end at all,
which `net_socket.c:109-112` and `docs/dglab-socket.md:104-105` say happens; `IpcReturns` and
`QueuesDrain` therefore end in "or is held up by one" (`HeldUp`: a thread parked itself, a frame
lock it needs next, or the frame lock the holder of the transport lock needs next).
`RescuedSpec`, under which the watchdog runs and a shutdown brings a parked send back, is used
in section 7 only. In `WsFrames` the
connection thread reads on. In `OneKeyProbe` the page draws its frames, makes its requests,
and the worker's calls return; no key is forced. In `FrontEnd` the page's loop draws frame
after frame, in `Gestures` the file is read to its end and frames are drawn; no key, no sample
and no touch is forced. In `LogRing` an open page goes on with its frames, and a request that is repeated
for ever is answered now and then: strong fairness, because a failed request ends the poll and
the next frame asks again. `EndsStill` has a premise of its own: once the input is gone the
frames are of ordinary length, as a frame of 2^32 ns is taken for a short one.
The watchdog that ends a session after an hour (`Deadline`) is not fair, so `StopEnds` does
not lean on it.

Weak fairness is enough everywhere else. In `NetSocket` the join of a thread is disabled until
the thread has exited, and then stays enabled.

Deadlock is checked everywhere but where it is off by design. It is off for
`BleSession`: when the counted starts and requests are spent and the worker has exited, an
idle client is a stop of the model and not of the program. That nothing is stuck before is
what `StopEnds` and `JoinEnds` say.

## 6. What is proved

TLAPS proves these for every value of the constants that satisfies the named assumptions of
the modules (`ConnsAssumption`, `SizesAssumption`, `SocketAssumption`, `CoyoteAssumption`,
`LinkAssumption`, `FrontEndAssumption`, `GesturesAssumption`, `SettingsAssumption`,
`FeedAssumption`, `WritesAssumption`, `ProbeAssumption`, `OneKeyAssumption`, `BleAssumption`,
`LogAssumption`, `FramesAssumption`: sizes are positive naturals, an upload fits into the ring, client slots are
searched in some order without repetition, requests are integers, defaults lie in their
ranges and keep the relations, the ceilings, values and uploads asked for are ones the API
takes, handles are searched for again after more than one quiet poll, which 120 is; none of the state-space bounds
is needed).

* `NetServerProofs!TypeCorrect`: `Spec => []TypeOK`. The content is the ring: `DropType` and
  `PushType` show that head and count stay within a ring of any size.
* `NetServerProofs!PairingIsSound`: `Spec => []PairingSound`, for any finite set of
  connections and any number of slots. `TypeOK /\ PairingSound` is inductive; `AttachSound` and
  `DetachSound` are the two steps with something to count, by the cardinality theorems.
* `NetServerProofs!ServerImplementsPairing`: `Spec => ImplementsPairing`. Every step maps to
  `Open`, `Take`, `Release`, `Close` or a stutter under the phase and holder read off the slots.
  It needs that somebody is bound only while the server is open (`BoundOpenInductive`):
  without it a stopped server could be followed by a release.
* `NetServerProofs!ServerImplementsStreams`: `Spec => ImplementsStreams`. The refinement maps
  a ring to the sequence of slots that wait in it. That is always a run of consecutive
  numbers that ends before the next one (`Holds`, `RingsHold`), because slots are numbered as
  they come. So the effect of a call on the sequence is arithmetic: a push with the drop it may
  need is "append, and keep the newest" (`PushHolds`, `RunNewest`), a batch takes a prefix. No
  induction over the sequence is needed.
* `NetServerProofs!GesturesUnmixed`: `Spec => []GesturesMixOnlyWhenWiped`. `GestureInv` says per
  channel that nothing that waits is older than the newest Replace, and that an App that can be
  written to and is not owed a clear plays nothing older either, unless a stranger wiped the
  queues. The clear that a pump to a broken connection forgets does no harm, because that
  connection never gets another slot.
* `NetSocketProofs!TypeCorrect`, `StopLeavesNothing`, `DescriptorsAreOwned` and
  `StacksAreReleased`: `Spec => []` of `TypeOK`, `NothingLeft`, `OwnDescriptor` and
  `StacksReleased`, for any number of client slots and descriptors, as long as the IPC thread
  is the only one that starts and stops the server (`OneCaller`, which the power state thread of section 7 breaks).
  None of them is inductive alone. `SocketInv` adds what ties the threads' places together:
  `AcceptorInv` (the slot the accept thread found free stays free, and nobody else can join
  its last thread), `SlotInv` (a slot is taken exactly while its thread runs, and a thread that has
  exited is still to be joined by somebody), `AttachedInv` (the core only has connections whose
  thread will detach them) and `StopInv` (a stop has every thread that is left on its list,
  although the slots' handles stay valid while it joins). `FirstIn` is the lemma that a search
  in the code's order finds a member; it uses the least element of a set of naturals.
* `NetSocketProofs!FramesAreRead`: `WsSpec => []WsInv`, for any frames, lengths, limits and number of
  frames. `WsInv` says that for some `n` the reader has read the first `n` frames and no more
  (`ReadTo`): none of them ends the connection; what they mean is what the core and the App
  have got (`Handed`); the message in hand is what there is of the one that is open after them
  (`InHand`); and the receive buffer followed by the bytes on their way is the rest of the frames
  (`LaidOut`), behind the request while the handshake lasts (`AfterRequest`). It is the last
  part that makes the cuts of the stream not matter: a read moves bytes from one side to the
  other, and a whole frame in the buffer is frame `n + 1`. The rest are lemmas on the meaning,
  which is stated without a fold so that they can be proved: a set of places put in order
  grows at its end when a later place joins (`InOrderLast`, `InOrderPieces`), so one frame more
  adds one message, one ping or nothing (`RowOneMore`, `MessagesOneMore`, `DataOneMore`), and what
  the frames before it mean stays as it was (`MeaningGrows`).
* `NetSocketProofs!ReaderImplementsStreams`, `OnlyWrongEnds`: `WsSpec => ImplementsStreams` and
  `WsSpec => []OnlyWrongIsDropped`. Both follow from `WsInv`: a frame that is read is the next
  entry of the meaning (`FrameHanded`), what the App sends later only makes the two rows longer
  (`AppSendsStep`), and a frame the code turns away is the first that is wrong
  (`OnBadFrameKeeps`, `RefusesKeeps`).
* `NetSocketProofs!BuffersAreEnough`, `ReaderTypeCorrect`: `WsSpec => []BuffersHold` and
  `WsSpec => []WsTypeOK`. A read never asks for more than a frame of the largest size, the
  handshake for more than its own limit, and `TooLong` keeps the message within its buffer. No
  run lists these two: a message that outgrew its buffer would break `ImplementsStreams` there.
* `CoyoteProofs!TypeCorrect`: gate, session, packets, link and device keep their types for
  any strength range, sequence range, packet size and interval. The steps are lemmas about the
  functions of `Coyote` (`PacketType`, `ApplyType`, `TickType`, `DeviceType`, ...).
* `CoyoteProofs!AtMostOneInFlight`: `Spec => []OneInFlight`, for any number of losses and turns
  of the wheel. `OneInFlight` is not inductive: that the gate waits says nothing about the packet
  built next. `InFlightInv` adds `GateSound`: the gate waits exactly while it has a number in
  flight, which is the last number given out, and only if feedback is required. A gate that
  waits builds plain packets only, and a gate that does not has nothing numbered on either
  queue, so the next number goes out alone.
* `CoyoteProofs!NoRequestForgotten`: `Spec => []NothingForgotten`. The property adds up the packets
  on the link with a fold of the library, which is a recursive function on sets of places.
  `FoldsExist` builds that function by induction over the number of places, and lemmas on it
  say what the sum does when a packet joins at the end or leaves at the head. Induction over
  naturals is stated once, for a set of numbers (`EveryNumber`). The packet step is
  `PacketCarries`: it takes along nothing, the zero, or all that is pending, and the gate
  keeps the rest. `IdleLedger` adds that without a connection nothing is owed or on its way.
* `BleSessionProofs!BleType`, `EndIsCapped`, `StatusIsExact`: `Spec => []` of `TypeOK`, `CappedAtEnd`
  and `LedgerExact`, for any ranges, ceilings, queue length, requests, runs and schedules. Four
  folds meet here: staged strengths (`ApplyFold`) and uploads (`UploadFold`) over the session,
  notifications over the gate (`HeardFold`) and the packets that will arrive at the device
  (`DeviceFold`); each becomes a function from positions to intermediate states that later
  steps take apart (`Stepwise`). `CapsAtEnd` is
  `CappedAtEnd` from the moment the closing pump starts. `Ledger` says of a session that
  streams that its strength is what the device will have once the link is empty (`Arrived`), plus
  what the gate owes, and lies under the ceilings. The last part is not in the property and
  is needed: without it the device could clip a change that is on its way. `Fresh` gives the
  start: a session that has not reached its device shows 0.
* `BleSessionProofs!LogsAreSound`, `PagesShowTheLog`: `LogsSpec => []LogsInv` and
  `LogsSpec => []LinesAreTheLog`, for rings, chunks, polls and scrollbacks of any size. `LogsInv` has
  two layers. `RingSound`: the cells hold the last units written, and every line begun has its end
  in the log, at most `LineMax` units on (`Ended`). `ReaderSound`: what a page holds when it
  has taken the log up to its cursor is in order, below the cursor, and each line that is not
  torn is one whole line of the log; the half line it is putting together reaches from the end
  of a line to the cursor (`Runs`), unless the ring moved on under it.

* `FrontEndProofs!FrontEndType`, `SleepIsRestored`, `RowIsSent`, `StreamEnds`: `Spec => []` of
  `TypeOK`, `SleepRestored`, `RowWasSent` and `StreamEndsWithPage`, for any range of strengths.
  The row is a matter of the functions that move it (`ToldSent`, `AdjustSent`, `ClampSent`,
  `RepeatSent`). `SleepRestored` speaks of the closed program only; the strengthening says what
  `auto_sleep.c` keeps at any time: the flag differs from how it was found only while it is
  noted as ours, or a call to restore it has failed. `StreamEndsWithPage` needs that only a
  gameplay page starts a stream.
* `FrontEndProofs!RowsAgreeWithSession`: `Spec => []RowsAgreeOnceMet`. `LimitKnown` ties what the page
  remembers to what the session was told: a page that has polled shows the file's limit, a
  session the page started was told that limit, and one that was met since is at the pair the
  page keeps. It holds of a session that was met only; `RowsAgree` of section 7 is what fails
  before.
* `GesturesProofs!SettingsStaySound`: `Spec => []RelationsHold`, for any ranges and defaults
  that are sound, and any file, "nan" included. What it says of such a file is what the code
  does: the pairs stay in order (nothing is less than nan), and a row is outside of its range
  only while "nan" was read for it or for the row above it. `FixKeeps` is the heart: putting a
  pair right after one row was set keeps the other row in its range, unless that one row is out
  of its own; so the invariant holds between the lines of a load too. The arithmetic of the
  model knows `NaN` by the assumption that it is no integer.
* `GesturesProofs!HalfFollowsFinger`, `LivingHandleKept`: `Spec =>` the action properties
  `FollowsLiveFinger` and `LivingKeepsHandle`, for frames of any number of readings and any limits. The
  first is `PickOwner` alone: fingers down and fingers that just went down decide, whatever the
  order of the readings. The second needs the type of the sides and that a rescan takes more than
  one quiet poll; with a limit of one, a poll that finds both silent would take the handle of a
  controller that delivered in the poll before.
* `NetWritesProofs!LocksAreOrdered`: `Spec => []LockOrder`, for any number of slots, descriptors
  and frames, whichever sends fail or never return. `LockOrder` speaks of the step a thread is
  at; what it is at next is what it has on its list. `Orderly` adds the shape of the lists: a
  write under the transport lock is followed by its release, a send by the next send of the
  frame or the release of its lock (`Apt`), the owner of a lock is at one of these steps
  (`HolderWrites`, `HolderSends`), and a connection thread only writes to its own slot.
  `AptTail` and `AptJoin` carry the shape over to what an action makes of a list.
* `NetWritesProofs!FramesAreWhole`, `CoreIsHeard`: `Spec => []WholeFrames` and
  `Spec => []NothingLost`, for any room in the queues, without a premise on when a slot or a
  number is handed out again. Both leave out the connections in `inherited`, for which
  `OwnFramesOnly` of section 7 fails, and show that no other connection is spoiled. Four
  layers lie on `Orderly`. `Books` counts: connections are numbered as they come, each slot has
  one of its own, and the number of a connection that is up belongs to it. `Sends` says that a
  send on its way goes to its own connection or to an inherited one. `Streams` says of each
  other connection that is up that its wire, what the thread with the frame lock is about to put
  there, and what is queued are whole frames with no unit in common, but for payloads that
  found the queue full; for a thread between header and payload that is a statement about two
  entries of its list (`Phase`). `Speeches` says in the same four cases that those three, in a
  row, tell all the core said but what found the queue full, in order, and that what a thread
  answers itself is none of it. `NothingLost` is stated without a fold, as two relations on the
  row of units: every unit of the core's frames is in it or in `lost`, and any two of them are
  in order.
* `OneKeyProofs!NothingLeftOpenAlways`, `CappedAtDisconnectAlways`: `Spec => []` of
  `NothingLeftOpen` and `CappedAtDisconnect`, for any devices and attempts. The first speaks of
  the worker between probes and of the place where btdrv is open beside btm; `HeldByPlace` says
  for every place what it may hold there, and that every scan that runs beyond it is one whose
  stop was refused. The second is inductive: only the end of the last phase leads to the place
  it speaks of.
* `OneKeyProofs!OneKeyType`, `TargetIsKept`: `Spec => []` of `TypeOK` and `TargetKept`: while a
  run has a target, its btm probe holds that address from the first connect to the disconnect.
  `TargetByRun` adds what comes before: a probe begins without an address, the scans report the
  target or nothing, and the worker is there exactly while a run is, so nothing but a start,
  which reads the file, sets the target of a run that has ended. That the manager may hand the
  probe the handle of another device is not in it (section 7, the first connection of the list).

Every invariant, action property and refinement that a passing run checks is stated by one of
these theorems. Only model-checked is liveness, as fairness and `ENABLED` are outside what the
prover can do: `Flushed`, `ZeroDelivered`, `StopEnds`, `JoinEnds`, `IpcReturns`, `QueuesDrain`,
`EverythingArrives`, `SequenceEnds`, `CatchesUp`, `SleepFollows` and `EndsStill`.

No module uses RECURSIVE operators.

## 7. Where the code and its documents disagree

One disagreement is a run: `settings_reload`. `frequency_fast_ms` comes before
`frequency_still_ms` in the file and each is put right against what the configuration holds so
far, which is the default, so a saved pair above it is not loaded as it was saved
(`motion_settings.c:382`).

The others were found with TLC as well. Each can be reproduced by checking the property named
with the constants of the module's `.cfg`, changed as the table says.

| module, property | change | what happens |
|---|---|---|
| `NetServer`, `PairedWhileBound` | | a "break" from a connection that had lost its binding earlier resets the status of its successor (`net_server.c:509-515`) |
| `NetServer`, `NoMixedGestures` | `SlotBudget <- MCReplaceBudget`, three uploads on A | `Detach` empties both queues and forgets the owed clear whoever leaves (`net_server.c:417`); the bound App plays old and new slots as one gesture |
| `NetSocket`, `IdleStopSparesClients` | | the tick thread marks an idle server, and the next IPC call stops it even if an App has connected in between (`net_socket.c:1138`, `1145-1160`) |
| `CoyoteLink`, `ZeroIsNotLost` | `MaxTurns = 0`, `MaxLosses = 0` | the gate waits without a limit, and a change that changes nothing is never confirmed: a decrease at 0 keeps the zero behind it waiting (`coyote_v3_strength.c:96`) |
| `BleSession`, `ActiveWhileRunning` | `MaxStarts = 2`, `MaxRequests = 0` | a refused start leaves its request for 300 ms where a diagnostics run finds it; that run streams with no session active (`ble_poc.c:3746`) |
| `BleSession`, `StrengthReached` | | the status is clamped and the gate is not, so they part after a decrease at 0 (`ble_poc.c:1377`) |
| `BleSession`, `ZeroedAtEnd` | | after a stop the closing pump returns at once; ceilings of 0 are written and the zero is not (`ble_poc.c:1439`); `CappedAtEnd` shows what does protect the device |
| `NetWrites`, `OwnFramesOnly` | | a thread closes its descriptor before it clears it in its slot; a flush in between sends to the connection that got the number next (`net_socket.c:788`) |
| `NetWrites`, `IpcUnparked` | `RescuedSpec` | a send that never returns keeps its frame lock, a write of the core waits for that one under the transport lock, and the IPC thread for the transport lock, although `net_socket.c:109-112` says it cannot be parked; the mark the tick thread leaves before it waits too hides the send from the watchdog |
| `NetWrites`, `NeverFull` | `MaxFrames <- MCThreeFrames`, `TxRoom = 5` | a connection thread does not flush what the core answers, and frames pile up until a tick or a call takes them; the payload of the third is dropped, success is returned, and its header goes out (`net_socket.c:681-686`) |
| `NetWrites`, `RefusalIsSent` | | an App that is turned away is told so through the queue, and its thread closes the connection without a flush (`net_server.c:359`) |
| `Gestures`, `MalformedLeavesRow` | | "nan" passes `strtod` and both comparisons of `clampf`; a scaled row keeps it, and a row of milliseconds becomes 0 and takes the row under it along (`motion_settings.c:365-374`) |
| `OneKeyProbe`, `FoundIsUsed` | | `address_discovered` is never taken back while a start reads the target from the file again: once the file could not be written, later runs recognise nothing (`ble_poc.c:2519`) |
| `OneKeyProbe`, `ScanIsStarted` | | the loop that starts a scan has a condition that is false when it is reached; the results polled are those of no scan (`ble_poc.c:2926`) |
| `FrontEnd`, `RowsAgree` | | the frame that starts a session forgets the ceilings it told it, and a page left and reopened adopts the file's without a `BLE_LIMIT` (`main.c:2004`) |
| `LogRing`, `UnreadSurvives` | | a start moves `log_valid_from` past what nobody has read, which its comment says it does not (`ble_poc.c:3855`) |
| `LogRing`, `FirstLineIsWhole` | | a page with half a line of the last run puts the first line of the new one behind it (`ble_poc.c:3943`) |

Seen while reading, without a property: the re-arm opens the gate but does not ask for the
zero again, as its comment says it does (`ble_poc.c:980`); a stop by the power state thread
during a stop by the IPC thread clears `running` while the accept thread still loops
(`net_socket.c:994`, reachable only where the system accepts the power state watch); an App
that only pings looks silent (`net_socket.c:757`); the Clear of a page that is left is
answered with success and ignored by a BLE session (`main.c:1449`); a swing that ends within
its own window is not sent (`motion_feed.c:207`); `idle_stop_ms` changes nothing
(`motion_feed.h:16`); a save that fails brings the defaults back (`main.c:1104`); the probe
takes the first connection of the manager's list (`ble_poc.c:3225`) and keeps the handles of
the last device (`ble_poc.c:3439`).

## 8. What is not modelled

* Byte layouts (B0, BF, B1, JSON envelopes, WebSocket headers) and the frequency compression.
  They are functions without state that golden tests in `tests/` cover.
* SHA-1, base64 and the headers of the handshake (a handshake is accepted or not); unpacking of
  IPC requests; drawing, fonts, QR code, framebuffer, language files and JSON.
* Counters, and the mirror of the log on the card, which has the lines of the scrollback. A
  page of the log shows a line cut to its width and the file has all of it.
* In `NetServer`: strength and test pulse commands and what the App reports about itself,
  which do not touch the modelled state.
* In `NetSocket`: the power state thread, a second caller of start and stop. It is the premise
  of the proofs (`OneCaller`) that there is none; section 7 has what it breaks. `NetWrites` and
  `NetSocket` are two views of one file: threads and descriptors there, locks, queues and bytes
  here.
* In `BleSession`: the contents of waveforms (an upload is a set of channels and a length).
* In `ProbeWorker`: what the probes print (advertisements, descriptors, register words); which
  of the manager's attribute calls is refused (reading the table works or not).
* In `FrontEnd`: the second channel, which takes the same steps, more than one key a frame, the
  about page, language and theme. Only the channel limit of the parameters is used there.
* In `Gestures`: twelve of the sixteen rows, which are clamped and nothing more; the second feed;
  the frequency and density of a slot; the vector arithmetic of a sample, whose result is any
  intensity; rounding, so the envelope is integers that halve, and a value is a count of
  steps. The readings of sensors and panel are external; which of several handles of a side
  delivers is not.

## 9. Plan

Done in this order: `NetServer` with `Pairing` and `SlotStream`, `Coyote`, `CoyoteLink`,
`BleSession`, `NetSocket`, `NetWrites`, `WsFrames` with `MessageStream`, `ProbeWorker` and
`OneKeyProbe`, `AutoSleep` and `FrontEnd`, the feeds with `Gestures`, `LogRing`. Left:

1. `NetSleep`: `NetSocket` with the power state thread as a second caller
   (`net_socket.c:960-1016`), once the code decides who may stop what.
2. `NET_SEND` and what the App reports in `NetServer`; contents of uploads in `BleSession`
   (`ble_poc.c:1597`).
3. A composition of the two views of `net_socket.c`: that `NetSocket` and `NetWrites` agree on
   the life of a connection.
