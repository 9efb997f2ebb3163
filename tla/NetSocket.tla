------------------------------ MODULE NetSocket ------------------------------
(***************************************************************************)
(* The threads and sockets under the server core (net_socket.c): starting  *)
(* and stopping from the IPC thread, the accept, tick and connection       *)
(* threads, and the idle stop.  A step is what one thread does under the   *)
(* transport lock, or one call it makes outside it.  What the core does    *)
(* with a connection is module NetServer's; here it takes a connection or  *)
(* refuses it.  Descriptors are numbers the kernel hands out again once    *)
(* they are closed.                                                        *)
(***************************************************************************)
EXTENDS Integers, FiniteSets, SequencesExt

CONSTANTS
  SlotList,     \* the client slots, in the order they are searched
  Fds,          \* descriptors of connections
  None,         \* no descriptor
  Callers       \* the threads that start and stop the server: "ipc", the IPC thread

Slots == ToSet(SlotList)
Threads == {"accept", "tick"} \cup Slots

ASSUME SocketAssumption ==
  /\ SlotList \in Seq(Slots) /\ SlotList # <<>> /\ IsInjective(SlotList)
  /\ Slots \cap {"accept", "tick"} = {}
  /\ None \notin Fds /\ None \notin Slots /\ "ipc" \in Callers

VARIABLES
  net,        \* g_net: running, stopping, idlePending
  status,     \* status.state of the core (Paired counts as Listening)
  listen,     \* the listening socket: "none", "open" or "shut"
  valid,      \* threads whose Thread has to be joined (accept_valid, tick_valid, thread_valid)
  slot,       \* the client slots: fd and active
  attached,   \* slots whose connection the core took (status.clients counts them)
  aged,       \* last_activity_ms is more than NET_IDLE_STOP_MS ago
  thread,     \* every Thread: "free" (released), "live" or "exited" (external)
  acceptor,   \* the accept thread: where it is, the connection and the slot in its hands
  ticker,     \* where the tick thread is
  client,     \* per slot: where its thread is
  call,       \* per caller: where its start or stop is, and what the stop has seen
  open,       \* descriptors in use (external)
  hung,       \* ... those a reader no longer blocks on (external)
  leaked      \* a thread was created on a stack that was not released

vars == <<net, status, listen, valid, slot, attached, aged, thread, acceptor, ticker,
          client, call, open, hung, leaked>>

\* The first of some threads in the order the code goes through them.
Order == <<"accept", "tick">> \o SlotList
First(S) == Order[CHOOSE i \in DOMAIN Order :
                    Order[i] \in S /\ \A j \in 1..(i - 1) : Order[j] \notin S]

Idle == [at |-> "idle", next |-> "return", todo |-> {}, fds |-> {}]
Looping == [at |-> "looping", fd |-> None, slot |-> None]

Init ==
  /\ net = [running |-> FALSE, stopping |-> FALSE, idlePending |-> FALSE]
  /\ status = "Idle" /\ listen = "none" /\ valid = {} /\ attached = {} /\ aged = FALSE
  /\ slot = [s \in Slots |-> [fd |-> None, active |-> FALSE]]
  /\ thread = [t \in Threads |-> "free"]
  /\ acceptor = Looping /\ ticker = "looping" /\ client = [s \in Slots |-> "handshaking"]
  /\ call = [c \in Callers |-> Idle]
  /\ open = {} /\ hung = {} /\ leaked = FALSE

Spawn(t) == thread' = [thread EXCEPT ![t] = "live"] /\ leaked' = (leaked \/ thread[t] # "free")
Exit(t) == thread' = [thread EXCEPT ![t] = "exited"]

\* netJoinThread: it waits for the thread and releases it; a released one is an error at once.
Join(t) == thread[t] # "live" /\ thread' = [thread EXCEPT ![t] = "free"]

\* Mutant: the descriptor is only forgotten.
ForgetFd(fd) == hung' = hung \ {fd} /\ UNCHANGED open

CloseFd(fd) == open' = open \ {fd} /\ hung' = hung \ {fd}

-----------------------------------------------------------------------------
(* The accept thread. *)

Accepting(at) == thread["accept"] = "live" /\ acceptor.at = at
callVars == <<net, status, listen, ticker, call>>

AcceptLoops ==
  /\ Accepting("looping")
  /\ IF net.stopping THEN Exit("accept") /\ UNCHANGED acceptor
     ELSE acceptor' = [acceptor EXCEPT !.at = "polling"] /\ UNCHANGED thread
  /\ UNCHANGED <<callVars, valid, slot, attached, aged, client, open, hung, leaked>>

\* poll() and accept(); a connection counts as activity.
AcceptPolls ==
  /\ Accepting("polling")
  /\ \/ /\ acceptor' = Looping /\ UNCHANGED <<open, hung, aged>>
     \/ /\ listen = "open"
        /\ \E fd \in Fds \ open :
             acceptor' = [at |-> "picking", fd |-> fd, slot |-> None] /\ open' = open \cup {fd}
        /\ aged' = FALSE /\ UNCHANGED hung
  /\ UNCHANGED <<callVars, valid, slot, attached, thread, client, leaked>>

FreeSlots == {s \in Slots : ~slot[s].active}
FirstFree == First(FreeSlots)

\* Mutant: the last thread of the slot is not waited for.
StraightOn(s) == "installing"

\* A slot whose last thread was never joined has it joined first.
AfterPicking(s) == IF s \in valid THEN "joining" ELSE "installing"

\* netStartClient, first half: a slot without a connection, whose last thread is to be joined.
AcceptPicks ==
  /\ Accepting("picking")
  /\ IF FreeSlots = {}
     THEN acceptor' = Looping /\ CloseFd(acceptor.fd) /\ UNCHANGED valid
     ELSE /\ acceptor' = [acceptor EXCEPT !.slot = FirstFree, !.at = AfterPicking(FirstFree)]
          /\ valid' = valid \ {FirstFree}
          /\ UNCHANGED <<open, hung>>
  /\ UNCHANGED <<callVars, slot, attached, aged, thread, client, leaked>>

AcceptJoins ==
  /\ Accepting("joining") /\ Join(acceptor.slot)
  /\ acceptor' = [acceptor EXCEPT !.at = "installing"]
  /\ UNCHANGED <<callVars, valid, slot, attached, aged, client, open, hung, leaked>>

\* ... second half: a stopping server or a failing thread turns the connection away.
AcceptInstalls ==
  /\ Accepting("installing") /\ acceptor' = Looping
  /\ \/ /\ CloseFd(acceptor.fd) /\ UNCHANGED <<slot, valid, client, thread, leaked>>
     \/ /\ ~net.stopping /\ Spawn(acceptor.slot)
        /\ slot' = [slot EXCEPT ![acceptor.slot] = [fd |-> acceptor.fd, active |-> TRUE]]
        /\ valid' = valid \cup {acceptor.slot}
        /\ client' = [client EXCEPT ![acceptor.slot] = "handshaking"]
        /\ UNCHANGED <<open, hung>>
  /\ UNCHANGED <<callVars, attached, aged>>

Acceptor == AcceptLoops \/ AcceptPolls \/ AcceptPicks \/ AcceptJoins \/ AcceptInstalls

-----------------------------------------------------------------------------
(* The tick thread. *)

TickLoops ==
  /\ thread["tick"] = "live" /\ ticker = "looping"
  /\ IF net.stopping THEN Exit("tick") /\ UNCHANGED ticker
     ELSE ticker' = "checking" /\ UNCHANGED thread
  /\ UNCHANGED <<net, status, listen, valid, slot, attached, aged, acceptor, client, call,
                 open, hung, leaked>>

\* netCheckIdle; the poll that follows it is NetServer's.
TickChecks ==
  /\ thread["tick"] = "live" /\ ticker = "checking" /\ ticker' = "looping"
  /\ IF ~net.running THEN UNCHANGED <<net, aged>>
     ELSE IF attached # {} THEN aged' = FALSE /\ UNCHANGED net
     ELSE net' = [net EXCEPT !.idlePending = net.idlePending \/ aged] /\ UNCHANGED aged
  /\ UNCHANGED <<status, listen, valid, slot, attached, thread, acceptor, client, call,
                 open, hung, leaked>>

\* NET_IDLE_STOP_MS pass without activity; a handshake gives up long before.
TimePasses ==
  /\ net.running /\ ~aged /\ aged' = TRUE
  /\ acceptor.fd = None
  /\ \A s \in Slots : thread[s] = "live" => client[s] # "handshaking"
  /\ UNCHANGED <<net, status, listen, valid, slot, attached, thread, acceptor, ticker,
                 client, call, open, hung, leaked>>

-----------------------------------------------------------------------------
(* The thread of a connection. *)

Serving(s, at) == thread[s] = "live" /\ client[s] = at
GoesTo(s, at) == client' = [client EXCEPT ![s] = at]

\* The handshake fails or times out, or the core takes the connection or refuses it.
ClientShakes(s) ==
  /\ Serving(s, "handshaking")
  /\ \/ GoesTo(s, "detaching") /\ UNCHANGED attached
     \/ GoesTo(s, "serving") /\ attached' = attached \cup {s}
  /\ UNCHANGED <<callVars, valid, slot, aged, thread, acceptor, open, hung, leaked>>

\* The read ends: the peer left, or somebody shut the socket down.
ClientLeaves(s) ==
  /\ Serving(s, "serving") /\ slot[s].fd \in hung
  /\ GoesTo(s, "detaching")
  /\ UNCHANGED <<callVars, valid, slot, attached, aged, thread, acceptor, open, hung, leaked>>

ClientDetaches(s) ==
  /\ Serving(s, "detaching") /\ GoesTo(s, "closing")
  /\ attached' = attached \ {s}
  /\ UNCHANGED <<callVars, valid, slot, aged, thread, acceptor, open, hung, leaked>>

ClientCloses(s) ==
  /\ Serving(s, "closing") /\ GoesTo(s, "clearing")
  /\ CloseFd(slot[s].fd)
  /\ UNCHANGED <<callVars, valid, slot, attached, aged, thread, acceptor, leaked>>

Cleared(s) == [slot EXCEPT ![s] = [fd |-> None, active |-> FALSE]]

\* The last step of the thread.
ClientClears(s) ==
  /\ Serving(s, "clearing") /\ Exit(s)
  /\ slot' = Cleared(s)
  /\ UNCHANGED <<callVars, valid, attached, aged, acceptor, client, open, hung, leaked>>

Client(s) == \/ ClientShakes(s) \/ ClientLeaves(s) \/ ClientDetaches(s)
             \/ ClientCloses(s) \/ ClientClears(s)

PeerLeaves ==
  /\ \E fd \in open \ hung : hung' = hung \cup {fd}
  /\ UNCHANGED <<callVars, valid, slot, attached, aged, thread, acceptor, client, open, leaked>>

-----------------------------------------------------------------------------
(* Starting and stopping. *)

At(c, at) == call[c].at = at
To(c, at) == call' = [call EXCEPT ![c].at = at]
threadVars == <<aged, acceptor, ticker, client>>

\* An IPC call first applies a stop the tick thread asked for.
Calls(next) ==
  /\ At("ipc", "idle")
  /\ net' = [net EXCEPT !.idlePending = FALSE]
  /\ call' = [call EXCEPT !["ipc"] = [Idle EXCEPT
       !.at = IF net.idlePending THEN "snapping" ELSE IF next = "start" THEN "starting" ELSE "idle",
       !.next = IF next = "start" THEN "start" ELSE "query"]]
  /\ UNCHANGED <<status, listen, valid, slot, attached, threadVars, thread, open, hung, leaked>>
IpcStarts == Calls("start")
IpcQueries == net.idlePending /\ Calls("query")

IpcStops ==
  /\ At("ipc", "idle") /\ call' = [call EXCEPT !["ipc"] = [Idle EXCEPT !.at = "snapping"]]
  /\ UNCHANGED <<net, status, listen, valid, slot, attached, threadVars, thread, open, hung,
                 leaked>>

\* dglabNetSocketStart: the socket, the accept thread or the tick thread may fail.
Start(c) ==
  /\ At(c, "starting") /\ call' = [call EXCEPT ![c] = Idle]
  /\ \/ /\ net.running
        /\ UNCHANGED <<net, status, listen, valid, thread, threadVars, leaked>>
     \/ /\ ~net.running /\ status' = "Failed"
        /\ net' \in {net, [net EXCEPT !.stopping = FALSE]}
        /\ aged' \in {aged, FALSE}
        /\ UNCHANGED <<listen, valid, thread, acceptor, ticker, client, leaked>>
     \/ /\ ~net.running /\ status' = "Failed" /\ listen' = "shut"
        /\ net' = [net EXCEPT !.running = TRUE, !.stopping = TRUE]
        /\ valid' = valid \cup {"accept"} /\ Spawn("accept")
        /\ acceptor' = Looping /\ aged' = FALSE /\ UNCHANGED <<ticker, client>>
     \/ /\ ~net.running /\ status' = "Listening" /\ listen' = "open"
        /\ net' = [net EXCEPT !.running = TRUE, !.stopping = FALSE]
        /\ valid' = valid \cup {"accept", "tick"}
        /\ thread' = [thread EXCEPT !["accept"] = "live", !["tick"] = "live"]
        /\ leaked' = (leaked \/ thread["accept"] # "free" \/ thread["tick"] # "free")
        /\ acceptor' = Looping /\ ticker' = "looping" /\ aged' = FALSE /\ UNCHANGED client
  /\ UNCHANGED <<slot, attached, open, hung>>

\* Where a caller goes on when its stop is over.
Return(c) ==
  call' = [call EXCEPT ![c] = [Idle EXCEPT
    !.at = IF call[c].next = "start" THEN "starting" ELSE "idle"]]

\* Mutant: the threads of the connections are left to themselves.
OwnThreads == valid \ Slots

\* The threads a stop has to join.
ToJoin == valid

\* Mutant: only the listening socket is woken.
NoDescriptors == {}

\* The descriptors a stop has to wake.
ToWake == {slot[s].fd : s \in valid \cap Slots} \ {None}

\* dglabNetSocketStop: what there is to join and to wake, under the lock.
Snapshot(c) ==
  /\ At(c, "snapping")
  /\ IF net.running
     THEN /\ net' = [net EXCEPT !.stopping = TRUE]
          /\ valid' = valid \ {"accept", "tick"}
          /\ call' = [call EXCEPT ![c] = [@ EXCEPT !.at = "waking", !.todo = ToJoin, !.fds = ToWake]]
     ELSE Return(c) /\ UNCHANGED <<net, valid>>
  /\ UNCHANGED <<status, listen, slot, attached, threadVars, thread, open, hung, leaked>>

\* The close frames go out and the sockets are shut down.
Wake(c) ==
  /\ At(c, "waking") /\ To(c, "joining")
  /\ listen' = IF listen = "open" THEN "shut" ELSE listen
  /\ hung' = hung \cup (call[c].fds \cap open)
  /\ UNCHANGED <<net, status, valid, slot, attached, threadVars, thread, open, leaked>>

JoinNext(c) ==
  /\ At(c, "joining") /\ call[c].todo # {}
  /\ Join(First(call[c].todo))
  /\ call' = [call EXCEPT ![c].todo = @ \ {First(@)}]
  /\ UNCHANGED <<net, status, listen, valid, slot, attached, threadVars, open, hung, leaked>>

Finish(c) ==
  /\ At(c, "joining") /\ call[c].todo = {} /\ Return(c)
  /\ net' = [net EXCEPT !.running = FALSE, !.stopping = FALSE]
  /\ status' = "Stopped" /\ listen' = "none" /\ attached' = {}
  /\ slot' = [s \in Slots |-> [fd |-> None, active |-> FALSE]] /\ valid' = valid \ Slots
  /\ UNCHANGED <<threadVars, thread, open, hung, leaked>>

Caller(c) == Start(c) \/ Snapshot(c) \/ Wake(c) \/ JoinNext(c) \/ Finish(c)

Next ==
  \/ Acceptor \/ TickLoops \/ TickChecks \/ TimePasses \/ PeerLeaves
  \/ \E s \in Slots : Client(s)
  \/ \E c \in Callers : Caller(c)
  \/ IpcStarts \/ IpcQueries \/ IpcStops

Spec == Init /\ [][Next]_vars

\* Every thread is scheduled; nobody has to call, to connect or to leave.
FairSpec ==
  /\ Spec /\ WF_vars(Acceptor) /\ WF_vars(TickLoops \/ TickChecks)
  /\ \A s \in Slots : WF_vars(Client(s))
  /\ \A c \in Callers : WF_vars(Caller(c))

-----------------------------------------------------------------------------
(* Properties *)

Acceptors == [at : {"looping", "polling", "picking", "joining", "installing"},
              fd : Fds \cup {None}, slot : Slots \cup {None}]
ClientPlaces == {"handshaking", "serving", "detaching", "closing", "clearing"}
CallTypes == [at : {"idle", "starting", "snapping", "waking", "joining"},
              next : {"return", "query", "start"},
              todo : SUBSET Threads, fds : SUBSET Fds]

\* Types; a slot is taken exactly while it has a descriptor, and a listening socket
\* exists exactly while the server runs.
TypeOK ==
  /\ net \in [running : BOOLEAN, stopping : BOOLEAN, idlePending : BOOLEAN]
  /\ status \in {"Idle", "Listening", "Stopped", "Failed"}
  /\ listen \in {"none", "open", "shut"} /\ (listen # "none" <=> net.running)
  /\ valid \subseteq Threads /\ attached \subseteq Slots /\ aged \in BOOLEAN
  /\ slot \in [Slots -> [fd : Fds \cup {None}, active : BOOLEAN]]
  /\ \A s \in Slots : slot[s].active <=> slot[s].fd # None
  /\ thread \in [Threads -> {"free", "live", "exited"}]
  /\ acceptor \in Acceptors
  /\ ticker \in {"looping", "checking"}
  /\ client \in [Slots -> ClientPlaces]
  /\ call \in [Callers -> CallTypes]
  /\ open \subseteq Fds /\ hung \subseteq open /\ leaked \in BOOLEAN

\* A server that is down has left nothing behind: no thread to release, no descriptor
\* and no attached connection, whatever connected, left or failed to start while it was
\* being stopped (net_socket.c:1374-1488, 784-796, 853-895).
NothingLeft ==
  ~net.running =>
    /\ \A t \in Threads : thread[t] = "free"
    /\ open = {} /\ attached = {} /\ valid = {}

\* The descriptors in use while a slot's thread has not closed its own.
Owns(s) == thread[s] = "live" /\ client[s] # "clearing"

\* A connection thread reads, writes and closes its own descriptor only: the slot still
\* has the number it was started with, it is open, and no other slot and not the accept
\* thread has it (net_socket.c:788-796, 846-873).
OwnDescriptor ==
  /\ \A s \in Slots : Owns(s) => slot[s].fd \in open /\ slot[s].fd # acceptor.fd
  /\ \A s, r \in Slots : Owns(s) /\ Owns(r) /\ slot[s].fd = slot[r].fd => s = r
  /\ open = {slot[s].fd : s \in {r \in Slots : Owns(r)}} \cup ({acceptor.fd} \ {None})

\* A thread is only created on a stack the last thread on it has handed back
\* (net_socket.c:839-851, 1438-1450; docs/dglab-socket.md:117-121).
StacksReleased == ~leaked

\* A stop ends, wherever the connections and the accept thread are when it comes
\* (net_socket.c:1429-1450).
StopEnds == \A c \in Callers : At(c, "waking") ~> ~At(c, "joining") /\ ~At(c, "waking")

\* net_socket.c:1116: "A server nobody connected to for a while puts itself away".  The
\* stop an IPC call applies for that reason finds no App.
IdleStopSparesClients ==
  At("ipc", "snapping") /\ call["ipc"].next \in {"query", "start"} => attached = {}
=============================================================================
