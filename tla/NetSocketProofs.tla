--------------------------- MODULE NetSocketProofs ---------------------------
(***************************************************************************)
(* Theorems about the transport's threads, for any number of client slots  *)
(* and of descriptors, where the IPC thread is the only one that starts    *)
(* and stops the server, and about what a connection thread reads, for any *)
(* frames, limits and number of frames.                                    *)
(***************************************************************************)
EXTENDS NetSocket, WsFrames, FiniteSetTheorems, SequenceTheorems, WellFoundedInduction, TLAPS

OneCaller == Callers = {"ipc"}

-----------------------------------------------------------------------------
(* The inductive invariant.  None of the properties is inductive alone: that a stop
   leaves nothing behind rests on what it took in its snapshot, that a stack is released
   on whose handle is in whose hands, and that descriptors are disjoint on both. *)

Stopping == call["ipc"].at \in {"waking", "joining"}

\* The accept thread has the handle of the slot's last thread in its hands.
Taken(t) == acceptor.at = "joining" /\ acceptor.slot = t

\* What the accept thread holds, and the slot it found free is still free.
AcceptorInv ==
  /\ acceptor.fd # None <=> acceptor.at \in {"picking", "joining", "installing"}
  /\ acceptor.slot # None <=> acceptor.at \in {"joining", "installing"}
  /\ acceptor.slot # None => ~slot[acceptor.slot].active /\ acceptor.slot \notin valid
  /\ acceptor.at = "installing" => thread[acceptor.slot] = "free"
  /\ thread["accept"] # "live" => acceptor = Looping

\* A slot is taken exactly while its thread runs, and no handle is forgotten.
SlotInv ==
  \A s \in Slots :
    /\ thread[s] = "live" <=> slot[s].active
    /\ thread[s] = "live" => s \in valid
    /\ thread[s] = "exited" => s \in valid \/ Taken(s)

\* The core only holds connections whose thread will detach them.
AttachedInv ==
  \A s \in attached : thread[s] = "live" /\ client[s] \in {"serving", "detaching"}

\* A stop under way has every thread that is left on its list, and no new one comes.
StopInv ==
  IF Stopping
  THEN /\ net.running /\ net.stopping /\ valid \subseteq Slots
       /\ \A t \in Threads : thread[t] # "free" => t \in call["ipc"].todo \/ Taken(t)
  ELSE \A t \in {"accept", "tick"} : thread[t] # "free" => t \in valid

SocketInv ==
  /\ TypeOK /\ AcceptorInv /\ SlotInv /\ AttachedInv /\ StopInv
  /\ OwnDescriptor /\ NothingLeft /\ StacksReleased

-----------------------------------------------------------------------------
(* The first of some threads is one of them: a non-empty set of places has a least one. *)
LEMMA FirstIn ==
  ASSUME NEW S \in SUBSET Threads, S # {}
  PROVE  First(S) \in S
<1> DEFINE Hits == {i \in DOMAIN Order : Order[i] \in S}
           less == {p \in Nat \X Nat : p[1] < p[2]}
<1>1. SlotList \in Seq(Slots) /\ \A s \in Slots : \E i \in 1..Len(SlotList) : SlotList[i] = s
  BY SocketAssumption DEF Slots, ToSet
<1>2. /\ DOMAIN Order = 1..(Len(SlotList) + 2) /\ Len(SlotList) \in Nat
      /\ Order[1] = "accept" /\ Order[2] = "tick"
      /\ \A i \in 1..Len(SlotList) : Order[i + 2] = SlotList[i]
  BY <1>1 DEF Order
<1>3. \A t \in Threads : \E i \in DOMAIN Order : Order[i] = t
  <2> TAKE t \in Threads
  <2>1. CASE t \in {"accept", "tick"}
    BY <1>2, <2>1
  <2>2. CASE t \in Slots
    <3>1. PICK i \in 1..Len(SlotList) : SlotList[i] = t
      BY <1>1, <2>2
    <3>2. i + 2 \in 1..(Len(SlotList) + 2)
      BY <1>2
    <3>3. QED
      BY <1>2, <3>1, <3>2
  <2>3. QED
    BY <2>1, <2>2 DEF Threads
<1>4. Hits # {} /\ Hits \subseteq Nat
  BY <1>2, <1>3
<1>5. \E i \in Hits : \A j \in Hits : ~ (<<j, i>> \in less)
  <2> HIDE DEF Hits, less
  <2>1. IsWellFoundedOn(less, Nat)
    BY NatLessThanWellFounded DEF less, OpToRel
  <2>2. QED
    BY <1>4, <2>1, WFMin
<1>6. PICK i \in Hits : \A j \in Hits : ~ (j < i)
  BY <1>4, <1>5
<1>7. \A j \in 1..(i - 1) : Order[j] \notin S
  <2> TAKE j \in 1..(i - 1)
  <2>1. j \in DOMAIN Order /\ j < i
    BY <1>2, <1>4
  <2>2. QED
    BY <1>6, <2>1
<1>8. \E k \in DOMAIN Order : Order[k] \in S /\ \A j \in 1..(k - 1) : Order[j] \notin S
  BY <1>6, <1>7
<1>9. QED
  BY <1>8 DEF First

-----------------------------------------------------------------------------
(* Typing. *)

(* The first free slot is a free slot. *)
LEMMA FreeIn == FreeSlots # {} => FirstFree \in FreeSlots
BY FirstIn DEF FirstFree, FreeSlots, Threads

(* A call that starts over somewhere. *)
LEMMA CallType ==
  ASSUME NEW at \in {"idle", "starting", "snapping", "waking", "joining"},
         NEW next \in {"return", "query", "start"}
  PROVE  /\ Idle \in CallTypes
         /\ [Idle EXCEPT !.at = at] \in CallTypes
         /\ [Idle EXCEPT !.at = at, !.next = next] \in CallTypes
BY DEF Idle, CallTypes

(* A stop that is over leaves a well-typed call. *)
LEMMA ReturnType ==
  ASSUME TypeOK, NEW c \in Callers, Return(c)
  PROVE  call' \in [Callers -> CallTypes]
BY CallType DEF TypeOK, Return

(* Types at the start. *)
LEMMA InitType == Init => TypeOK
<1> SUFFICES ASSUME Init PROVE TypeOK
  OBVIOUS
<1> USE SocketAssumption DEF Init
<1>1. acceptor \in Acceptors /\ call \in [Callers -> CallTypes]
  BY DEF Looping, Idle, CallTypes, Acceptors
<1>2. slot \in [Slots -> [fd : Fds \cup {None}, active : BOOLEAN]]
      /\ \A s \in Slots : slot[s].active <=> slot[s].fd # None
  OBVIOUS
<1>3. thread \in [Threads -> {"free", "live", "exited"}]
  OBVIOUS
<1>4. QED
  BY <1>1, <1>2, <1>3 DEF TypeOK, ClientPlaces

(* Every step keeps the types, given what the accept thread holds. *)
LEMMA NextType == TypeOK /\ AcceptorInv /\ [Next]_vars => TypeOK'
<1> SUFFICES ASSUME TypeOK, AcceptorInv, [Next]_vars PROVE TypeOK'
  OBVIOUS
<1> USE SocketAssumption DEF TypeOK
<1>1. CASE AcceptLoops
  BY <1>1 DEF AcceptLoops, callVars, Exit, Threads, Acceptors
<1>2. CASE AcceptPolls
  <2>1. acceptor' \in Acceptors
    BY <1>2 DEF AcceptPolls, Looping, Acceptors
  <2>2. open' \subseteq Fds /\ hung' \subseteq open' /\ aged' \in BOOLEAN
    BY <1>2 DEF AcceptPolls
  <2>3. QED
    BY <1>2, <2>1, <2>2 DEF AcceptPolls, callVars
<1>3. CASE AcceptPicks
  <2>1. FreeSlots # {} => FirstFree \in Slots
    BY FreeIn DEF FreeSlots
  <2>2. acceptor' \in Acceptors
    <3>1. CASE FreeSlots = {}
      BY <1>3, <3>1 DEF AcceptPicks, Looping, Acceptors
    <3>2. CASE FreeSlots # {}
      <4>1. AfterPicking(FirstFree) \in {"joining", "installing"}
        BY DEF AfterPicking
      <4>2. QED
        BY <1>3, <2>1, <3>2, <4>1 DEF AcceptPicks, Acceptors
    <3>3. QED
      BY <3>1, <3>2
  <2>3. open' \subseteq Fds /\ hung' \subseteq open' /\ valid' \subseteq Threads
    BY <1>3 DEF AcceptPicks, CloseFd
  <2>4. QED
    BY <1>3, <2>2, <2>3 DEF AcceptPicks, callVars
<1>4. CASE AcceptJoins
  BY <1>4 DEF AcceptJoins, callVars, Join, Acceptors
<1>5. CASE AcceptInstalls
  <2>1. acceptor.slot \in Slots /\ acceptor.fd \in Fds /\ acceptor.slot \in Threads
    BY <1>5 DEF AcceptInstalls, Accepting, AcceptorInv, Threads, Acceptors
  <2>2. acceptor' \in Acceptors
    BY <1>5 DEF AcceptInstalls, Looping, Acceptors
  <2>3. slot' \in [Slots -> [fd : Fds \cup {None}, active : BOOLEAN]]
        /\ \A s \in Slots : slot'[s].active <=> slot'[s].fd # None
    <3>1. CASE slot' = slot
      BY <3>1
    <3>2. CASE slot' = [slot EXCEPT ![acceptor.slot] = [fd |-> acceptor.fd, active |-> TRUE]]
      BY <2>1, <3>2
    <3>3. QED
      BY <1>5, <3>1, <3>2 DEF AcceptInstalls
  <2>4. thread' \in [Threads -> {"free", "live", "exited"}] /\ leaked' \in BOOLEAN
    BY <1>5, <2>1 DEF AcceptInstalls, Spawn
  <2>5. open' \subseteq Fds /\ hung' \subseteq open' /\ valid' \subseteq Threads
    BY <1>5, <2>1 DEF AcceptInstalls, CloseFd
  <2>6. client' \in [Slots -> ClientPlaces]
    BY <1>5, <2>1 DEF AcceptInstalls, ClientPlaces
  <2>7. QED
    BY <1>5, <2>2, <2>3, <2>4, <2>5, <2>6 DEF AcceptInstalls, callVars
<1>6. CASE TickLoops
  BY <1>6 DEF TickLoops, Exit
<1>7. CASE TickChecks
  BY <1>7 DEF TickChecks
<1>8. CASE TimePasses
  BY <1>8 DEF TimePasses
<1>9. CASE PeerLeaves
  BY <1>9 DEF PeerLeaves, callVars
<1>10. ASSUME NEW s \in Slots, Client(s) PROVE TypeOK'
  <2>1. CASE ClientShakes(s)
    BY <2>1 DEF ClientShakes, GoesTo, callVars, ClientPlaces
  <2>2. CASE ClientLeaves(s)
    BY <2>2 DEF ClientLeaves, GoesTo, callVars, ClientPlaces
  <2>3. CASE ClientDetaches(s)
    BY <2>3 DEF ClientDetaches, GoesTo, callVars, ClientPlaces
  <2>4. CASE ClientCloses(s)
    BY <2>4 DEF ClientCloses, GoesTo, callVars, CloseFd, ClientPlaces
  <2>5. CASE ClientClears(s)
    BY <2>5 DEF ClientClears, Cleared, Exit, callVars, Threads
  <2>6. QED
    BY <1>10, <2>1, <2>2, <2>3, <2>4, <2>5 DEF Client
<1>11. ASSUME NEW c \in Callers, Caller(c) PROVE TypeOK'
  <2>1. CASE Start(c)
    <3>1. call' \in [Callers -> CallTypes]
      BY <2>1 DEF Start, Idle, CallTypes
    <3>0. Looping \in Acceptors
      BY DEF Looping, Acceptors
    <3>2. acceptor' \in Acceptors /\ ticker' \in {"looping", "checking"} /\ aged' \in BOOLEAN
      BY <2>1, <3>0 DEF Start, threadVars
    <3>3. /\ net' \in [running : BOOLEAN, stopping : BOOLEAN, idlePending : BOOLEAN]
          /\ listen' \in {"none", "open", "shut"} /\ (listen' # "none" <=> net'.running)
          /\ status' \in {"Idle", "Listening", "Stopped", "Failed"}
      BY <2>1 DEF Start
    <3>4. /\ thread' \in [Threads -> {"free", "live", "exited"}] /\ leaked' \in BOOLEAN
          /\ valid' \subseteq Threads
      BY <2>1 DEF Start, Spawn, Threads
    <3>5. client' = client
      BY <2>1 DEF Start, threadVars
    <3>6. QED
      BY <2>1, <3>1, <3>2, <3>3, <3>4, <3>5 DEF Start
  <2>2. CASE Snapshot(c)
    <3>1. ToWake \subseteq Fds /\ ToJoin \subseteq Threads
      BY DEF ToWake, ToJoin
    <3>2. call' \in [Callers -> CallTypes]
      <4>1. CASE Return(c)
        BY <4>1, ReturnType
      <4>2. CASE call' = [call EXCEPT ![c] =
                            [@ EXCEPT !.at = "waking", !.todo = ToJoin, !.fds = ToWake]]
        BY <3>1, <4>2 DEF CallTypes
      <4>3. QED
        BY <2>2, <4>1, <4>2 DEF Snapshot
    <3>3. /\ net' \in [running : BOOLEAN, stopping : BOOLEAN, idlePending : BOOLEAN]
          /\ net'.running = net.running /\ valid' \subseteq Threads
      <4>1. CASE net.running
        <5>1. net' = [net EXCEPT !.stopping = TRUE] /\ valid' \subseteq valid
          BY <2>2, <4>1 DEF Snapshot
        <5>2. QED
          BY <5>1
      <4>2. CASE ~net.running
        BY <2>2, <4>2 DEF Snapshot
      <4>3. QED
        BY <4>1, <4>2
    <3>4. QED
      BY <2>2, <3>2, <3>3 DEF Snapshot, threadVars
  <2>3. CASE Wake(c)
    <3>1. call' \in [Callers -> CallTypes]
      BY <2>3 DEF Wake, To, CallTypes
    <3>2. /\ listen' \in {"none", "open", "shut"} /\ (listen' # "none" <=> net.running)
          /\ hung' \subseteq open
      BY <2>3 DEF Wake
    <3>3. QED
      BY <2>3, <3>1, <3>2 DEF Wake, threadVars
  <2>4. CASE JoinNext(c)
    <3>1. call' \in [Callers -> CallTypes]
      BY <2>4 DEF JoinNext, CallTypes
    <3>2. thread' \in [Threads -> {"free", "live", "exited"}]
      BY <2>4 DEF JoinNext, Join
    <3>3. QED
      BY <2>4, <3>1, <3>2 DEF JoinNext, threadVars
  <2>5. CASE Finish(c)
    BY <2>5 DEF Finish, At, Return, Idle, threadVars, CallTypes
  <2>6. QED
    BY <1>11, <2>1, <2>2, <2>3, <2>4, <2>5 DEF Caller
<1>12. CASE IpcStarts \/ IpcQueries \/ IpcStops
  <2>1. call' \in [Callers -> CallTypes]
    <3>1. CASE \E next \in {"start", "query"} : Calls(next)
      <4>1. PICK next \in {"start", "query"} : Calls(next)
        BY <3>1
      <4>2. call'["ipc"] \in CallTypes
        BY <4>1, CallType DEF Calls
      <4>3. QED
        BY <4>1, <4>2 DEF Calls
    <3>2. CASE IpcStops
      BY <3>2, CallType DEF IpcStops
    <3>3. QED
      BY <1>12, <3>1, <3>2 DEF IpcStarts, IpcQueries
  <2>2. /\ net' \in [running : BOOLEAN, stopping : BOOLEAN, idlePending : BOOLEAN]
        /\ net'.running = net.running
    BY <1>12 DEF IpcStarts, IpcQueries, IpcStops, Calls
  <2>3. QED
    BY <1>12, <2>1, <2>2 DEF IpcStarts, IpcQueries, IpcStops, Calls, threadVars
<1>13. CASE UNCHANGED vars
  BY <1>13 DEF vars
<1>14. QED
  BY <1>1, <1>2, <1>3, <1>4, <1>5, <1>6, <1>7, <1>8, <1>9, <1>10, <1>11, <1>12, <1>13
     DEF Next, Acceptor

-----------------------------------------------------------------------------
(* The invariant, step by step: one step of the proof for each step of a thread. *)
LEMMA NextInv == OneCaller /\ SocketInv /\ [Next]_vars => SocketInv'
<1> SUFFICES ASSUME OneCaller, SocketInv, [Next]_vars PROVE SocketInv'
  OBVIOUS
<1>0. /\ thread \in [Threads -> {"free", "live", "exited"}] /\ Slots \subseteq Threads
      /\ "accept" \in Threads \ Slots /\ "tick" \in Threads \ Slots
      /\ Threads = {"accept", "tick"} \cup Slots
      /\ slot \in [Slots -> [fd : Fds \cup {None}, active : BOOLEAN]]
      /\ \A s \in Slots : slot[s].active <=> slot[s].fd # None
      /\ client \in [Slots -> ClientPlaces] /\ acceptor \in Acceptors
      /\ call \in [{"ipc"} -> CallTypes] /\ None \notin Fds /\ None \notin Slots
      /\ valid \subseteq Threads /\ attached \subseteq Slots /\ open \subseteq Fds
      /\ net \in [running : BOOLEAN, stopping : BOOLEAN, idlePending : BOOLEAN]
  BY SocketAssumption DEF SocketInv, TypeOK, OneCaller, Threads
<1>a. acceptor.slot # None => acceptor.slot \in Slots
  BY <1>0 DEF Acceptors
<1>b. \A t : Taken(t) => t \in Slots
  BY <1>a DEF Taken, SocketInv, AcceptorInv
<1>1. CASE AcceptLoops
  <2>1. acceptor = Looping /\ \A s \in Slots : thread'[s] = thread[s]
    BY <1>0, <1>1 DEF AcceptLoops, Accepting, Exit, SocketInv, AcceptorInv, Looping, Acceptors
  <2>2. acceptor'.fd = None /\ acceptor'.slot = None /\ acceptor'.at \in {"looping", "polling"}
    BY <2>1, <1>1 DEF AcceptLoops, Looping
  <2>3. thread'["accept"] # "live" => acceptor' = acceptor
    BY <1>0, <1>1 DEF AcceptLoops, Accepting, Exit
  <2>4. AcceptorInv'
    BY <2>1, <2>2, <2>3 DEF AcceptorInv
  <2>5. SlotInv' /\ AttachedInv' /\ NothingLeft' /\ StacksReleased'
    BY <1>0, <1>1 DEF AcceptLoops, Accepting, callVars, Exit, SocketInv, SlotInv, Taken,
                      AttachedInv, AcceptorInv, NothingLeft, StacksReleased
  <2>6. StopInv'
    BY <1>0, <1>1 DEF AcceptLoops, Accepting, callVars, Exit, SocketInv, StopInv, Stopping,
                      Taken, AcceptorInv, SlotInv
  <2>7. OwnDescriptor'
    <3>1. \A s \in Slots : Owns(s)' = Owns(s)
      BY <2>1, <1>1 DEF Owns, AcceptLoops
    <3>2. acceptor'.fd = acceptor.fd /\ slot' = slot /\ open' = open
      BY <2>1, <2>2, <1>1 DEF AcceptLoops, Looping
    <3>3. QED
      BY <3>1, <3>2 DEF SocketInv, OwnDescriptor
  <2>8. QED
    BY <2>4, <2>5, <2>6, <2>7, NextType DEF SocketInv
<1>2. CASE AcceptPolls
  <2>1. AcceptorInv' /\ SlotInv' /\ AttachedInv'
    BY <1>0, <1>2 DEF AcceptPolls, Accepting, callVars, Looping,
                      SocketInv, AcceptorInv, SlotInv, AttachedInv, Taken
  <2>2. StopInv' /\ NothingLeft' /\ StacksReleased'
    BY <1>0, <1>2 DEF AcceptPolls, Accepting, callVars, Looping,
                      SocketInv, StopInv, Stopping, Taken, AcceptorInv, NothingLeft, StacksReleased
  <2>3. OwnDescriptor'
    BY <1>0, <1>2 DEF AcceptPolls, Accepting, callVars, Looping, SocketInv, OwnDescriptor, Owns, AcceptorInv
  <2>4. QED
    BY <2>1, <2>2, <2>3, NextType DEF SocketInv
<1>3. CASE AcceptPicks
  <2>1. /\ UNCHANGED <<net, call, slot, attached, thread, client, leaked>>
        /\ thread["accept"] = "live" /\ acceptor.at = "picking"
        /\ acceptor.fd # None /\ acceptor.slot = None
    BY <1>3 DEF AcceptPicks, Accepting, callVars, SocketInv, AcceptorInv
  <2>2. CASE FreeSlots = {}
    <3>1. acceptor' = Looping /\ open' = open \ {acceptor.fd} /\ UNCHANGED valid
      BY <1>3, <2>2 DEF AcceptPicks, CloseFd
    <3>2. AcceptorInv'
      BY <2>1, <3>1 DEF AcceptorInv, Looping
    <3>3. SlotInv' /\ AttachedInv' /\ StopInv' /\ NothingLeft' /\ StacksReleased'
      BY <1>0, <2>1, <3>1 DEF SocketInv, SlotInv, AttachedInv, StopInv, Stopping, Taken,
                              NothingLeft, StacksReleased, Looping
    <3>4. OwnDescriptor'
      BY <1>0, <2>1, <3>1 DEF SocketInv, OwnDescriptor, Owns, Looping
    <3>5. QED
      BY <3>2, <3>3, <3>4, NextType DEF SocketInv
  <2>3. CASE FreeSlots # {}
    <3> DEFINE s == FirstFree
    <3>1. s \in Slots /\ ~slot[s].active /\ thread[s] # "live"
      BY <2>3, FreeIn DEF FreeSlots, SocketInv, SlotInv
    <3>2. /\ acceptor'.fd = acceptor.fd /\ acceptor'.slot = s
          /\ acceptor'.at = AfterPicking(s)
          /\ valid' = valid \ {s} /\ UNCHANGED open
      BY <1>0, <1>3, <2>3 DEF AcceptPicks, Acceptors
    <3> HIDE DEF s
    <3>3. s \notin valid => thread[s] = "free"
      BY <1>0, <2>1, <3>1 DEF SocketInv, SlotInv, Taken
    <3>4. AcceptorInv'
      BY <1>0, <2>1, <3>1, <3>2, <3>3 DEF AcceptorInv, AfterPicking
    <3>5. SlotInv'
      BY <1>0, <2>1, <3>1, <3>2, <3>3 DEF SocketInv, SlotInv, Taken, AfterPicking
    <3>6. StopInv'
      BY <1>0, <2>1, <3>1, <3>2, <3>3 DEF SocketInv, StopInv, Stopping, Taken
    <3>7. AttachedInv' /\ OwnDescriptor' /\ NothingLeft' /\ StacksReleased'
      BY <1>0, <2>1, <3>2 DEF SocketInv, AttachedInv, OwnDescriptor, Owns, NothingLeft,
                              StacksReleased
    <3>8. QED
      BY <3>4, <3>5, <3>6, <3>7, NextType DEF SocketInv
  <2>4. QED
    BY <2>2, <2>3
<1>4. CASE AcceptJoins
  <2>1. /\ UNCHANGED <<net, call, valid, slot, attached, client, open, leaked>>
        /\ acceptor.at = "joining" /\ acceptor.slot \in Slots /\ acceptor.slot \notin valid
        /\ acceptor'.fd = acceptor.fd /\ acceptor'.slot = acceptor.slot
        /\ acceptor'.at = "installing" /\ thread["accept"] = "live"
    BY <1>0, <1>4 DEF AcceptJoins, Accepting, callVars, SocketInv, AcceptorInv, Acceptors
  <2>2. /\ thread[acceptor.slot] # "live" /\ thread'[acceptor.slot] = "free"
        /\ \A t \in Threads \ {acceptor.slot} : thread'[t] = thread[t]
    BY <1>0, <1>4, <2>1 DEF AcceptJoins, Join
  <2>3. AcceptorInv'
    BY <1>0, <2>1, <2>2 DEF SocketInv, AcceptorInv
  <2>4. SlotInv'
    BY <1>0, <2>1, <2>2 DEF SocketInv, SlotInv, Taken
  <2>5. StopInv'
    BY <1>0, <2>1, <2>2 DEF SocketInv, StopInv, Stopping, Taken
  <2>6. OwnDescriptor'
    <3>1. \A s \in Slots : Owns(s)' = Owns(s)
      BY <1>0, <2>1, <2>2 DEF Owns
    <3>2. QED
      BY <2>1, <3>1 DEF SocketInv, OwnDescriptor
  <2>7. AttachedInv' /\ NothingLeft' /\ StacksReleased'
    BY <1>0, <2>1, <2>2 DEF SocketInv, AttachedInv, NothingLeft, StacksReleased
  <2>8. QED
    BY <2>3, <2>4, <2>5, <2>6, <2>7, NextType DEF SocketInv
<1>5. CASE AcceptInstalls
  <2>0. PICK n \in Slots : n = acceptor.slot
    BY <1>a, <1>5 DEF AcceptInstalls, Accepting, SocketInv, AcceptorInv
  <2>1. /\ UNCHANGED <<net, call, attached>> /\ acceptor' = Looping
        /\ acceptor.at = "installing" /\ acceptor.slot = n /\ n \notin valid
        /\ acceptor.fd \in Fds /\ thread["accept"] = "live" /\ ~slot[n].active
        /\ thread[n] = "free" /\ n \in Threads
    BY <1>0, <1>5, <2>0 DEF AcceptInstalls, Accepting, callVars, SocketInv, AcceptorInv, Acceptors
  <2>2. CASE open' = open \ {acceptor.fd} /\ UNCHANGED <<slot, valid, client, thread, leaked>>
    <3>1. AcceptorInv' /\ SlotInv'
      BY <1>0, <2>1, <2>2 DEF SocketInv, AcceptorInv, SlotInv, Taken, Looping
    <3>2. StopInv'
      BY <1>0, <2>1, <2>2 DEF SocketInv, StopInv, Stopping, Taken, Looping
    <3>3. AttachedInv' /\ OwnDescriptor' /\ NothingLeft' /\ StacksReleased'
      BY <1>0, <2>1, <2>2 DEF SocketInv, AttachedInv, OwnDescriptor, Owns, NothingLeft,
                              StacksReleased, Looping
    <3>4. QED
      BY <3>1, <3>2, <3>3, NextType DEF SocketInv
  <2>3. CASE /\ ~net.stopping /\ Spawn(n)
             /\ slot' = [slot EXCEPT ![n] = [fd |-> acceptor.fd, active |-> TRUE]]
             /\ valid' = valid \cup {n}
             /\ client' = [client EXCEPT ![n] = "handshaking"]
             /\ UNCHANGED <<open, hung>>
    <3>1. /\ thread'[n] = "live"
          /\ \A t \in Threads \ {n} : thread'[t] = thread[t]
          /\ ~leaked'
      BY <1>0, <2>1, <2>3 DEF Spawn, SocketInv, StacksReleased
    <3>2. /\ slot'[n] = [fd |-> acceptor.fd, active |-> TRUE]
          /\ \A s \in Slots \ {n} : slot'[s] = slot[s]
          /\ client'[n] = "handshaking"
          /\ \A s \in Slots \ {n} : client'[s] = client[s]
      BY <1>0, <2>1, <2>3
    <3>3. AcceptorInv' /\ SlotInv'
      BY <1>0, <2>1, <2>3, <3>1, <3>2 DEF SocketInv, AcceptorInv, SlotInv, Taken, Looping
    <3>4. StopInv'
      BY <1>0, <2>1, <2>3, <3>1 DEF SocketInv, StopInv, Stopping, Taken, Looping
    <3>5. Owns(n)' /\ ~Owns(n) /\ \A s \in Slots \ {n} : Owns(s)' = Owns(s)
      <4>1. Owns(n)' /\ ~Owns(n)
        BY <2>1, <3>1, <3>2 DEF Owns
      <4>2. ASSUME NEW s \in Slots \ {n} PROVE Owns(s)' = Owns(s)
        BY <1>0, <3>1, <3>2, <4>2 DEF Owns
      <4>3. QED
        BY <4>1, <4>2
    <3>6. OwnDescriptor'
      <4>1. acceptor'.fd = None /\ slot'[n].fd = acceptor.fd /\ open' = open
        BY <2>1, <2>3, <3>2 DEF Looping
      <4>2. {r \in Slots : Owns(r)'} = {r \in Slots : Owns(r)} \cup {n}
        BY <3>5
      <4>3. \A s \in Slots : Owns(s) => slot'[s].fd = slot[s].fd /\ slot[s].fd # acceptor.fd
        BY <3>2, <3>5 DEF SocketInv, OwnDescriptor
      <4>4. open = {slot[s].fd : s \in {r \in Slots : Owns(r)}} \cup {acceptor.fd}
        BY <1>0, <2>1 DEF SocketInv, OwnDescriptor
      <4>5. \A s \in Slots : Owns(s)' => slot'[s].fd \in open' /\ slot'[s].fd # acceptor'.fd
        BY <1>0, <2>1, <3>5, <4>1, <4>3, <4>4
      <4>6. \A s, r \in Slots : Owns(s)' /\ Owns(r)' /\ slot'[s].fd = slot'[r].fd => s = r
        BY <3>5, <4>1, <4>3 DEF SocketInv, OwnDescriptor
      <4>7. open' = {slot'[s].fd : s \in {r \in Slots : Owns(r)'}} \cup ({acceptor'.fd} \ {None})
        BY <4>1, <4>2, <4>3, <4>4
      <4>8. QED
        BY <4>5, <4>6, <4>7 DEF OwnDescriptor
    <3>7. AttachedInv'
      <4>1. n \notin attached
        BY <2>1 DEF SocketInv, AttachedInv
      <4>2. QED
        BY <1>0, <2>1, <3>1, <3>2, <4>1 DEF SocketInv, AttachedInv
    <3>8. NothingLeft' /\ StacksReleased'
      BY <1>0, <2>1, <3>1 DEF SocketInv, NothingLeft, StacksReleased
    <3>9. QED
      BY <3>3, <3>4, <3>6, <3>7, <3>8, NextType DEF SocketInv
  <2>4. QED
    BY <1>5, <2>1, <2>2, <2>3 DEF AcceptInstalls, CloseFd
<1>6. CASE TickLoops
  <2>1. /\ UNCHANGED <<net, valid, slot, attached, acceptor, client, call, open, leaked>>
        /\ \A t \in Threads \ {"tick"} : thread'[t] = thread[t]
        /\ thread["tick"] = "live" /\ thread'["tick"] # "free"
    BY <1>0, <1>6 DEF TickLoops, Exit
  <2>2. AcceptorInv'
    BY <1>0, <1>a, <2>1 DEF SocketInv, AcceptorInv
  <2>3. SlotInv' /\ AttachedInv'
    <3>1. \A s \in Slots : thread'[s] = thread[s]
      BY <1>0, <2>1
    <3>2. SlotInv'
      BY <2>1, <3>1 DEF SocketInv, SlotInv, Taken
    <3>3. AttachedInv'
      BY <1>0, <2>1, <3>1 DEF SocketInv, AttachedInv
    <3>4. QED
      BY <3>2, <3>3
  <2>4. StopInv' /\ NothingLeft' /\ StacksReleased'
    BY <1>0, <2>1 DEF SocketInv, StopInv, Stopping, Taken, NothingLeft, StacksReleased
  <2>5. OwnDescriptor'
    <3>1. \A s \in Slots : Owns(s)' = Owns(s)
      BY <1>0, <2>1 DEF Owns
    <3>2. QED
      BY <2>1, <3>1 DEF SocketInv, OwnDescriptor
  <2>6. QED
    BY <2>2, <2>3, <2>4, <2>5, NextType DEF SocketInv
<1>7. CASE TickChecks
  <2>1. AcceptorInv' /\ SlotInv' /\ AttachedInv'
    BY <1>0, <1>7 DEF TickChecks,
                      SocketInv, AcceptorInv, SlotInv, AttachedInv, Taken, Looping
  <2>2. StopInv' /\ NothingLeft' /\ StacksReleased'
    BY <1>0, <1>7 DEF TickChecks,
                      SocketInv, StopInv, Stopping, Taken, AcceptorInv, NothingLeft, StacksReleased
  <2>3. OwnDescriptor'
    BY <1>0, <1>7 DEF TickChecks, SocketInv, OwnDescriptor, Owns, AcceptorInv
  <2>4. QED
    BY <2>1, <2>2, <2>3, NextType DEF SocketInv
<1>8. CASE TimePasses
  <2>1. AcceptorInv' /\ SlotInv' /\ AttachedInv'
    BY <1>0, <1>8 DEF TimePasses,
                      SocketInv, AcceptorInv, SlotInv, AttachedInv, Taken, Looping
  <2>2. StopInv' /\ NothingLeft' /\ StacksReleased'
    BY <1>0, <1>8 DEF TimePasses,
                      SocketInv, StopInv, Stopping, Taken, AcceptorInv, NothingLeft, StacksReleased
  <2>3. OwnDescriptor'
    BY <1>0, <1>8 DEF TimePasses, SocketInv, OwnDescriptor, Owns, AcceptorInv
  <2>4. QED
    BY <2>1, <2>2, <2>3, NextType DEF SocketInv
<1>9. CASE PeerLeaves
  <2>1. AcceptorInv' /\ SlotInv' /\ AttachedInv'
    BY <1>0, <1>9 DEF PeerLeaves, callVars,
                      SocketInv, AcceptorInv, SlotInv, AttachedInv, Taken, Looping
  <2>2. StopInv' /\ NothingLeft' /\ StacksReleased'
    BY <1>0, <1>9 DEF PeerLeaves, callVars,
                      SocketInv, StopInv, Stopping, Taken, AcceptorInv, NothingLeft, StacksReleased
  <2>3. OwnDescriptor'
    BY <1>0, <1>9 DEF PeerLeaves, callVars, SocketInv, OwnDescriptor, Owns, AcceptorInv
  <2>4. QED
    BY <2>1, <2>2, <2>3, NextType DEF SocketInv
<1>10. ASSUME NEW s \in Slots, ClientShakes(s) PROVE SocketInv'
  <2>1. /\ UNCHANGED <<net, valid, slot, thread, acceptor, call, open, leaked>>
        /\ thread[s] = "live" /\ attached' \subseteq attached \cup {s}
        /\ client[s] # "clearing" /\ client'[s] \in {"serving", "detaching"}
        /\ \A r \in Slots \ {s} : client'[r] = client[r]
    BY <1>0, <1>10 DEF ClientShakes, Serving, GoesTo, callVars
  <2>2. OwnDescriptor'
    <3>1. \A r \in Slots : Owns(r)' = Owns(r)
      BY <2>1 DEF Owns
    <3>2. QED
      BY <2>1, <3>1 DEF SocketInv, OwnDescriptor
  <2>3. AcceptorInv' /\ SlotInv' /\ AttachedInv' /\ StopInv'
    BY <1>0, <2>1 DEF SocketInv, AcceptorInv, SlotInv, AttachedInv, StopInv, Stopping, Taken
  <2>4. NothingLeft' /\ StacksReleased'
    BY <1>0, <2>1 DEF SocketInv, NothingLeft, StacksReleased
  <2>5. QED
    BY <2>2, <2>3, <2>4, NextType DEF SocketInv
<1>11. ASSUME NEW s \in Slots, ClientLeaves(s) PROVE SocketInv'
  <2>1. /\ UNCHANGED <<net, valid, slot, thread, acceptor, call, attached, open, leaked>>
        /\ thread[s] = "live" /\ client[s] = "serving" /\ client'[s] = "detaching"
        /\ \A r \in Slots \ {s} : client'[r] = client[r]
    BY <1>0, <1>11 DEF ClientLeaves, Serving, GoesTo, callVars
  <2>2. OwnDescriptor'
    <3>1. \A r \in Slots : Owns(r)' = Owns(r)
      BY <2>1 DEF Owns
    <3>2. QED
      BY <2>1, <3>1 DEF SocketInv, OwnDescriptor
  <2>3. AcceptorInv' /\ SlotInv' /\ AttachedInv' /\ StopInv'
    BY <1>0, <2>1 DEF SocketInv, AcceptorInv, SlotInv, AttachedInv, StopInv, Stopping, Taken
  <2>4. NothingLeft' /\ StacksReleased'
    BY <1>0, <2>1 DEF SocketInv, NothingLeft, StacksReleased
  <2>5. QED
    BY <2>2, <2>3, <2>4, NextType DEF SocketInv
<1>12. ASSUME NEW s \in Slots, ClientDetaches(s) PROVE SocketInv'
  <2>1. /\ UNCHANGED <<net, valid, slot, thread, acceptor, call, open, leaked>>
        /\ thread[s] = "live" /\ client[s] = "detaching" /\ client'[s] = "closing"
        /\ attached' = attached \ {s}
        /\ \A r \in Slots \ {s} : client'[r] = client[r]
    BY <1>0, <1>12 DEF ClientDetaches, Serving, GoesTo, callVars
  <2>2. OwnDescriptor'
    <3>1. \A r \in Slots : Owns(r)' = Owns(r)
      BY <2>1 DEF Owns
    <3>2. QED
      BY <2>1, <3>1 DEF SocketInv, OwnDescriptor
  <2>3. AcceptorInv' /\ SlotInv' /\ AttachedInv' /\ StopInv'
    BY <1>0, <2>1 DEF SocketInv, AcceptorInv, SlotInv, AttachedInv, StopInv, Stopping, Taken
  <2>4. NothingLeft' /\ StacksReleased'
    BY <1>0, <2>1 DEF SocketInv, NothingLeft, StacksReleased
  <2>5. QED
    BY <2>2, <2>3, <2>4, NextType DEF SocketInv
<1>13. ASSUME NEW s \in Slots, ClientCloses(s) PROVE SocketInv'
  <2>1. /\ UNCHANGED <<net, valid, slot, thread, attached, acceptor, call, leaked>>
        /\ thread[s] = "live" /\ client[s] = "closing" /\ client'[s] = "clearing"
        /\ open' = open \ {slot[s].fd}
        /\ \A r \in Slots \ {s} : client'[r] = client[r]
    BY <1>0, <1>13 DEF ClientCloses, Serving, GoesTo, CloseFd, callVars
  <2>2. AcceptorInv' /\ SlotInv' /\ AttachedInv' /\ StopInv'
    BY <1>0, <2>1 DEF SocketInv, AcceptorInv, SlotInv, AttachedInv, StopInv, Stopping, Taken
  <2>3. NothingLeft' /\ StacksReleased'
    BY <1>0, <2>1 DEF SocketInv, NothingLeft, StacksReleased
  <2>4. OwnDescriptor'
    <3>1. Owns(s) /\ ~Owns(s)' /\ \A r \in Slots \ {s} : Owns(r)' = Owns(r)
      BY <2>1 DEF Owns
    <3>2. QED
      BY <1>0, <2>1, <3>1 DEF SocketInv, OwnDescriptor
  <2>5. QED
    BY <2>2, <2>3, <2>4, NextType DEF SocketInv
<1>14. ASSUME NEW s \in Slots, ClientClears(s) PROVE SocketInv'
  <2>1. /\ UNCHANGED <<net, valid, attached, acceptor, call, client, open, leaked>>
        /\ thread[s] = "live" /\ thread'[s] = "exited" /\ client[s] = "clearing"
        /\ \A t \in Threads \ {s} : thread'[t] = thread[t]
        /\ ~slot'[s].active /\ \A r \in Slots \ {s} : slot'[r] = slot[r]
    BY <1>0, <1>14 DEF ClientClears, Serving, Exit, Cleared, callVars
  <2>2. s \notin attached
    BY <2>1 DEF SocketInv, AttachedInv
  <2>3. AcceptorInv' /\ SlotInv' /\ AttachedInv'
    <3>1. AcceptorInv'
      <4>1. acceptor.slot # None => acceptor.slot # s
        BY <2>1 DEF SocketInv, AcceptorInv, SlotInv
      <4>2. QED
        BY <1>0, <1>a, <2>1, <4>1 DEF SocketInv, AcceptorInv
    <3>2. SlotInv'
      BY <1>0, <2>1 DEF SocketInv, SlotInv, Taken
    <3>3. AttachedInv'
      BY <1>0, <2>1, <2>2 DEF SocketInv, AttachedInv
    <3>4. QED
      BY <3>1, <3>2, <3>3
  <2>4. StopInv' /\ NothingLeft' /\ StacksReleased'
    BY <1>0, <2>1 DEF SocketInv, StopInv, Stopping, Taken, NothingLeft, StacksReleased
  <2>5. OwnDescriptor'
    <3>1. ~Owns(s) /\ \A r \in Slots : Owns(r)' = Owns(r)
      BY <1>0, <2>1 DEF Owns
    <3>2. \A r \in Slots : Owns(r) => slot'[r] = slot[r]
      BY <2>1, <3>1
    <3>3. QED
      BY <2>1, <3>1, <3>2 DEF SocketInv, OwnDescriptor
  <2>6. QED
    BY <2>3, <2>4, <2>5, NextType DEF SocketInv
<1>15. CASE Start("ipc")
  <2>1. ~Stopping /\ ~Stopping' /\ UNCHANGED <<slot, attached, client, open>>
    BY <1>0, <1>15 DEF Start, At, Idle, Stopping, threadVars
  <2>2. CASE UNCHANGED <<valid, thread, acceptor, leaked>> /\ net'.running = net.running
    <3>1. AcceptorInv' /\ SlotInv' /\ AttachedInv' /\ StopInv'
      BY <1>0, <2>1, <2>2 DEF SocketInv, AcceptorInv, SlotInv, AttachedInv, StopInv, Taken
    <3>2. OwnDescriptor' /\ NothingLeft' /\ StacksReleased'
      BY <2>1, <2>2 DEF SocketInv, OwnDescriptor, Owns, NothingLeft, StacksReleased
    <3>3. QED
      BY <3>1, <3>2, NextType DEF SocketInv
  <2>3. CASE /\ ~net.running /\ net'.running /\ acceptor' = Looping
             /\ \E new \in {{"accept"}, {"accept", "tick"}} :
                  /\ valid' = valid \cup new
                  /\ thread' = [t \in Threads |-> IF t \in new THEN "live" ELSE thread[t]]
                  /\ leaked' = (leaked \/ \E t \in new : thread[t] # "free")
    <3>1. PICK new \in {{"accept"}, {"accept", "tick"}} :
            /\ valid' = valid \cup new
            /\ thread' = [t \in Threads |-> IF t \in new THEN "live" ELSE thread[t]]
            /\ leaked' = (leaked \/ \E t \in new : thread[t] # "free")
      BY <2>3
    <3>2. /\ \A t \in Threads : thread[t] = "free"
          /\ open = {} /\ attached = {} /\ acceptor = Looping
      BY <1>0, <2>3 DEF SocketInv, NothingLeft, AcceptorInv
    <3>3. \A s \in Slots : thread'[s] = "free" /\ ~slot[s].active
      BY <1>0, <3>1, <3>2 DEF SocketInv, SlotInv
    <3>4. AcceptorInv' /\ SlotInv' /\ AttachedInv'
      BY <1>0, <2>1, <2>3, <3>1, <3>2, <3>3 DEF AcceptorInv, SlotInv, AttachedInv, Looping
    <3>5. StopInv'
      BY <1>0, <2>1, <3>1, <3>2 DEF StopInv
    <3>6. OwnDescriptor'
      BY <2>1, <2>3, <3>2, <3>3 DEF OwnDescriptor, Owns, Looping
    <3>7. NothingLeft' /\ StacksReleased'
      BY <1>0, <2>3, <3>1, <3>2 DEF SocketInv, NothingLeft, StacksReleased
    <3>8. QED
      BY <3>4, <3>5, <3>6, <3>7, NextType DEF SocketInv
  <2>4. QED
    BY <1>0, <1>15, <2>2, <2>3 DEF Start, Spawn, threadVars
<1>16. CASE Snapshot("ipc")
  <2>1. /\ ~Stopping /\ UNCHANGED <<slot, attached, acceptor, client, thread, open, leaked>>
        /\ net'.running = net.running
    BY <1>0, <1>16 DEF Snapshot, At, Stopping, threadVars
  <2>2. CASE net.running
    <3>1. /\ net'.running /\ net'.stopping /\ valid' = valid \ {"accept", "tick"}
          /\ Stopping' /\ call'["ipc"].todo = valid
      <4>1. call'["ipc"] = [call["ipc"] EXCEPT !.at = "waking", !.todo = valid, !.fds = ToWake]
        BY <1>0, <1>16, <2>2 DEF Snapshot, ToJoin
      <4>2. call'["ipc"].at = "waking" /\ call'["ipc"].todo = valid
        BY <1>0, <4>1 DEF CallTypes
      <4>3. QED
        BY <1>0, <1>16, <2>2, <4>2 DEF Snapshot, Stopping
    <3>2. AcceptorInv' /\ SlotInv' /\ AttachedInv'
      BY <1>0, <2>1, <3>1 DEF SocketInv, AcceptorInv, SlotInv, AttachedInv, Taken, Acceptors
    <3>3. StopInv'
      <4>1. ASSUME NEW t \in Threads, thread[t] # "free" PROVE t \in valid \/ Taken(t)
        BY <1>0, <2>1, <4>1 DEF SocketInv, SlotInv, StopInv
      <4>2. valid' \subseteq Slots
        BY <1>0, <3>1
      <4>3. QED
        BY <2>1, <3>1, <4>1, <4>2 DEF StopInv, Taken
    <3>4. OwnDescriptor' /\ NothingLeft' /\ StacksReleased'
      BY <2>1, <3>1 DEF SocketInv, OwnDescriptor, Owns, NothingLeft, StacksReleased
    <3>5. QED
      BY <3>2, <3>3, <3>4, NextType DEF SocketInv
  <2>3. CASE ~net.running
    <3>1. UNCHANGED <<net, valid>> /\ ~Stopping'
      BY <1>0, <1>16, <2>3 DEF Snapshot, Return, Idle, Stopping
    <3>2. AcceptorInv' /\ SlotInv' /\ AttachedInv' /\ StopInv'
      BY <1>0, <2>1, <3>1 DEF SocketInv, AcceptorInv, SlotInv, AttachedInv, StopInv, Taken
    <3>3. OwnDescriptor' /\ NothingLeft' /\ StacksReleased'
      BY <2>1, <3>1 DEF SocketInv, OwnDescriptor, Owns, NothingLeft, StacksReleased
    <3>4. QED
      BY <3>2, <3>3, NextType DEF SocketInv
  <2>4. QED
    BY <2>2, <2>3
<1>17. CASE Wake("ipc")
  <2>1. /\ UNCHANGED <<net, valid, slot, attached, acceptor, client, thread, open, leaked>>
        /\ Stopping /\ Stopping' /\ call'["ipc"].todo = call["ipc"].todo
    BY <1>0, <1>17 DEF Wake, At, To, Stopping, threadVars, CallTypes
  <2>2. AcceptorInv' /\ SlotInv' /\ AttachedInv' /\ StopInv'
    BY <1>0, <2>1 DEF SocketInv, AcceptorInv, SlotInv, AttachedInv, StopInv, Taken
  <2>3. OwnDescriptor' /\ NothingLeft' /\ StacksReleased'
    BY <2>1 DEF SocketInv, OwnDescriptor, Owns, NothingLeft, StacksReleased
  <2>4. QED
    BY <2>2, <2>3, NextType DEF SocketInv
<1>18. CASE JoinNext("ipc")
  <2> DEFINE todo == call["ipc"].todo
             next == First(todo)
  <2>1. next \in Threads /\ next \in todo
    BY <1>0, <1>18, FirstIn DEF JoinNext, CallTypes
  <2>2. /\ UNCHANGED <<net, valid, slot, attached, acceptor, client, open, leaked>>
        /\ Stopping /\ Stopping' /\ call'["ipc"].todo = todo \ {next}
        /\ thread[next] # "live" /\ thread'[next] = "free"
        /\ \A t \in Threads \ {next} : thread'[t] = thread[t]
    BY <1>0, <1>18, <2>1 DEF JoinNext, At, Join, Stopping, threadVars, CallTypes
  <2> HIDE DEF todo, next
  <2>3. AcceptorInv' /\ SlotInv' /\ AttachedInv'
    <3>1. AcceptorInv'
      BY <1>0, <1>a, <2>1, <2>2 DEF SocketInv, AcceptorInv
    <3>2. SlotInv'
      BY <1>0, <2>1, <2>2 DEF SocketInv, SlotInv, Taken
    <3>3. AttachedInv'
      BY <1>0, <2>1, <2>2 DEF SocketInv, AttachedInv
    <3>4. QED
      BY <3>1, <3>2, <3>3
  <2>4. StopInv' /\ NothingLeft' /\ StacksReleased'
    BY <1>0, <2>1, <2>2 DEF SocketInv, StopInv, Taken, NothingLeft, StacksReleased, todo
  <2>5. OwnDescriptor'
    <3>1. \A s \in Slots : Owns(s)' = Owns(s)
      BY <1>0, <2>1, <2>2 DEF Owns
    <3>2. QED
      BY <2>2, <3>1 DEF SocketInv, OwnDescriptor
  <2>6. QED
    BY <2>3, <2>4, <2>5, NextType DEF SocketInv
<1>19. CASE Finish("ipc")
  <2>1. /\ UNCHANGED <<acceptor, client, thread, open, leaked>> /\ ~net'.running /\ attached' = {}
        /\ valid' = valid \ Slots /\ slot' = [s \in Slots |-> [fd |-> None, active |-> FALSE]]
        /\ Stopping /\ call["ipc"].todo = {} /\ ~Stopping'
    BY <1>0, <1>19 DEF Finish, At, Return, Idle, Stopping, threadVars
  <2>2. acceptor = Looping
    BY <1>0, <1>b, <2>1 DEF SocketInv, StopInv, AcceptorInv
  <2>3. \A t \in Threads : thread[t] = "free"
    BY <2>1, <2>2 DEF SocketInv, StopInv, Taken, Looping
  <2>4. open = {} /\ valid' = {}
    BY <1>0, <2>1, <2>2, <2>3 DEF SocketInv, OwnDescriptor, Owns, StopInv, Looping
  <2>5. AcceptorInv' /\ SlotInv' /\ AttachedInv'
    BY <1>0, <2>1, <2>2, <2>3 DEF AcceptorInv, SlotInv, AttachedInv, Looping
  <2>6. StopInv' /\ NothingLeft' /\ StacksReleased'
    BY <1>0, <2>1, <2>3, <2>4 DEF SocketInv, StopInv, NothingLeft, StacksReleased
  <2>7. OwnDescriptor'
    BY <1>0, <2>1, <2>2, <2>3, <2>4 DEF OwnDescriptor, Owns, Looping
  <2>8. QED
    BY <2>5, <2>6, <2>7, NextType DEF SocketInv
<1>20. CASE IpcStarts \/ IpcQueries \/ IpcStops
  <2>1. /\ UNCHANGED <<valid, slot, attached, acceptor, client, thread, open, leaked>>
        /\ net'.running = net.running /\ ~Stopping /\ ~Stopping'
    <3>1. CASE \E next \in {"start", "query"} : Calls(next)
      BY <1>0, <3>1 DEF Calls, At, Idle, Stopping, threadVars
    <3>2. CASE IpcStops
      BY <1>0, <3>2 DEF IpcStops, At, Idle, Stopping, threadVars
    <3>3. QED
      BY <1>20, <3>1, <3>2 DEF IpcStarts, IpcQueries
  <2>2. AcceptorInv' /\ SlotInv' /\ AttachedInv' /\ StopInv'
    BY <1>0, <2>1 DEF SocketInv, AcceptorInv, SlotInv, AttachedInv, StopInv, Taken
  <2>3. OwnDescriptor' /\ NothingLeft' /\ StacksReleased'
    BY <2>1 DEF SocketInv, OwnDescriptor, Owns, NothingLeft, StacksReleased
  <2>4. QED
    BY <2>2, <2>3, NextType DEF SocketInv
<1>21. CASE UNCHANGED vars
  <2>1. AcceptorInv' /\ SlotInv' /\ AttachedInv' /\ StopInv'
    BY <1>21 DEF vars, SocketInv, AcceptorInv, SlotInv, AttachedInv, StopInv, Stopping, Taken
  <2>2. OwnDescriptor' /\ NothingLeft' /\ StacksReleased'
    BY <1>21 DEF vars, SocketInv, OwnDescriptor, Owns, NothingLeft, StacksReleased
  <2>3. QED
    BY <2>1, <2>2, NextType DEF SocketInv
<1>22. ASSUME NEW s \in Slots, Client(s) PROVE SocketInv'
  BY <1>10, <1>11, <1>12, <1>13, <1>14, <1>22 DEF Client
<1>23. ASSUME NEW c \in Callers, Caller(c) PROVE SocketInv'
  BY <1>15, <1>16, <1>17, <1>18, <1>19, <1>23 DEF Caller, OneCaller
<1>24. QED
  BY <1>1, <1>2, <1>3, <1>4, <1>5, <1>6, <1>7, <1>8, <1>9, <1>20, <1>21, <1>22, <1>23
     DEF Next, Acceptor

(* The program starts with every thread released and no descriptor in use. *)
LEMMA InitInv == Init => SocketInv
<1> SUFFICES ASSUME Init PROVE SocketInv
  OBVIOUS
<1>1. TypeOK
  BY InitType
<1>2. AcceptorInv /\ SlotInv /\ AttachedInv
  BY DEF Init, AcceptorInv, SlotInv, AttachedInv, Looping, Threads
<1>3. StopInv
  BY SocketAssumption DEF Init, StopInv, Stopping, Idle, Threads
<1>4. OwnDescriptor /\ NothingLeft /\ StacksReleased
  BY DEF Init, OwnDescriptor, Owns, NothingLeft, StacksReleased, Looping, Threads
<1>5. QED
  BY <1>1, <1>2, <1>3, <1>4 DEF SocketInv

(* The invariant holds as long as one thread starts and stops the server. *)
LEMMA Invariant == ASSUME OneCaller PROVE Spec => []SocketInv
<1>1. SocketInv /\ [Next]_vars => SocketInv'
  BY NextInv
<1>2. QED
  BY <1>1, InitInv, PTL DEF Spec

-----------------------------------------------------------------------------
(* Theorems. *)

(* Types; a slot is taken exactly while it has a descriptor, and a listening socket
   exists exactly while the server runs. *)
THEOREM TypeCorrect == ASSUME OneCaller PROVE Spec => []TypeOK
<1>1. SocketInv => TypeOK
  BY DEF SocketInv
<1>2. QED
  BY <1>1, Invariant, PTL

(* A server that is down has left no thread, no descriptor and no attached connection
   behind, however the stop and the connections that came meanwhile were interleaved
   (net_socket.c:1374-1488). *)
THEOREM StopLeavesNothing == ASSUME OneCaller PROVE Spec => []NothingLeft
<1>1. SocketInv => NothingLeft
  BY DEF SocketInv
<1>2. QED
  BY <1>1, Invariant, PTL

(* A connection thread only ever reads, writes and closes a descriptor that is its own,
   although the kernel hands a number out again as soon as it is closed
   (net_socket.c:788-796, 846-873). *)
THEOREM DescriptorsAreOwned == ASSUME OneCaller PROVE Spec => []OwnDescriptor
<1>1. SocketInv => OwnDescriptor
  BY DEF SocketInv
<1>2. QED
  BY <1>1, Invariant, PTL

(* No thread is created on a stack whose last thread has not been joined
   (net_socket.c:839-851, 1438-1450). *)
THEOREM StacksAreReleased == ASSUME OneCaller PROVE Spec => []StacksReleased
<1>1. SocketInv => StacksReleased
  BY DEF SocketInv
<1>2. QED
  BY <1>1, Invariant, PTL

-----------------------------------------------------------------------------
(***************************************************************************)
(* The reading side of a connection.                                       *)
(***************************************************************************)

(* A set of numbers with 0 and, with each number, the next one. *)
LEMMA EveryNumber ==
  ASSUME NEW S, 0 \in S, \A n \in Nat : n \in S => n + 1 \in S
  PROVE  Nat \subseteq S
<1> DEFINE less == {p \in Nat \X Nat : p[1] < p[2]}
           B == Nat \ S
<1> SUFFICES ASSUME B # {} PROVE FALSE
  OBVIOUS
<1>1. \E m \in B : \A k \in B : ~ (<<k, m>> \in less)
  <2>1. B \subseteq Nat /\ B # {}
    OBVIOUS
  <2> HIDE DEF less, B
  <2>2. IsWellFoundedOn(less, Nat)
    BY NatLessThanWellFounded DEF less, OpToRel
  <2> QED BY <2>1, <2>2, WFMin
<1>2. PICK m \in B : \A k \in B : ~ (<<k, m>> \in less)
  BY <1>1
<1>3. m \in Nat \ {0} /\ m - 1 \in Nat /\ m - 1 + 1 = m
  OBVIOUS
<1>4. m - 1 \in S
  <2>1. <<m - 1, m>> \in less
    BY <1>3
  <2> QED BY <1>2, <1>3, <2>1
<1> QED BY <1>3, <1>4

-----------------------------------------------------------------------------
(* Places in order. *)

\* A finite set of places that the list of it goes through.
Listed(P) == IsFiniteSet(P) /\ P \subseteq Nat \X Nat /\ InOrder(P) \in Seq(P)

LEMMA NothingListed == Listed({}) /\ InOrder({}) = <<>>
<1>1. IsFiniteSet({}) /\ Cardinality({}) = 0
  BY FS_EmptySet
<1>2. InOrder({}) = <<>>
  BY <1>1 DEF InOrder
<1>3. <<>> \in Seq({})
  OBVIOUS
<1> DEFINE e == {}
<1>4. IsFiniteSet(e) /\ e \subseteq Nat \X Nat /\ InOrder(e) \in Seq(e)
  BY <1>1, <1>2, <1>3
<1> QED BY <1>2, <1>4 DEF Listed

(* The number of places before one of a set is less than the number of the set. *)
LEMMA Rank ==
  ASSUME NEW P, IsFiniteSet(P), P \subseteq Nat \X Nat, NEW p \in P
  PROVE  /\ Cardinality(P) \in Nat
         /\ Cardinality({r \in P : Precedes(r, p)}) \in 0..(Cardinality(P) - 1)
<1> DEFINE B == {r \in P : Precedes(r, p)}
<1>1. B \subseteq P \ {p}
  <2>1. ~Precedes(p, p)
    BY DEF Precedes
  <2> QED BY <2>1
<1>2. IsFiniteSet(P \ {p}) /\ Cardinality(P \ {p}) = Cardinality(P) - 1 /\ Cardinality(P) \in Nat
  BY FS_RemoveElement, FS_CardinalityType
<1> HIDE DEF B
<1>3. IsFiniteSet(B) /\ Cardinality(B) <= Cardinality(P \ {p})
  BY <1>1, <1>2, FS_Subset
<1>4. Cardinality(B) \in Nat
  BY <1>3, FS_CardinalityType
<1> QED BY <1>2, <1>3, <1>4 DEF B

LEMMA AppendIs ==
  ASSUME NEW T, NEW w \in Seq(T), NEW q \in T, NEW k \in Nat, Len(w) = k
  PROVE  Append(w, q) = [j \in 1..(k + 1) |-> IF j = k + 1 THEN q ELSE w[j]]
<1> DEFINE a == Append(w, q)
           b == [j \in 1..(k + 1) |-> IF j = k + 1 THEN q ELSE w[j]]
<1>1. a \in Seq(T) /\ Len(a) = k + 1 /\ (\A j \in 1..k : a[j] = w[j]) /\ a[k + 1] = q
  BY AppendProperties
<1>2. b \in Seq(T) /\ Len(b) = k + 1 /\ (\A j \in 1..k : b[j] = w[j]) /\ b[k + 1] = q
  OBVIOUS
<1> HIDE DEF a, b
<1>3. \A j \in 1..Len(a) : a[j] = b[j]
  BY <1>1, <1>2
<1> QED BY <1>1, <1>2, <1>3, SeqEqual DEF a, b

LEMMA OnePieceMore ==
  ASSUME NEW i \in Nat, NEW k \in Nat, NEW l \in Seq(Nat \X Nat)
  PROVE  Append(l \o [j \in 1..k |-> <<i, j>>], <<i, k + 1>>) =
           l \o [j \in 1..(k + 1) |-> <<i, j>>]
<1> DEFINE T == Nat \X Nat
           w == [j \in 1..k |-> <<i, j>>]
           q == <<i, k + 1>>
<1>1. w \in Seq(T) /\ Len(w) = k /\ q \in T /\ l \in Seq(T)
  OBVIOUS
<1>2. [j \in 1..(k + 1) |-> <<i, j>>] = [j \in 1..(k + 1) |-> IF j = k + 1 THEN q ELSE w[j]]
  OBVIOUS
<1> HIDE DEF T, w, q
<1>3. Append(w, q) = [j \in 1..(k + 1) |-> IF j = k + 1 THEN q ELSE w[j]]
  BY <1>1, AppendIs
<1>4. Append(l \o w, q) = l \o Append(w, q)
  <2>1. Append(w, q) = w \o <<q>> /\ <<q>> \in Seq(T) /\ l \o w \in Seq(T)
    BY <1>1, AppendIsConcat
  <2>2. Append(l \o w, q) = (l \o w) \o <<q>>
    BY <1>1, <2>1, AppendIsConcat
  <2>3. (l \o w) \o <<q>> = l \o (w \o <<q>>)
    BY <1>1, <2>1, ConcatAssociative
  <2> QED BY <2>1, <2>2, <2>3
<1>5. Append(l \o w, q) = l \o [j \in 1..(k + 1) |-> <<i, j>>]
  BY <1>2, <1>3, <1>4
<1> QED BY <1>5 DEF w, q

(* A place behind all others comes last. *)
LEMMA InOrderLast ==
  ASSUME NEW P, Listed(P), NEW q \in Nat \X Nat, \A p \in P : Precedes(p, q)
  PROVE  Listed(P \cup {q}) /\ InOrder(P \cup {q}) = Append(InOrder(P), q)
<1> DEFINE R == P \cup {q}
           m == Cardinality(P)
           before(S, p) == {r \in S : Precedes(r, p)}
           at(S, n) == {p \in S : Cardinality(before(S, p)) = n - 1}
<1>1. IsFiniteSet(P) /\ P \subseteq Nat \X Nat /\ R \subseteq Nat \X Nat
  BY DEF Listed
<1>2. q \notin P
  <2>1. ~Precedes(q, q)
    BY DEF Precedes
  <2> QED BY <2>1
<1>3. IsFiniteSet(R) /\ Cardinality(R) = m + 1 /\ m \in Nat
  BY <1>1, <1>2, FS_AddElement, FS_CardinalityType
<1>4. \A p \in P : before(R, p) = before(P, p)
  <2>1. \A p \in P : ~Precedes(q, p)
    BY <1>1 DEF Precedes
  <2> QED BY <2>1
<1>5. before(R, q) = P
  <2>1. ~Precedes(q, q)
    BY DEF Precedes
  <2> QED BY <2>1
<1>6. \A p \in P : Cardinality(before(P, p)) \in 0..(m - 1)
  BY <1>1, Rank
<1>7. ASSUME NEW n \in 1..m PROVE at(R, n) = at(P, n)
  <2>1. \A p \in P : p \in at(R, n) <=> p \in at(P, n)
    BY <1>4
  <2>2. q \notin at(R, n)
    BY <1>3, <1>5
  <2>3. q \notin at(P, n)
    BY <1>2
  <2> HIDE DEF before
  <2> QED BY <2>1, <2>2, <2>3
<1>8. at(R, m + 1) = {q}
  <2> HIDE DEF before
  <2>1. q \in at(R, m + 1)
    BY <1>3, <1>5
  <2>2. ASSUME NEW p \in P PROVE p \notin at(R, m + 1)
    <3>1. Cardinality(before(R, p)) # (m + 1) - 1
      <4> DEFINE b == Cardinality(before(P, p))
      <4>1. b \in 0..(m - 1) /\ before(R, p) = before(P, p)
        BY <1>4, <1>6
      <4> HIDE DEF b, m
      <4>2. b # (m + 1) - 1
        BY <1>3, <4>1
      <4> QED BY <4>1, <4>2 DEF b
    <3> QED BY <3>1
  <2> QED BY <2>1, <2>2
<1> DEFINE l == InOrder(P)
           z == InOrder(R)
<1>9. l = [n \in 1..m |-> CHOOSE p \in at(P, n) : TRUE] /\ l \in Seq(P)
  BY DEF InOrder, Listed
<1>10. z = [n \in 1..(m + 1) |-> CHOOSE p \in at(R, n) : TRUE]
  BY <1>3 DEF InOrder
<1> HIDE DEF at, l, z, R, m
<1>11. \A n \in 1..m : z[n] = l[n]
  <2> SUFFICES ASSUME NEW n \in 1..m PROVE z[n] = l[n]
    OBVIOUS
  <2>1. n \in 1..(m + 1)
    BY <1>3
  <2>2. z[n] = (CHOOSE p \in at(R, n) : TRUE) /\ l[n] = (CHOOSE p \in at(P, n) : TRUE)
    BY <1>9, <1>10, <2>1
  <2> QED BY <1>7, <2>2
<1>12. z[m + 1] = q
  <2>1. m + 1 \in 1..(m + 1)
    BY <1>3
  <2>2. z[m + 1] = (CHOOSE p \in at(R, m + 1) : TRUE)
    BY <1>10, <2>1
  <2>3. (CHOOSE p \in {q} : TRUE) = q
    OBVIOUS
  <2> QED BY <1>8, <2>2, <2>3
<1>13. Len(l) = m /\ DOMAIN l = 1..m
  BY <1>3, <1>9
<1>14. z = Append(l, q)
  <2>1. Append(l, q) = [n \in 1..(m + 1) |-> IF n = m + 1 THEN q ELSE l[n]]
    BY <1>3, <1>9, <1>13
  <2>2. DOMAIN z = 1..(m + 1) /\ z = [n \in 1..(m + 1) |-> z[n]]
    BY <1>10
  <2>3. \A n \in 1..(m + 1) : z[n] = IF n = m + 1 THEN q ELSE l[n]
    BY <1>3, <1>11, <1>12
  <2> QED BY <2>1, <2>2, <2>3
<1>15. z \in Seq(R)
  <2>1. l \in Seq(R) /\ q \in R
    BY <1>9 DEF R
  <2> QED BY <1>14, <2>1
<1> QED BY <1>1, <1>3, <1>14, <1>15 DEF Listed, R, l, z

(* The pieces of a frame come behind those of the frames before it. *)
LEMMA InOrderPieces ==
  ASSUME NEW P, Listed(P), NEW i \in Nat, NEW f, f.size \in Nat, \A p \in P : p[1] < i
  PROVE  /\ Listed(P \cup PiecesOf(i, f))
         /\ InOrder(P \cup PiecesOf(i, f)) = InOrder(P) \o Payload(i, f)
<1> DEFINE T == Nat \X Nat
           some(k) == {<<i, j>> : j \in 1..k}
           first(k) == [j \in 1..k |-> <<i, j>>]
           S == {k \in Nat : /\ Listed(P \cup some(k))
                             /\ InOrder(P \cup some(k)) = InOrder(P) \o first(k)}
<1>1. InOrder(P) \in Seq(T) /\ P \subseteq T
  <2>1. InOrder(P) \in Seq(P) /\ P \subseteq T
    BY DEF Listed
  <2> QED BY <2>1
<1> DEFINE l == InOrder(P)
<1>2. 0 \in S
  <2>1. some(0) = {} /\ first(0) = <<>>
    OBVIOUS
  <2>2. l \o <<>> = l
    <3> HIDE DEF l
    <3> QED BY <1>1 DEF l
  <2> HIDE DEF some, first
  <2>3. P \cup some(0) = P
    BY <2>1
  <2> QED BY <2>1, <2>2, <2>3
<1>3. ASSUME NEW k \in Nat, k \in S PROVE k + 1 \in S
  <2> DEFINE Q == P \cup some(k)
             q == <<i, k + 1>>
  <2>1. some(k + 1) = some(k) \cup {q}
    <3>1. 1..(k + 1) = (1..k) \cup {k + 1}
      OBVIOUS
    <3> QED BY <3>1
  <2>2. Listed(Q) /\ InOrder(Q) = l \o first(k)
    BY <1>3
  <2>3. \A p \in Q : Precedes(p, q)
    <3>1. \A p \in P : Precedes(p, q)
      BY DEF Precedes
    <3>2. \A j \in 1..k : Precedes(<<i, j>>, q)
      BY DEF Precedes
    <3> QED BY <3>1, <3>2
  <2>4. q \in T
    OBVIOUS
  <2> HIDE DEF Q, q, l, some, T
  <2>5. Listed(Q \cup {q}) /\ InOrder(Q \cup {q}) = Append(InOrder(Q), q)
    BY <2>2, <2>3, <2>4, InOrderLast DEF T
  <2>6. Q \cup {q} = P \cup some(k + 1)
    BY <2>1 DEF Q
  <2>7. Append(l \o first(k), q) = l \o first(k + 1)
    BY <1>1, OnePieceMore DEF l, q, T
  <2> HIDE DEF first
  <2>8. InOrder(P \cup some(k + 1)) = l \o first(k + 1) /\ Listed(P \cup some(k + 1))
    BY <2>2, <2>5, <2>6, <2>7
  <2>9. k + 1 \in Nat
    OBVIOUS
  <2> QED BY <2>8, <2>9 DEF l
<1> HIDE DEF S
<1>4. f.size \in S
  BY <1>2, <1>3, EveryNumber
<1>5. some(f.size) = PiecesOf(i, f) /\ first(f.size) = Payload(i, f)
  BY DEF PiecesOf, Payload
<1> HIDE DEF some, first
<1> QED BY <1>4, <1>5 DEF S

-----------------------------------------------------------------------------
(* What the numbers of a set stand for, up to a number. *)

Marks(K, n) == {<<i, 0>> : i \in {j \in 1..n : j \in K}}
Row(K, n, e) ==
  [k \in DOMAIN InOrder(Marks(K, n)) |-> e[InOrder(Marks(K, n))[k][1]]]

LEMMA NoMarks == ASSUME NEW K PROVE Marks(K, 0) = {}
  BY DEF Marks

LEMMA MoreMarks ==
  ASSUME NEW K, NEW n \in Nat
  PROVE  Marks(K, n + 1) = IF n + 1 \in K THEN Marks(K, n) \cup {<<n + 1, 0>>} ELSE Marks(K, n)
<1>1. 1..(n + 1) = (1..n) \cup {n + 1}
  OBVIOUS
<1>2. CASE n + 1 \in K
  <2>1. {j \in 1..(n + 1) : j \in K} = {j \in 1..n : j \in K} \cup {n + 1}
    BY <1>1, <1>2
  <2> QED BY <1>2, <2>1 DEF Marks
<1>3. CASE n + 1 \notin K
  <2>1. {j \in 1..(n + 1) : j \in K} = {j \in 1..n : j \in K}
    BY <1>1, <1>3
  <2> QED BY <1>3, <2>1 DEF Marks
<1> QED BY <1>2, <1>3

LEMMA MarkOneMore ==
  ASSUME NEW K, NEW n \in Nat, Listed(Marks(K, n))
  PROVE  /\ Listed(Marks(K, n + 1))
         /\ InOrder(Marks(K, n + 1)) =
              IF n + 1 \in K THEN Append(InOrder(Marks(K, n)), <<n + 1, 0>>)
                             ELSE InOrder(Marks(K, n))
<1>1. CASE n + 1 \in K
  <2> DEFINE P == Marks(K, n)
             q == <<n + 1, 0>>
  <2>1. \A p \in P : Precedes(p, q)
    BY DEF Marks, Precedes
  <2>2. q \in Nat \X Nat
    OBVIOUS
  <2>3. Marks(K, n + 1) = P \cup {q}
    BY <1>1, MoreMarks
  <2> HIDE DEF P, q
  <2>4. Listed(P)
    BY DEF P
  <2>5. Listed(P \cup {q}) /\ InOrder(P \cup {q}) = Append(InOrder(P), q)
    BY <2>1, <2>2, <2>4, InOrderLast
  <2> QED BY <1>1, <2>3, <2>5 DEF P, q
<1>2. CASE n + 1 \notin K
  BY <1>2, MoreMarks
<1> QED BY <1>1, <1>2

LEMMA MarksListed ==
  ASSUME NEW K, NEW n \in Nat
  PROVE  Listed(Marks(K, n))
<1> DEFINE S == {m \in Nat : Listed(Marks(K, m))}
<1>1. 0 \in S
  BY NothingListed, NoMarks
<1>2. ASSUME NEW m \in Nat, m \in S PROVE m + 1 \in S
  <2>1. Listed(Marks(K, m + 1))
    BY <1>2, MarkOneMore
  <2>2. m + 1 \in Nat
    OBVIOUS
  <2> QED BY <2>1, <2>2
<1> HIDE DEF S
<1>3. n \in S
  BY <1>1, <1>2, EveryNumber
<1> QED BY <1>3 DEF S

Into(e, n, T) == \A i \in 1..n : e[i] \in T
RowOf(r, l, n, e, T) ==
  /\ r \in Seq(T) /\ l \in Seq((1..n) \X {0}) /\ Len(r) = Len(l)
  /\ \A k \in 1..Len(r) : r[k] = e[l[k][1]]

LEMMA RowIs ==
  ASSUME NEW K, NEW n \in Nat, NEW e, NEW T, Into(e, n, T)
  PROVE  RowOf(Row(K, n, e), InOrder(Marks(K, n)), n, e, T)
<1> DEFINE l == InOrder(Marks(K, n))
<1>1. l \in Seq(Marks(K, n))
  BY MarksListed DEF Listed
<1>2. Marks(K, n) \subseteq (1..n) \X {0}
  BY DEF Marks
<1>3. l \in Seq((1..n) \X {0})
  BY <1>1, <1>2
<1>4. Row(K, n, e) = [k \in DOMAIN l |-> e[l[k][1]]]
  BY DEF Row
<1> HIDE DEF l
<1>5. DOMAIN l = 1..Len(l) /\ Len(l) \in Nat /\ \A k \in 1..Len(l) : l[k][1] \in 1..n
  BY <1>3
<1> DEFINE r == [k \in 1..Len(l) |-> e[l[k][1]]]
<1>6. r \in Seq(T) /\ Len(r) = Len(l) /\ \A k \in 1..Len(l) : r[k] = e[l[k][1]]
  <2>1. \A k \in 1..Len(l) : e[l[k][1]] \in T
    BY <1>5 DEF Into
  <2> QED BY <1>5, <2>1
<1>7. Row(K, n, e) = r
  BY <1>4, <1>5
<1> HIDE DEF r
<1>8. RowOf(r, l, n, e, T)
  BY <1>3, <1>6 DEF RowOf
<1> QED BY <1>7, <1>8 DEF l

LEMMA RowEmpty == ASSUME NEW K, NEW e PROVE Row(K, 0, e) = <<>>
<1>1. InOrder(Marks(K, 0)) = <<>>
  BY NothingListed, NoMarks
<1> QED BY <1>1 DEF Row

LEMMA RowOneMore ==
  ASSUME NEW K, NEW n \in Nat, NEW e, NEW T, Into(e, n + 1, T)
  PROVE  Row(K, n + 1, e) = IF n + 1 \in K THEN Append(Row(K, n, e), e[n + 1]) ELSE Row(K, n, e)
<1> DEFINE l == InOrder(Marks(K, n))
           z == InOrder(Marks(K, n + 1))
           r == Row(K, n, e)
           s == Row(K, n + 1, e)
<1>1. z = IF n + 1 \in K THEN Append(l, <<n + 1, 0>>) ELSE l
  BY MarkOneMore, MarksListed
<1>2. CASE n + 1 \notin K
  <2>1. z = l
    BY <1>1, <1>2
  <2> QED BY <1>2, <2>1 DEF Row
<1>3. CASE n + 1 \in K
  <2>1. Into(e, n, T)
    BY DEF Into
  <2>2. /\ r \in Seq(T) /\ l \in Seq((1..n) \X {0}) /\ Len(r) = Len(l)
        /\ \A k \in 1..Len(r) : r[k] = e[l[k][1]]
    <3>1. RowOf(r, l, n, e, T)
      BY <2>1, RowIs
    <3> HIDE DEF r, l
    <3> QED BY <3>1 DEF RowOf
  <2>3. /\ s \in Seq(T) /\ Len(s) = Len(z)
        /\ \A k \in 1..Len(s) : s[k] = e[z[k][1]]
    <3>1. n + 1 \in Nat
      OBVIOUS
    <3>2. RowOf(s, z, n + 1, e, T)
      BY <3>1, RowIs
    <3> HIDE DEF s, z
    <3> QED BY <3>2 DEF RowOf
  <2> DEFINE q == <<n + 1, 0>>
             U == (1..(n + 1)) \X {0}
  <2>4. l \in Seq(U) /\ q \in U
    BY <2>2
  <2>5. z = Append(l, q)
    BY <1>1, <1>3
  <2>6. e[n + 1] \in T /\ q[1] = n + 1
    BY DEF Into
  <2> HIDE DEF l, z, r, s, q, U
  <2>7. Len(z) = Len(l) + 1 /\ (\A k \in 1..Len(l) : z[k] = l[k]) /\ z[Len(l) + 1] = q
    BY <2>4, <2>5, AppendProperties
  <2> DEFINE t == Append(r, e[n + 1])
  <2>8. /\ t \in Seq(T) /\ Len(t) = Len(r) + 1
        /\ (\A k \in 1..Len(r) : t[k] = r[k]) /\ t[Len(r) + 1] = e[n + 1]
    BY <2>2, <2>6, AppendProperties
  <2> HIDE DEF t
  <2>9. Len(s) = Len(t) /\ Len(r) \in Nat /\ Len(r) = Len(l)
    BY <2>2, <2>3, <2>7, <2>8
  <2>10. \A k \in 1..Len(r) : s[k] = t[k]
    <3> SUFFICES ASSUME NEW k \in 1..Len(r) PROVE s[k] = t[k]
      OBVIOUS
    <3>1. k \in 1..Len(s) /\ k \in 1..Len(l)
      BY <2>8, <2>9
    <3>2. s[k] = e[z[k][1]] /\ z[k] = l[k] /\ t[k] = r[k] /\ r[k] = e[l[k][1]]
      BY <2>2, <2>3, <2>7, <2>8, <3>1
    <3> QED BY <3>2
  <2>11. s[Len(r) + 1] = t[Len(r) + 1]
    <3>1. Len(r) + 1 \in 1..Len(s)
      BY <2>8, <2>9
    <3>2. s[Len(r) + 1] = e[z[Len(r) + 1][1]] /\ z[Len(r) + 1] = q
      BY <2>3, <2>7, <2>9, <3>1
    <3> QED BY <2>6, <2>8, <3>2
  <2>12. \A k \in 1..Len(s) : s[k] = t[k]
    BY <2>8, <2>9, <2>10, <2>11
  <2>13. s = t
    BY <2>3, <2>8, <2>9, <2>12, SeqEqual
  <2> QED BY <1>3, <2>13 DEF s, t, r
<1> QED BY <1>2, <1>3

(* A row goes on: what it has stays where it is. *)
Begins(r, s) == Len(r) <= Len(s) /\ \A k \in 1..Len(r) : s[k] = r[k]

LEMMA RowBegins ==
  ASSUME NEW K, NEW n \in Nat, NEW m \in Nat, n <= m, NEW e, NEW T, Into(e, m, T)
  PROVE  Begins(Row(K, n, e), Row(K, m, e))
<1> DEFINE r == Row(K, n, e)
           S == {d \in Nat : n + d <= m => Begins(r, Row(K, n + d, e))}
<1>1. r \in Seq(T)
  <2>1. Into(e, n, T)
    BY DEF Into
  <2> QED BY <2>1, RowIs DEF RowOf
<1>2. 0 \in S
  <2>1. n + 0 = n
    OBVIOUS
  <2>2. Begins(r, r)
    BY <1>1 DEF Begins
  <2> HIDE DEF r
  <2>3. r = Row(K, n, e)
    BY DEF r
  <2> QED BY <2>1, <2>2, <2>3
<1>3. ASSUME NEW d \in Nat, d \in S PROVE d + 1 \in S
  <2>1. ASSUME n + (d + 1) <= m PROVE Begins(r, Row(K, n + (d + 1), e))
    <3> DEFINE c == n + d
               s == Row(K, c, e)
               t == Row(K, c + 1, e)
    <3>1. c \in Nat /\ c <= m /\ n + (d + 1) = c + 1 /\ c + 1 <= m
      BY <2>1
    <3>2. Begins(r, s)
      BY <1>3, <3>1
    <3>3. Into(e, c, T) /\ Into(e, c + 1, T) /\ e[c + 1] \in T
      BY <3>1 DEF Into
    <3> HIDE DEF c, r
    <3>4. t = IF c + 1 \in K THEN Append(s, e[c + 1]) ELSE s
      BY <3>1, <3>3, RowOneMore
    <3>5. s \in Seq(T)
      BY <3>1, <3>3, RowIs DEF RowOf
    <3> HIDE DEF s, t
    <3> DEFINE a == Append(s, e[c + 1])
    <3>6. Len(a) = Len(s) + 1 /\ \A k \in 1..Len(s) : a[k] = s[k]
      BY <3>3, <3>5, AppendProperties
    <3> HIDE DEF a
    <3>7. t = a \/ t = s
      BY <3>4 DEF a
    <3>8. Len(r) \in Nat /\ Len(s) \in Nat
      BY <1>1, <3>5
    <3>9. Begins(r, a)
      BY <3>2, <3>6, <3>8 DEF Begins
    <3>10. Begins(r, t)
      BY <3>2, <3>7, <3>9
    <3> QED BY <3>1, <3>10 DEF t
  <2>2. d + 1 \in Nat
    OBVIOUS
  <2> HIDE DEF r
  <2> QED BY <2>1, <2>2
<1> HIDE DEF S
<1>4. m - n \in S
  BY <1>2, <1>3, EveryNumber
<1>5. m - n \in Nat /\ n + (m - n) = m
  OBVIOUS
<1> QED BY <1>4, <1>5 DEF S

LEMMA RowSame ==
  ASSUME NEW K, NEW J, NEW n \in Nat, NEW e, NEW d,
         \A i \in 1..n : (i \in K <=> i \in J) /\ (i \in K => e[i] = d[i])
  PROVE  Row(K, n, e) = Row(J, n, d)
<1>1. Marks(K, n) = Marks(J, n)
  BY DEF Marks
<1> DEFINE l == InOrder(Marks(K, n))
<1>2. l \in Seq(Marks(K, n))
  BY MarksListed DEF Listed
<1>3. \A p \in Marks(K, n) : p[1] \in 1..n /\ p[1] \in K
  BY DEF Marks
<1>4. /\ Row(K, n, e) = [k \in DOMAIN l |-> e[l[k][1]]]
      /\ Row(J, n, d) = [k \in DOMAIN l |-> d[l[k][1]]]
  BY <1>1 DEF Row
<1> HIDE DEF l
<1>5. \A k \in DOMAIN l : e[l[k][1]] = d[l[k][1]]
  BY <1>2, <1>3
<1> QED BY <1>4, <1>5

-----------------------------------------------------------------------------
(* The message a frame belongs to. *)

LEMMA GreatestIs ==
  ASSUME NEW S, S \subseteq Int, NEW x \in S, \A y \in S : x >= y
  PROVE  Max(S) = x
<1>1. \A z \in S : (\A y \in S : z >= y) => z = x
  BY SMT
<1> QED BY <1>1 DEF Max

Begun(f) == f.op \in {"text", "binary"}

LEMMA FirstOneMore ==
  ASSUME NEW fs, NEW n \in Nat
  PROVE  FirstOf(fs, n + 1) = IF Begun(fs[n + 1]) THEN n + 1 ELSE FirstOf(fs, n)
<1> DEFINE S(m) == {j \in 1..m : fs[j].op \in {"text", "binary"}} \cup {0}
<1>1. CASE Begun(fs[n + 1])
  <2>1. n + 1 \in S(n + 1) /\ (\A y \in S(n + 1) : n + 1 >= y) /\ S(n + 1) \subseteq Int
    BY <1>1 DEF Begun
  <2> HIDE DEF S
  <2>2. Max(S(n + 1)) = n + 1
    BY <2>1, GreatestIs
  <2> QED BY <1>1, <2>2 DEF FirstOf, S
<1>2. CASE ~Begun(fs[n + 1])
  <2>1. S(n + 1) = S(n)
    BY <1>2 DEF Begun
  <2> QED BY <1>2, <2>1 DEF FirstOf
<1> QED BY <1>1, <1>2

LEMMA FirstOfNone == ASSUME NEW fs PROVE FirstOf(fs, 0) = 0
<1> DEFINE S == {j \in 1..0 : fs[j].op \in {"text", "binary"}} \cup {0}
<1>1. 0 \in S /\ (\A y \in S : 0 >= y) /\ S \subseteq Int
  OBVIOUS
<1> HIDE DEF S
<1>2. Max(S) = 0
  BY <1>1, GreatestIs
<1> QED BY <1>2 DEF FirstOf, S

LEMMA FirstIs ==
  ASSUME NEW fs, NEW n \in Nat
  PROVE  FirstOf(fs, n) \in 0..n
<1> DEFINE S == {m \in Nat : FirstOf(fs, m) \in 0..m}
<1>1. 0 \in S
  BY FirstOfNone
<1>2. ASSUME NEW m \in Nat, m \in S PROVE m + 1 \in S
  <2>1. m + 1 \in Nat /\ FirstOf(fs, m) \in 0..m
    BY <1>2
  <2>2. FirstOf(fs, m + 1) \in {m + 1, FirstOf(fs, m)}
    BY FirstOneMore
  <2>3. FirstOf(fs, m + 1) \in 0..(m + 1)
    BY <2>1, <2>2
  <2> QED BY <2>1, <2>3
<1> HIDE DEF S
<1>3. n \in S
  BY <1>1, <1>2, EveryNumber
<1> QED BY <1>3 DEF S

LEMMA NoneOpen == ASSUME NEW fs PROVE ~Open(fs, 1)
  BY DEF Open

LEMMA OpenOneMore ==
  ASSUME NEW fs, NEW n \in Nat \ {0}
  PROVE  Open(fs, n + 1) <=> IF IsData(fs, n) THEN ~fs[n].fin ELSE Open(fs, n)
<1>1. CASE IsData(fs, n)
  <2>1. ASSUME Open(fs, n + 1) PROVE ~fs[n].fin
    <3>1. PICK j \in 1..n : IsData(fs, j) /\ ~fs[j].fin /\ \A k \in (j + 1)..n : ~IsData(fs, k)
      BY <2>1 DEF Open
    <3>2. j = n
      BY <1>1, <3>1
    <3> QED BY <3>1, <3>2
  <2>2. ASSUME ~fs[n].fin PROVE Open(fs, n + 1)
    <3>1. n \in 1..((n + 1) - 1) /\ \A k \in (n + 1)..((n + 1) - 1) : ~IsData(fs, k)
      OBVIOUS
    <3> QED BY <1>1, <2>2, <3>1 DEF Open
  <2> QED BY <1>1, <2>1, <2>2
<1>2. CASE ~IsData(fs, n)
  <2>1. ASSUME Open(fs, n + 1) PROVE Open(fs, n)
    <3>1. PICK j \in 1..n : IsData(fs, j) /\ ~fs[j].fin /\ \A k \in (j + 1)..n : ~IsData(fs, k)
      BY <2>1 DEF Open
    <3>2. j \in 1..(n - 1)
      BY <1>2, <3>1
    <3>3. \A k \in (j + 1)..(n - 1) : ~IsData(fs, k)
      BY <3>1
    <3> QED BY <3>1, <3>2, <3>3 DEF Open
  <2>2. ASSUME Open(fs, n) PROVE Open(fs, n + 1)
    <3>1. PICK j \in 1..(n - 1) :
            IsData(fs, j) /\ ~fs[j].fin /\ \A k \in (j + 1)..(n - 1) : ~IsData(fs, k)
      BY <2>2 DEF Open
    <3>2. j \in 1..((n + 1) - 1) /\ \A k \in (j + 1)..((n + 1) - 1) : ~IsData(fs, k)
      BY <1>2, <3>1
    <3> QED BY <3>1, <3>2 DEF Open
  <2> QED BY <1>2, <2>1, <2>2
<1> QED BY <1>1, <1>2

\* The pieces of the message frame n belongs to.
Places(fs, n) == UNION {PiecesOf(j, fs[j]) : j \in Parts(fs, n)}

LEMMA PartsOneMore ==
  ASSUME NEW fs, NEW n \in Nat
  PROVE  Parts(fs, n + 1) =
           IF Begun(fs[n + 1]) THEN {n + 1}
           ELSE IF IsData(fs, n + 1) THEN Parts(fs, n) \cup {n + 1} ELSE Parts(fs, n)
<1>1. FirstOf(fs, n + 1) = IF Begun(fs[n + 1]) THEN n + 1 ELSE FirstOf(fs, n)
  BY FirstOneMore
<1>2. FirstOf(fs, n) \in 0..n
  BY FirstIs
<1>3. CASE Begun(fs[n + 1])
  <2>1. IsData(fs, n + 1)
    BY <1>3 DEF Begun, IsData, Data
  <2> QED BY <1>1, <1>3, <2>1 DEF Parts
<1>4. CASE ~Begun(fs[n + 1])
  <2>1. FirstOf(fs, n + 1) = FirstOf(fs, n)
    BY <1>1, <1>4
  <2>2. 1..(n + 1) = (1..n) \cup {n + 1}
    OBVIOUS
  <2>3. Parts(fs, n + 1) =
          Parts(fs, n) \cup {j \in {n + 1} : FirstOf(fs, n) <= j /\ IsData(fs, j)}
    BY <2>1, <2>2 DEF Parts
  <2>4. FirstOf(fs, n) <= n + 1
    BY <1>2
  <2> QED BY <1>4, <2>3, <2>4
<1> QED BY <1>3, <1>4

LEMMA PlacesOneMore ==
  ASSUME NEW fs, NEW n \in Nat
  PROVE  Places(fs, n + 1) =
           IF Begun(fs[n + 1]) THEN PiecesOf(n + 1, fs[n + 1])
           ELSE IF IsData(fs, n + 1) THEN Places(fs, n) \cup PiecesOf(n + 1, fs[n + 1])
           ELSE Places(fs, n)
<1> DEFINE P == Parts(fs, n)
           U(S) == UNION {PiecesOf(j, fs[j]) : j \in S}
<1>1. U({n + 1}) = PiecesOf(n + 1, fs[n + 1])
  OBVIOUS
<1>2. U(P \cup {n + 1}) = U(P) \cup PiecesOf(n + 1, fs[n + 1])
  <2> HIDE DEF P
  <2> QED OBVIOUS
<1>3. Places(fs, n + 1) = U(Parts(fs, n + 1)) /\ Places(fs, n) = U(P)
  BY DEF Places
<1> HIDE DEF P, U
<1> QED BY <1>1, <1>2, <1>3, PartsOneMore DEF P

LEMMA PlacesBefore ==
  ASSUME NEW fs, NEW n \in Nat, NEW p \in Places(fs, n)
  PROVE  p[1] \in 1..n
<1>1. PICK j \in Parts(fs, n) : p \in PiecesOf(j, fs[j])
  BY DEF Places
<1>2. j \in 1..n
  BY DEF Parts
<1>3. p[1] = j
  BY <1>1 DEF PiecesOf
<1> QED BY <1>2, <1>3

LEMMA NoPlaces == ASSUME NEW fs PROVE Places(fs, 0) = {}
<1>1. Parts(fs, 0) = {}
  BY DEF Parts
<1> QED BY <1>1 DEF Places

Sized(fs, n) == \A i \in 1..n : fs[i].size \in Nat

LEMMA PlacesListed ==
  ASSUME NEW fs, NEW n \in Nat, Sized(fs, n)
  PROVE  Listed(Places(fs, n))
<1> DEFINE S == {m \in Nat : m <= n => Listed(Places(fs, m))}
<1>1. 0 \in S
  BY NoPlaces, NothingListed
<1>2. ASSUME NEW m \in Nat, m \in S PROVE m + 1 \in S
  <2>1. ASSUME m + 1 <= n PROVE Listed(Places(fs, m + 1))
    <3> DEFINE P == Places(fs, m)
               i == m + 1
               f == fs[m + 1]
    <3>1. i \in Nat /\ m <= n /\ i \in 1..n
      BY <2>1
    <3>2. Listed(P)
      BY <1>2, <3>1
    <3>3. f.size \in Nat
      BY <3>1 DEF Sized
    <3>4. \A p \in P : p[1] < i
      BY PlacesBefore
    <3>5. \A p \in {} : p[1] < i
      OBVIOUS
    <3>6. {} \cup PiecesOf(i, f) = PiecesOf(i, f)
      OBVIOUS
    <3>7. Places(fs, i) \in {PiecesOf(i, f), P \cup PiecesOf(i, f), P}
      BY PlacesOneMore
    <3> HIDE DEF P, i, f
    <3>8. Listed(P \cup PiecesOf(i, f))
      BY <3>1, <3>2, <3>3, <3>4, InOrderPieces
    <3>9. Listed({} \cup PiecesOf(i, f))
      BY <3>1, <3>3, <3>5, NothingListed, InOrderPieces
    <3>10. Listed(Places(fs, i))
      BY <3>2, <3>6, <3>7, <3>8, <3>9
    <3> QED BY <3>10 DEF i
  <2>2. m + 1 \in Nat
    OBVIOUS
  <2> QED BY <2>1, <2>2
<1> HIDE DEF S
<1>3. n \in S
  BY <1>1, <1>2, EveryNumber
<1> QED BY <1>3 DEF S

LEMMA DataOfNone == ASSUME NEW fs PROVE DataOf(fs, 0) = <<>>
<1>1. DataOf(fs, 0) = InOrder(Places(fs, 0))
  BY DEF DataOf, Places
<1> QED BY <1>1, NoPlaces, NothingListed

LEMMA DataIs ==
  ASSUME NEW fs, NEW n \in Nat, Sized(fs, n)
  PROVE  DataOf(fs, n) \in Seq(Nat \X Nat)
<1>1. DataOf(fs, n) = InOrder(Places(fs, n))
  BY DEF DataOf, Places
<1> DEFINE P == Places(fs, n)
<1>2. Listed(P)
  BY PlacesListed
<1> HIDE DEF P
<1>3. InOrder(P) \in Seq(P) /\ P \subseteq Nat \X Nat
  BY <1>2 DEF Listed
<1>4. InOrder(P) \in Seq(Nat \X Nat)
  BY <1>3
<1> QED BY <1>1, <1>4 DEF P

LEMMA PayloadIs ==
  ASSUME NEW i \in Nat, NEW f, f.size \in Nat
  PROVE  Payload(i, f) \in Seq(Nat \X Nat) /\ Len(Payload(i, f)) = f.size
  BY DEF Payload

LEMMA DataOneMore ==
  ASSUME NEW fs, NEW n \in Nat, Sized(fs, n + 1)
  PROVE  DataOf(fs, n + 1) =
           IF Begun(fs[n + 1]) THEN Payload(n + 1, fs[n + 1])
           ELSE IF IsData(fs, n + 1) THEN DataOf(fs, n) \o Payload(n + 1, fs[n + 1])
           ELSE DataOf(fs, n)
<1> DEFINE P == Places(fs, n)
           i == n + 1
           f == fs[n + 1]
<1>1. DataOf(fs, i) = InOrder(Places(fs, i)) /\ DataOf(fs, n) = InOrder(P)
  BY DEF DataOf, Places
<1>2. Sized(fs, n) /\ i \in Nat /\ f.size \in Nat
  BY DEF Sized
<1>3. Listed(P)
  BY <1>2, PlacesListed
<1>4. \A p \in P : p[1] < i
  BY PlacesBefore
<1>5. Places(fs, i) = IF Begun(f) THEN PiecesOf(i, f)
                      ELSE IF IsData(fs, i) THEN P \cup PiecesOf(i, f) ELSE P
  BY PlacesOneMore
<1> HIDE DEF P, i, f
<1>6. InOrder(P \cup PiecesOf(i, f)) = InOrder(P) \o Payload(i, f)
  BY <1>2, <1>3, <1>4, InOrderPieces
<1>7. InOrder(PiecesOf(i, f)) = Payload(i, f)
  <2> DEFINE none == {}
             q == PiecesOf(i, f)
             d == Payload(i, f)
  <2>1. Listed(none) /\ InOrder(none) = <<>> /\ \A p \in none : p[1] < i
    BY NothingListed
  <2> HIDE DEF none
  <2>2. InOrder(none \cup q) = InOrder(none) \o d
    BY <1>2, <2>1, InOrderPieces
  <2>3. none \cup q = q
    BY DEF none
  <2>4. d \in Seq(Nat \X Nat)
    BY <1>2, PayloadIs
  <2> HIDE DEF q, d
  <2>5. <<>> \o d = d
    BY <2>4, ConcatEmptySeq
  <2>6. InOrder(q) = d
    BY <2>1, <2>2, <2>3, <2>5
  <2> QED BY <2>6 DEF q, d
<1>8. DataOf(fs, i) = IF Begun(f) THEN Payload(i, f)
                      ELSE IF IsData(fs, i) THEN DataOf(fs, n) \o Payload(i, f) ELSE DataOf(fs, n)
  BY <1>1, <1>5, <1>6, <1>7
<1> QED BY <1>8 DEF i, f

-----------------------------------------------------------------------------
(* What a frame means is settled by the frames up to it. *)

Same(fs, gs, n) == \A i \in 1..n : fs[i] = gs[i]

LEMMA FirstSame ==
  ASSUME NEW fs, NEW gs, NEW n \in Nat, Same(fs, gs, n), NEW i \in 1..n
  PROVE  FirstOf(fs, i) = FirstOf(gs, i)
<1>1. {j \in 1..i : fs[j].op \in {"text", "binary"}}
         = {j \in 1..i : gs[j].op \in {"text", "binary"}}
  BY DEF Same
<1> QED BY <1>1 DEF FirstOf

LEMMA OpenSame ==
  ASSUME NEW fs, NEW gs, NEW n \in Nat, Same(fs, gs, n), NEW i \in 1..(n + 1)
  PROVE  Open(fs, i) <=> Open(gs, i)
<1>1. \A j \in 1..(i - 1) : fs[j] = gs[j]
  BY DEF Same
<1>2. \A j \in 1..(i - 1) : IsData(fs, j) <=> IsData(gs, j)
  BY <1>1 DEF IsData
<1>3. ASSUME Open(fs, i) PROVE Open(gs, i)
  <2>1. PICK j \in 1..(i - 1) :
          IsData(fs, j) /\ ~fs[j].fin /\ \A k \in (j + 1)..(i - 1) : ~IsData(fs, k)
    BY <1>3 DEF Open
  <2>2. IsData(gs, j) /\ ~gs[j].fin
    BY <1>1, <1>2, <2>1
  <2>3. \A k \in (j + 1)..(i - 1) : ~IsData(gs, k)
    BY <1>2, <2>1
  <2> QED BY <2>2, <2>3 DEF Open
<1>4. ASSUME Open(gs, i) PROVE Open(fs, i)
  <2>1. PICK j \in 1..(i - 1) :
          IsData(gs, j) /\ ~gs[j].fin /\ \A k \in (j + 1)..(i - 1) : ~IsData(gs, k)
    BY <1>4 DEF Open
  <2>2. IsData(fs, j) /\ ~fs[j].fin
    BY <1>1, <1>2, <2>1
  <2>3. \A k \in (j + 1)..(i - 1) : ~IsData(fs, k)
    BY <1>2, <2>1
  <2> QED BY <2>2, <2>3 DEF Open
<1> QED BY <1>3, <1>4

LEMMA DataSame ==
  ASSUME NEW fs, NEW gs, NEW n \in Nat, Same(fs, gs, n), NEW i \in 1..n
  PROVE  DataOf(fs, i) = DataOf(gs, i)
<1>1. FirstOf(fs, i) = FirstOf(gs, i)
  BY FirstSame
<1>2. Parts(fs, i) = Parts(gs, i)
  BY <1>1 DEF Parts, Same, IsData
<1>3. \A j \in Parts(fs, i) : fs[j] = gs[j]
  BY DEF Parts, Same
<1>4. {PiecesOf(j, fs[j]) : j \in Parts(fs, i)} = {PiecesOf(j, gs[j]) : j \in Parts(gs, i)}
  BY <1>2, <1>3
<1> QED BY <1>4 DEF DataOf

LEMMA WrongSame ==
  ASSUME NEW fs, NEW gs, NEW n \in Nat, Same(fs, gs, n), NEW i \in 1..n
  PROVE  Wrong(fs, i) <=> Wrong(gs, i)
<1>1. fs[i] = gs[i]
  BY DEF Same
<1>2. DataOf(fs, i) = DataOf(gs, i)
  BY DataSame
<1>3. Open(fs, i) <=> Open(gs, i)
  BY OpenSame
<1> QED BY <1>1, <1>2, <1>3 DEF Wrong, IsData

LEMMA MessageSame ==
  ASSUME NEW fs, NEW gs, NEW n \in Nat, Same(fs, gs, n), NEW i \in 1..n, FirstOf(fs, i) # 0
  PROVE  MessageAt(fs, i) = MessageAt(gs, i)
<1>1. DataOf(fs, i) = DataOf(gs, i)
  BY DataSame
<1>2. FirstOf(fs, i) = FirstOf(gs, i) /\ FirstOf(fs, i) \in 1..n
  BY FirstSame, FirstIs
<1>3. fs[FirstOf(fs, i)] = gs[FirstOf(gs, i)]
  BY <1>2 DEF Same
<1> QED BY <1>1, <1>3 DEF MessageAt

-----------------------------------------------------------------------------
(* The frames that count. *)

LEMMA LeastIs ==
  ASSUME NEW S, S \subseteq Nat, NEW x \in S
  PROVE  Min(S) \in S /\ \A y \in S : Min(S) <= y
<1> DEFINE less == {p \in Nat \X Nat : p[1] < p[2]}
<1>1. IsWellFoundedOn(less, Nat)
  <2>1. less = OpToRel(<, Nat)
    BY DEF OpToRel
  <2> HIDE DEF less
  <2> QED BY <2>1, NatLessThanWellFounded
<1> HIDE DEF less
<1>2. PICK m \in S : \A k \in S : ~ (<<k, m>> \in less)
  BY <1>1, WFMin
<1>3. \A y \in S : m <= y
  <2> SUFFICES ASSUME NEW y \in S PROVE m <= y
    OBVIOUS
  <2>1. ~ (<<y, m>> \in less)
    BY <1>2
  <2> QED BY <2>1 DEF less
<1>4. Min(S) = CHOOSE z \in S : \A y \in S : z <= y
  BY DEF Min
<1> QED BY <1>3, <1>4

Bad(fs, i) == Wrong(fs, i) \/ fs[i].op = "close"

LEMMA GoodIs ==
  ASSUME NEW fs, Len(fs) \in Nat, DOMAIN fs = 1..Len(fs)
  PROVE  /\ Good(fs) \in 0..Len(fs)
         /\ \A i \in 1..Good(fs) : ~Bad(fs, i)
         /\ Good(fs) < Len(fs) => Bad(fs, Good(fs) + 1)
<1> DEFINE L == Len(fs)
           S == {i \in DOMAIN fs : Wrong(fs, i) \/ fs[i].op = "close"} \cup {L + 1}
           g == Good(fs)
<1>1. S \subseteq 1..(L + 1) /\ L + 1 \in S /\ S \subseteq Nat
  OBVIOUS
<1>2. \A i \in 1..L : Bad(fs, i) <=> i \in S
  BY DEF Bad
<1>3. g = Min(S) - 1
  BY DEF Good
<1> HIDE DEF S, g
<1> DEFINE m == Min(S)
<1>4. m \in S /\ \A y \in S : m <= y
  BY <1>1, LeastIs
<1> HIDE DEF m, L
<1>5. g = m - 1 /\ L \in Nat /\ m \in 1..(L + 1)
  BY <1>1, <1>3, <1>4 DEF m, L
<1>6. g \in 0..L
  BY <1>5
<1>7. \A i \in 1..g : ~Bad(fs, i)
  BY <1>2, <1>4, <1>5
<1>8. g < L => Bad(fs, g + 1)
  BY <1>2, <1>4, <1>5
<1> QED BY <1>6, <1>7, <1>8 DEF g, L

LEMMA GoodExactly ==
  ASSUME NEW fs, Len(fs) \in Nat, DOMAIN fs = 1..Len(fs), NEW g \in 0..Len(fs),
         \A i \in 1..g : ~Bad(fs, i), g < Len(fs) => Bad(fs, g + 1)
  PROVE  Good(fs) = g
<1> DEFINE h == Good(fs)
           L == Len(fs)
<1>1. h \in 0..L /\ (\A i \in 1..h : ~Bad(fs, i)) /\ (h < L => Bad(fs, h + 1))
  BY GoodIs
<1> HIDE DEF h
<1>2. ~(h < g)
  <2>1. h < g => h + 1 \in 1..g /\ h < L
    BY <1>1
  <2> QED BY <1>1, <2>1
<1>3. ~(g < h)
  <2>1. g < h => g + 1 \in 1..h /\ g < L
    BY <1>1
  <2> QED BY <1>1, <2>1
<1> QED BY <1>1, <1>2, <1>3 DEF h

LEMMA BadSame ==
  ASSUME NEW fs, NEW gs, NEW n \in Nat, Same(fs, gs, n), NEW i \in 1..n
  PROVE  Bad(fs, i) <=> Bad(gs, i)
<1>1. fs[i] = gs[i]
  BY DEF Same
<1> QED BY <1>1, WrongSame DEF Bad

LEMMA AppendKeeps ==
  ASSUME NEW T, NEW s \in Seq(T), NEW x \in T
  PROVE  /\ Append(s, x) \in Seq(T) /\ Len(Append(s, x)) = Len(s) + 1
         /\ Same(s, Append(s, x), Len(s)) /\ Append(s, x)[Len(s) + 1] = x
         /\ DOMAIN Append(s, x) = 1..(Len(s) + 1)
  BY DEF Same

LEMMA GoodOneMore ==
  ASSUME NEW T, NEW fs \in Seq(T), NEW f \in T
  PROVE  /\ Good(fs) < Len(fs) => Good(Append(fs, f)) = Good(fs)
         /\ Good(Append(fs, f)) \in {Good(fs), Good(fs) + 1}
<1> DEFINE gs == Append(fs, f)
           g == Good(fs)
           L == Len(fs)
<1>1. gs \in Seq(T) /\ Len(gs) = L + 1 /\ Same(fs, gs, L) /\ DOMAIN gs = 1..(L + 1) /\ L \in Nat
  BY AppendKeeps
<1>2. g \in 0..L /\ (\A i \in 1..g : ~Bad(fs, i)) /\ (g < L => Bad(fs, g + 1))
  BY GoodIs
<1> HIDE DEF gs, g, L
<1>3. Len(gs) \in Nat /\ DOMAIN gs = 1..Len(gs)
  BY <1>1
<1>4. \A i \in 1..g : ~Bad(gs, i)
  BY <1>1, <1>2, BadSame
<1>5. ASSUME g < L PROVE Good(gs) = g
  <2>1. Bad(gs, g + 1)
    <3>1. g + 1 \in 1..L
      BY <1>1, <1>2, <1>5
    <3> QED BY <1>1, <1>2, <1>5, <3>1, BadSame
  <2>2. g \in 0..Len(gs)
    BY <1>1, <1>2
  <2> QED BY <1>3, <1>4, <2>1, <2>2, GoodExactly
<1>6. ASSUME g = L PROVE Good(gs) \in {g, g + 1}
  <2>1. CASE Bad(gs, g + 1)
    <3>1. g \in 0..Len(gs)
      BY <1>1, <1>2
    <3>2. Good(gs) = g
      BY <1>3, <1>4, <2>1, <3>1, GoodExactly
    <3> QED BY <3>2
  <2>2. CASE ~Bad(gs, g + 1)
    <3>1. g + 1 \in 0..Len(gs) /\ ~(g + 1 < Len(gs))
      BY <1>1, <1>2, <1>6
    <3>2. \A i \in 1..(g + 1) : ~Bad(gs, i)
      BY <1>2, <1>4, <2>2
    <3> DEFINE h == g + 1
    <3>3. /\ h \in 0..Len(gs) /\ (\A i \in 1..h : ~Bad(gs, i))
          /\ (h < Len(gs) => Bad(gs, h + 1))
      BY <3>1, <3>2
    <3> HIDE DEF h
    <3>4. Good(gs) = h
      BY <1>3, <3>3, GoodExactly
    <3> QED BY <3>4 DEF h
  <2> QED BY <2>1, <2>2
<1>7. g < L \/ g = L
  BY <1>1, <1>2
<1>8. (g < L => Good(gs) = g) /\ Good(gs) \in {g, g + 1}
  BY <1>5, <1>6, <1>7
<1> QED BY <1>8 DEF gs, g, L

-----------------------------------------------------------------------------
(* Messages and pings up to a frame. *)

\* An open message, and one that gets a frame, has a first frame.
LEMMA OpenHasFirst ==
  ASSUME NEW fs, NEW n \in Nat, \A i \in 1..n : ~Bad(fs, i)
  PROVE  /\ Open(fs, n + 1) => FirstOf(fs, n) # 0
         /\ n # 0 /\ IsData(fs, n) => FirstOf(fs, n) # 0
<1> DEFINE F(m) == /\ Open(fs, m + 1) => FirstOf(fs, m) # 0
                   /\ m # 0 /\ IsData(fs, m) => FirstOf(fs, m) # 0
           S == {m \in Nat : m <= n => F(m)}
<1>1. 0 \in S
  <2>1. ~Open(fs, 0 + 1)
    BY NoneOpen
  <2> QED BY <2>1
<1>2. ASSUME NEW m \in Nat, m \in S PROVE m + 1 \in S
  <2>1. ASSUME m + 1 <= n PROVE F(m + 1)
    <3> DEFINE i == m + 1
    <3>1. i \in Nat \ {0} /\ m <= n /\ i \in 1..n
      BY <2>1
    <3>2. Open(fs, i) => FirstOf(fs, m) # 0
      BY <1>2, <3>1
    <3>3. FirstOf(fs, i) = IF Begun(fs[i]) THEN i ELSE FirstOf(fs, m)
      BY FirstOneMore
    <3> HIDE DEF i
    <3>4. Open(fs, i + 1) <=> IF IsData(fs, i) THEN ~fs[i].fin ELSE Open(fs, i)
      BY <3>1, OpenOneMore
    <3>5. IsData(fs, i) => FirstOf(fs, i) # 0
      <4>1. ~Wrong(fs, i)
        BY <3>1 DEF Bad
      <4>2. IsData(fs, i) => Begun(fs[i]) \/ Open(fs, i)
        BY <4>1 DEF Wrong, IsData, Data, Begun
      <4> QED BY <3>1, <3>2, <3>3, <4>2
    <3>6. Open(fs, i + 1) => FirstOf(fs, i) # 0
      <4>1. ~IsData(fs, i) => ~Begun(fs[i])
        BY DEF IsData, Data, Begun
      <4> QED BY <3>2, <3>3, <3>4, <3>5, <4>1
    <3>7. F(i)
      BY <3>5, <3>6
    <3> QED BY <3>7 DEF i
  <2>2. m + 1 \in Nat
    OBVIOUS
  <2> HIDE DEF F
  <2> QED BY <2>1, <2>2
<1> HIDE DEF S
<1>3. n \in S
  BY <1>1, <1>2, EveryNumber
<1> QED BY <1>3 DEF S

Finals(fs) == {i \in 1..Len(fs) : IsData(fs, i) /\ fs[i].fin}
Pinged(fs) == {i \in 1..Len(fs) : fs[i].op = "ping"}
AllMessages(fs) == [i \in 1..Len(fs) |-> MessageAt(fs, i)]
AllPayloads(fs) == [i \in 1..Len(fs) |-> Payload(i, fs[i])]

MessagesTo(fs, n) == Row(Finals(fs), n, AllMessages(fs))
PingsTo(fs, n) == Row(Pinged(fs), n, AllPayloads(fs))

LEMMA MeaningIs ==
  ASSUME NEW fs, Len(fs) \in Nat, DOMAIN fs = 1..Len(fs)
  PROVE  /\ Meaning(fs).good = Good(fs)
         /\ Meaning(fs).messages = MessagesTo(fs, Good(fs))
         /\ Meaning(fs).pings = PingsTo(fs, Good(fs))
<1> DEFINE g == Good(fs)
<1>1. g \in 0..Len(fs)
  BY GoodIs
<1> HIDE DEF g
<1>2. Ends(fs) = InOrder(Marks(Finals(fs), g))
  <2>1. {j \in 1..g : IsData(fs, j) /\ fs[j].fin} = {j \in 1..g : j \in Finals(fs)}
    BY <1>1 DEF Finals
  <2> QED BY <2>1 DEF Ends, Marks, g
<1>3. Pings(fs) = InOrder(Marks(Pinged(fs), g))
  <2>1. {j \in 1..g : fs[j].op = "ping"} = {j \in 1..g : j \in Pinged(fs)}
    BY <1>1 DEF Pinged
  <2> QED BY <2>1 DEF Pings, Marks, g
<1>4. Meaning(fs).messages = MessagesTo(fs, g)
  <2> DEFINE l == InOrder(Marks(Finals(fs), g))
  <2>1. l \in Seq(Marks(Finals(fs), g))
    BY <1>1, MarksListed DEF Listed
  <2>2. \A p \in Marks(Finals(fs), g) : p[1] \in 1..Len(fs)
    BY <1>1 DEF Marks
  <2>3. Meaning(fs).messages = [k \in DOMAIN l |-> MessageAt(fs, l[k][1])]
    BY <1>2 DEF Meaning
  <2>4. MessagesTo(fs, g) = [k \in DOMAIN l |-> AllMessages(fs)[l[k][1]]]
    BY DEF MessagesTo, Row
  <2> HIDE DEF l
  <2>5. \A k \in DOMAIN l : l[k][1] \in 1..Len(fs)
    BY <2>1, <2>2
  <2>6. \A k \in DOMAIN l : AllMessages(fs)[l[k][1]] = MessageAt(fs, l[k][1])
    BY <2>5 DEF AllMessages
  <2> QED BY <2>3, <2>4, <2>6
<1>5. Meaning(fs).pings = PingsTo(fs, g)
  <2> DEFINE l == InOrder(Marks(Pinged(fs), g))
  <2>1. l \in Seq(Marks(Pinged(fs), g))
    BY <1>1, MarksListed DEF Listed
  <2>2. \A p \in Marks(Pinged(fs), g) : p[1] \in 1..Len(fs)
    BY <1>1 DEF Marks
  <2>3. Meaning(fs).pings = [k \in DOMAIN l |-> Payload(l[k][1], fs[l[k][1]])]
    BY <1>3 DEF Meaning
  <2>4. PingsTo(fs, g) = [k \in DOMAIN l |-> AllPayloads(fs)[l[k][1]]]
    BY DEF PingsTo, Row
  <2> HIDE DEF l
  <2>5. \A k \in DOMAIN l : l[k][1] \in 1..Len(fs)
    BY <2>1, <2>2
  <2>6. \A k \in DOMAIN l : AllPayloads(fs)[l[k][1]] = Payload(l[k][1], fs[l[k][1]])
    BY <2>5 DEF AllPayloads
  <2> QED BY <2>3, <2>4, <2>6
<1>6. Meaning(fs).good = g
  BY DEF Meaning, g
<1> QED BY <1>4, <1>5, <1>6 DEF g

\* What the rows hold.
MessageSet(fs) == {MessageAt(fs, i) : i \in 1..Len(fs)}
PayloadSet(fs) == {Payload(i, fs[i]) : i \in 1..Len(fs)}

LEMMA MessagesInto ==
  ASSUME NEW fs, Len(fs) \in Nat, NEW n \in 0..Len(fs)
  PROVE  Into(AllMessages(fs), n, MessageSet(fs)) /\ Into(AllPayloads(fs), n, PayloadSet(fs))
BY DEF Into, AllMessages, AllPayloads, MessageSet, PayloadSet

LEMMA RowsAre ==
  ASSUME NEW fs, Len(fs) \in Nat, NEW n \in 0..Len(fs)
  PROVE  /\ MessagesTo(fs, n) \in Seq(MessageSet(fs))
         /\ PingsTo(fs, n) \in Seq(PayloadSet(fs))
<1>1. Into(AllMessages(fs), n, MessageSet(fs)) /\ Into(AllPayloads(fs), n, PayloadSet(fs))
  BY MessagesInto
<1>2. n \in Nat
  OBVIOUS
<1> QED BY <1>1, <1>2, RowIs DEF RowOf, MessagesTo, PingsTo

\* One frame more.
LEMMA MessagesOneMore ==
  ASSUME NEW fs, Len(fs) \in Nat, NEW n \in Nat, n + 1 \in 1..Len(fs)
  PROVE  /\ MessagesTo(fs, n + 1) = IF IsData(fs, n + 1) /\ fs[n + 1].fin
                                    THEN Append(MessagesTo(fs, n), MessageAt(fs, n + 1))
                                    ELSE MessagesTo(fs, n)
         /\ PingsTo(fs, n + 1) = IF fs[n + 1].op = "ping"
                                 THEN Append(PingsTo(fs, n), Payload(n + 1, fs[n + 1]))
                                 ELSE PingsTo(fs, n)
<1>1. Into(AllMessages(fs), n + 1, MessageSet(fs)) /\ Into(AllPayloads(fs), n + 1, PayloadSet(fs))
  BY MessagesInto
<1>2. /\ AllMessages(fs)[n + 1] = MessageAt(fs, n + 1)
      /\ AllPayloads(fs)[n + 1] = Payload(n + 1, fs[n + 1])
  BY DEF AllMessages, AllPayloads
<1>3. /\ n + 1 \in Finals(fs) <=> IsData(fs, n + 1) /\ fs[n + 1].fin
      /\ n + 1 \in Pinged(fs) <=> fs[n + 1].op = "ping"
  BY DEF Finals, Pinged
<1> DEFINE i == n + 1
           e == AllMessages(fs)
           d == AllPayloads(fs)
           K == Finals(fs)
           J == Pinged(fs)
<1>4. Row(K, n + 1, e) = IF n + 1 \in K THEN Append(Row(K, n, e), e[n + 1]) ELSE Row(K, n, e)
  BY <1>1, RowOneMore
<1>5. Row(J, n + 1, d) = IF n + 1 \in J THEN Append(Row(J, n, d), d[n + 1]) ELSE Row(J, n, d)
  BY <1>1, RowOneMore
<1>6. MessagesTo(fs, n + 1) = IF IsData(fs, n + 1) /\ fs[n + 1].fin
                              THEN Append(MessagesTo(fs, n), MessageAt(fs, n + 1))
                              ELSE MessagesTo(fs, n)
  BY <1>2, <1>3, <1>4 DEF MessagesTo
<1>7. PingsTo(fs, n + 1) = IF fs[n + 1].op = "ping"
                           THEN Append(PingsTo(fs, n), Payload(n + 1, fs[n + 1]))
                           ELSE PingsTo(fs, n)
  BY <1>2, <1>3, <1>5 DEF PingsTo
<1> QED BY <1>6, <1>7

\* What was meant up to a frame is the beginning of what is meant.
LEMMA MessagesBegin ==
  ASSUME NEW fs, Len(fs) \in Nat, NEW m \in 0..Len(fs), NEW n \in 0..m
  PROVE  Begins(MessagesTo(fs, n), MessagesTo(fs, m)) /\ Begins(PingsTo(fs, n), PingsTo(fs, m))
<1>1. Into(AllMessages(fs), m, MessageSet(fs)) /\ Into(AllPayloads(fs), m, PayloadSet(fs))
  BY MessagesInto
<1>2. n \in Nat /\ m \in Nat /\ n <= m
  OBVIOUS
<1> QED BY <1>1, <1>2, RowBegins DEF MessagesTo, PingsTo

LEMMA MessagesSame ==
  ASSUME NEW fs, NEW gs, Len(fs) \in Nat, Len(gs) \in Nat, NEW n \in 0..Len(fs), n <= Len(gs),
         Same(fs, gs, n), \A i \in 1..n : ~Bad(fs, i)
  PROVE  MessagesTo(fs, n) = MessagesTo(gs, n) /\ PingsTo(fs, n) = PingsTo(gs, n)
<1>1. \A i \in 1..n : fs[i] = gs[i] /\ i \in 1..Len(fs) /\ i \in 1..Len(gs)
  BY DEF Same
<1>2. \A i \in 1..n : /\ i \in Finals(fs) <=> i \in Finals(gs)
                      /\ i \in Pinged(fs) <=> i \in Pinged(gs)
  BY <1>1 DEF Finals, Pinged, IsData
<1>3. \A i \in 1..n : i \in Finals(fs) => AllMessages(fs)[i] = AllMessages(gs)[i]
  <2> SUFFICES ASSUME NEW i \in 1..n, i \in Finals(fs)
               PROVE  AllMessages(fs)[i] = AllMessages(gs)[i]
    OBVIOUS
  <2>1. i \in Nat /\ i # 0 /\ n \in Nat /\ IsData(fs, i) /\ \A k \in 1..i : ~Bad(fs, k)
    BY DEF Finals
  <2>2. FirstOf(fs, i) # 0
    BY <2>1, OpenHasFirst
  <2>3. MessageAt(fs, i) = MessageAt(gs, i)
    BY <2>1, <2>2, MessageSame
  <2> QED BY <1>1, <2>3 DEF AllMessages
<1>4. \A i \in 1..n : AllPayloads(fs)[i] = AllPayloads(gs)[i]
  BY <1>1 DEF AllPayloads
<1>5. n \in Nat
  OBVIOUS
<1>6. Row(Finals(fs), n, AllMessages(fs)) = Row(Finals(gs), n, AllMessages(gs))
  BY <1>2, <1>3, <1>5, RowSame
<1>7. Row(Pinged(fs), n, AllPayloads(fs)) = Row(Pinged(gs), n, AllPayloads(gs))
  BY <1>2, <1>4, <1>5, RowSame
<1> QED BY <1>6, <1>7 DEF MessagesTo, PingsTo

-----------------------------------------------------------------------------
(* One frame more changes what was meant by one entry at most. *)

Grown(r, s) == s = r \/ (Len(s) = Len(r) + 1 /\ SubSeq(s, 1, Len(r)) = r)

LEMMA AppendGrows ==
  ASSUME NEW T, NEW r \in Seq(T), NEW x
  PROVE  Grown(r, r) /\ Grown(r, Append(r, x))
<1> DEFINE V == T \cup {x}
           s == Append(r, x)
           c == SubSeq(s, 1, Len(r))
<1>1. r \in Seq(V) /\ x \in V
  OBVIOUS
<1> HIDE DEF V
<1>2. s \in Seq(V) /\ Len(s) = Len(r) + 1 /\ \A i \in 1..Len(r) : s[i] = r[i]
  BY <1>1, AppendProperties
<1> HIDE DEF s
<1> DEFINE n == Len(r)
<1>3. n \in Nat /\ \A i \in 1..n : s[i] \in V
  BY <1>1, <1>2
<1>4. c \in Seq(V) /\ Len(c) = n /\ \A i \in 1..n : c[i] = s[i]
  BY <1>2, <1>3
<1> HIDE DEF c
<1>5. c = r
  BY <1>1, <1>2, <1>4, SeqEqual
<1>6. Len(s) = Len(r) + 1 /\ SubSeq(s, 1, Len(r)) = r
  BY <1>2, <1>5 DEF c
<1> QED BY <1>6 DEF Grown, s

LEMMA MeaningGrows ==
  ASSUME NEW T, NEW fs \in Seq(T), NEW f \in T
  PROVE  /\ Grown(Meaning(fs).messages, Meaning(Append(fs, f)).messages)
         /\ Grown(Meaning(fs).pings, Meaning(Append(fs, f)).pings)
<1> DEFINE gs == Append(fs, f)
           g == Good(fs)
           h == Good(gs)
           L == Len(fs)
<1>1. /\ gs \in Seq(T) /\ Len(gs) = L + 1 /\ Same(fs, gs, L) /\ DOMAIN gs = 1..(L + 1)
      /\ L \in Nat /\ DOMAIN fs = 1..L
  BY AppendKeeps
<1>2. (g < L => h = g) /\ h \in {g, g + 1}
  BY GoodOneMore
<1>3. g \in 0..L /\ \A i \in 1..g : ~Bad(fs, i)
  BY GoodIs
<1>4. /\ Meaning(fs).messages = MessagesTo(fs, g) /\ Meaning(fs).pings = PingsTo(fs, g)
  BY MeaningIs
<1>5. /\ Meaning(gs).messages = MessagesTo(gs, h) /\ Meaning(gs).pings = PingsTo(gs, h)
  <2> HIDE DEF gs
  <2> QED BY <1>1, MeaningIs
<1> HIDE DEF gs, g, h, L
<1>6. MessagesTo(fs, g) = MessagesTo(gs, g) /\ PingsTo(fs, g) = PingsTo(gs, g)
  <2>1. Same(fs, gs, g) /\ g <= Len(gs) /\ Len(gs) \in Nat /\ g \in 0..Len(fs) /\ Len(fs) \in Nat
    BY <1>1, <1>3 DEF Same, L
  <2> QED BY <1>3, <2>1, MessagesSame
<1>7. MessagesTo(gs, g) \in Seq(MessageSet(gs)) /\ PingsTo(gs, g) \in Seq(PayloadSet(gs))
  BY <1>1, <1>3, RowsAre
<1> DEFINE fm == Meaning(fs).messages
           fp == Meaning(fs).pings
           gm == Meaning(gs).messages
           gp == Meaning(gs).pings
<1> HIDE DEF fm, fp, gm, gp
<1>8. fm = MessagesTo(gs, g) /\ fp = PingsTo(gs, g) /\ gm = MessagesTo(gs, h) /\ gp = PingsTo(gs, h)
  BY <1>4, <1>5, <1>6 DEF fm, fp, gm, gp
<1>9. ASSUME h = g PROVE Grown(fm, gm) /\ Grown(fp, gp)
  BY <1>9, <1>8 DEF Grown
<1>10. ASSUME h = g + 1 PROVE Grown(fm, gm) /\ Grown(fp, gp)
  <2>1. g \in Nat /\ g + 1 \in 1..Len(gs) /\ Len(gs) \in Nat
    BY <1>1, <1>2, <1>3, <1>10
  <2> DEFINE m == MessagesTo(gs, g)
             p == PingsTo(gs, g)
  <2>2. /\ MessagesTo(gs, h) \in {m, Append(m, MessageAt(gs, h))}
        /\ PingsTo(gs, h) \in {p, Append(p, Payload(h, gs[h]))}
    BY <1>10, <2>1, MessagesOneMore
  <2> HIDE DEF m, p
  <2>3. Grown(m, m) /\ Grown(m, Append(m, MessageAt(gs, h)))
    BY <1>7, AppendGrows DEF m
  <2>4. Grown(p, p) /\ Grown(p, Append(p, Payload(h, gs[h])))
    BY <1>7, AppendGrows DEF p
  <2>5. Grown(m, MessagesTo(gs, h)) /\ Grown(p, PingsTo(gs, h))
    BY <2>2, <2>3, <2>4
  <2> QED BY <1>8, <2>5 DEF m, p
<1>11. Grown(fm, gm) /\ Grown(fp, gp)
  BY <1>2, <1>9, <1>10
<1> QED BY <1>11 DEF gs, fm, fp, gm, gp

-----------------------------------------------------------------------------
(* The frames in the bytes. *)

UnitsIn(f) == 2 + (IF f.size > Short THEN 1 ELSE 0) + f.size

LEMMA UnitsAre ==
  ASSUME NEW i \in Nat, NEW f \in Frames
  PROVE  /\ UnitsOf(i, f) \in Seq(Unit) /\ Len(UnitsOf(i, f)) = UnitsIn(f)
         /\ UnitsIn(f) \in Nat \ {0}
         /\ \A k \in 1..UnitsIn(f) : UnitsOf(i, f)[k].f = i
<1> DEFINE b == 2 + (IF f.size > Short THEN 1 ELSE 0)
           e(k) == [f |-> i, part |-> IF k = 1 THEN "head" ELSE IF k = 3 THEN "mask" ELSE
                                      IF f.size > Short THEN "length" ELSE "mask"]
           h == [k \in 1..b |-> e(k)]
           v == [f |-> i, part |-> "piece"]
           p == [k \in 1..f.size |-> v]
<1>1. b \in Nat \ {0} /\ f.size \in Nat
  BY FramesAssumption
<1>2. UnitsOf(i, f) = h \o p /\ UnitsIn(f) = b + f.size
  BY DEF UnitsOf, UnitsIn
<1> HIDE DEF b
<1>3. h \in Seq(Unit) /\ Len(h) = b /\ \A k \in 1..b : h[k].f = i
  <2>1. \A k \in 1..b : e(k) \in Unit /\ e(k).f = i
    BY DEF Unit
  <2> HIDE DEF e
  <2> QED BY <1>1, <2>1
<1>4. p \in Seq(Unit) /\ Len(p) = f.size /\ \A k \in 1..f.size : p[k].f = i
  <2>1. v \in Unit /\ v.f = i
    BY DEF Unit
  <2> HIDE DEF v
  <2> QED BY <1>1, <2>1
<1> HIDE DEF h, p
<1> DEFINE u == h \o p
<1>5. u \in Seq(Unit) /\ Len(u) = b + f.size
      /\ \A k \in 1..(b + f.size) : u[k] = IF k <= b THEN h[k] ELSE p[k - b]
  <2>1. /\ h \o p \in Seq(Unit) /\ Len(h \o p) = Len(h) + Len(p)
        /\ \A k \in 1..(Len(h) + Len(p)) : (h \o p)[k] = IF k <= Len(h) THEN h[k] ELSE p[k - Len(h)]
    BY <1>3, <1>4, ConcatProperties
  <2> HIDE DEF u
  <2>2. u = h \o p
    BY DEF u
  <2> QED BY <1>3, <1>4, <2>1, <2>2
<1> HIDE DEF u
<1>6. \A k \in 1..(b + f.size) : u[k].f = i
  <2> SUFFICES ASSUME NEW k \in 1..(b + f.size) PROVE u[k].f = i
    OBVIOUS
  <2>1. CASE k <= b
    BY <1>1, <1>3, <1>5, <2>1
  <2>2. CASE ~(k <= b)
    <3>1. k - b \in 1..f.size /\ u[k] = p[k - b]
      BY <1>1, <1>5, <2>2
    <3> QED BY <1>4, <3>1
  <2> QED BY <2>1, <2>2
<1> QED BY <1>1, <1>2, <1>5, <1>6 DEF u

\* After s units that are none of a frame come the frames after n; off counts the units of
\* all frames up to each.
Laid(rest, s, fs, n, off) ==
  /\ \A i \in 1..Len(fs) : off[i] = off[i - 1] + UnitsIn(fs[i]) /\ off[i] <= off[Len(fs)]
  /\ off[n] <= off[Len(fs)]
  /\ Len(rest) = s + (off[Len(fs)] - off[n])
  /\ \A i \in 1..Len(fs) : \A k \in 1..(off[Len(fs)] - off[n]) :
       off[i - 1] < off[n] + k /\ off[n] + k <= off[i] => rest[s + k].f = i
LaidOut(rest, s, fs, n) == \E off \in [0..Len(fs) -> Nat] : Laid(rest, s, fs, n, off)

LEMMA LaidGrows ==
  ASSUME NEW rest \in Seq(Unit), NEW s \in Nat, NEW fs \in Seq(Frames), NEW n \in 0..Len(fs),
         LaidOut(rest, s, fs, n), NEW f \in Frames
  PROVE  LaidOut(rest \o UnitsOf(Len(fs) + 1, f), s, Append(fs, f), n)
<1>1. PICK off \in [0..Len(fs) -> Nat] : Laid(rest, s, fs, n, off)
  BY DEF LaidOut
<1> DEFINE L == Len(fs)
           gs == Append(fs, f)
           u == UnitsOf(L + 1, f)
           t == rest \o u
           d == UnitsIn(f)
           ext == [i \in 0..(L + 1) |-> IF i <= L THEN off[i] ELSE off[L] + d]
<1>2. L \in Nat /\ Len(gs) = L + 1 /\ (\A i \in 1..L : gs[i] = fs[i]) /\ gs[L + 1] = f /\ n \in 0..L
  BY AppendKeeps DEF Same
<1>3. u \in Seq(Unit) /\ Len(u) = d /\ d \in Nat \ {0} /\ \A k \in 1..d : u[k].f = L + 1
  <2>1. L + 1 \in Nat
    OBVIOUS
  <2> HIDE DEF L, u, d
  <2> QED BY <2>1, UnitsAre DEF u, d
<1>4. off \in [0..L -> Nat] /\ off[L] \in Nat /\ off[n] \in Nat
  OBVIOUS
<1>5. /\ \A i \in 1..L : off[i] = off[i - 1] + UnitsIn(fs[i]) /\ off[i] <= off[L]
      /\ off[n] <= off[L] /\ Len(rest) = s + (off[L] - off[n])
      /\ \A i \in 1..L : \A k \in 1..(off[L] - off[n]) :
           off[i - 1] < off[n] + k /\ off[n] + k <= off[i] => rest[s + k].f = i
  BY <1>1 DEF Laid
<1> HIDE DEF L, gs, u, d
<1>6. /\ Len(t) = Len(rest) + d
      /\ \A k \in 1..(Len(rest) + d) : t[k] = IF k <= Len(rest) THEN rest[k] ELSE u[k - Len(rest)]
  BY <1>3, ConcatProperties
<1> HIDE DEF t
<1>7. ext \in [0..(L + 1) -> Nat] /\ (\A i \in 0..L : ext[i] = off[i]) /\ ext[L + 1] = off[L] + d
  BY <1>2, <1>3, <1>4
<1> HIDE DEF ext
<1>8. \A i \in 1..(L + 1) : ext[i] = ext[i - 1] + UnitsIn(gs[i]) /\ ext[i] <= ext[L + 1]
  <2> SUFFICES ASSUME NEW i \in 1..(L + 1)
               PROVE  ext[i] = ext[i - 1] + UnitsIn(gs[i]) /\ ext[i] <= ext[L + 1]
    OBVIOUS
  <2>1. CASE i <= L
    <3>1. i \in 1..L /\ i - 1 \in 0..L /\ i \in 0..L
      BY <1>2, <2>1
    <3>2. ext[i] = off[i] /\ ext[i - 1] = off[i - 1] /\ gs[i] = fs[i] /\ off[i] \in Nat
      BY <1>2, <1>4, <1>7, <3>1
    <3>3. off[i] = off[i - 1] + UnitsIn(fs[i]) /\ off[i] <= off[L]
      BY <1>5, <3>1
    <3> QED BY <1>3, <1>4, <1>7, <3>2, <3>3
  <2>2. CASE i = L + 1
    <3>1. i - 1 = L /\ L \in 0..L
      BY <1>2, <2>2
    <3>2. ext[i] = off[L] + d /\ ext[i - 1] = off[L] /\ gs[i] = f
      BY <1>2, <1>7, <2>2, <3>1
    <3> QED BY <1>3, <1>4, <1>7, <3>2 DEF d
  <2> QED BY <1>2, <2>1, <2>2
<1>9. ext[n] = off[n] /\ ext[n] <= ext[L + 1]
  BY <1>2, <1>3, <1>4, <1>5, <1>7
<1>10. Len(t) = s + (ext[L + 1] - ext[n])
  BY <1>3, <1>4, <1>5, <1>6, <1>7, <1>9
<1>11. ASSUME NEW i \in 1..(L + 1), NEW k \in 1..(ext[L + 1] - ext[n]),
              ext[i - 1] < ext[n] + k, ext[n] + k <= ext[i]
       PROVE  t[s + k].f = i
  <2> DEFINE r == Len(rest)
             w == off[n]
             z == off[L]
  <2>1. r = s + (z - w) /\ w \in Nat /\ z \in Nat /\ w <= z /\ ext[L + 1] - ext[n] = (z - w) + d
    BY <1>3, <1>4, <1>5, <1>7, <1>9
  <2>2. CASE i <= L
    <3>1. i \in 1..L /\ i - 1 \in 0..L /\ i \in 0..L
      BY <1>2, <2>2
    <3>2. ext[i] = off[i] /\ ext[i - 1] = off[i - 1] /\ off[i] <= z /\ off[i] \in Nat
      BY <1>4, <1>5, <1>7, <3>1
    <3>3. k \in 1..(z - w)
      <4> HIDE DEF w, z
      <4>1. w + k <= z
        BY <1>9, <1>11, <2>1, <3>2 DEF w
      <4> QED BY <2>1, <4>1
    <3>4. rest[s + k].f = i
      BY <1>5, <1>9, <1>11, <3>1, <3>2, <3>3
    <3>5. s + k \in 1..r
      BY <2>1, <3>3
    <3>6. t[s + k] = rest[s + k]
      BY <1>3, <1>6, <3>5
    <3> QED BY <3>4, <3>6
  <2>3. CASE i = L + 1
    <3>1. i - 1 = L /\ L \in 0..L
      BY <1>2, <2>3
    <3>2. z < w + k
      BY <1>7, <1>9, <1>11, <3>1
    <3> HIDE DEF w, z, r
    <3>3. ~(s + k <= r) /\ s + k \in 1..(r + d) /\ (s + k) - r \in 1..d
      BY <1>3, <2>1, <3>2
    <3>4. t[s + k] = u[(s + k) - r]
      BY <1>6, <3>3 DEF r
    <3> QED BY <1>3, <2>3, <3>3, <3>4
  <2> QED BY <1>2, <2>2, <2>3
<1>12. Laid(t, s, gs, n, ext)
  BY <1>2, <1>8, <1>9, <1>10, <1>11 DEF Laid
<1>13. ext \in [0..Len(gs) -> Nat]
  BY <1>2, <1>7
<1>14. LaidOut(t, s, gs, n)
  BY <1>12, <1>13 DEF LaidOut
<1> QED BY <1>14 DEF t, u, gs, L

LEMMA LaidFirst ==
  ASSUME NEW rest \in Seq(Unit), NEW fs \in Seq(Frames), NEW n \in 0..Len(fs),
         LaidOut(rest, 0, fs, n), rest # <<>>
  PROVE  n < Len(fs) /\ rest[1].f = n + 1
<1>1. PICK off \in [0..Len(fs) -> Nat] : Laid(rest, 0, fs, n, off)
  BY DEF LaidOut
<1> DEFINE L == Len(fs)
           i == n + 1
<1>2. L \in Nat /\ n \in 0..L /\ Len(rest) # 0 /\ Len(rest) \in Nat
  BY EmptySeq
<1>3. off \in [0..L -> Nat] /\ off[L] \in Nat /\ off[n] \in Nat
  OBVIOUS
<1>4. /\ \A j \in 1..L : off[j] = off[j - 1] + UnitsIn(fs[j]) /\ off[j] <= off[L]
      /\ off[n] <= off[L] /\ Len(rest) = 0 + (off[L] - off[n])
      /\ \A j \in 1..L : \A k \in 1..(off[L] - off[n]) :
           off[j - 1] < off[n] + k /\ off[n] + k <= off[j] => rest[0 + k].f = j
  BY <1>1 DEF Laid
<1> HIDE DEF L
<1>5. n < L
  <2>1. n # L
    BY <1>2, <1>3, <1>4
  <2> QED BY <1>2, <2>1
<1>6. i \in 1..L /\ i - 1 = n
  BY <1>2, <1>5
<1> HIDE DEF i
<1>7. fs[i] \in Frames
  BY <1>6 DEF L
<1>8. UnitsIn(fs[i]) \in Nat \ {0}
  <2>1. 0 \in Nat
    OBVIOUS
  <2> QED BY <1>7, <2>1, UnitsAre
<1>9. off[n] < off[n] + 1 /\ off[n] + 1 <= off[i] /\ 1 \in 1..(off[L] - off[n])
  BY <1>2, <1>3, <1>4, <1>6, <1>8
<1>10. rest[0 + 1].f = i
  BY <1>4, <1>6, <1>9
<1> QED BY <1>5, <1>10 DEF i, L

\* Units that are taken off the front.
LEMMA CutIs ==
  ASSUME NEW T, NEW rest \in Seq(T), NEW d \in 0..Len(rest)
  PROVE  /\ SubSeq(rest, d + 1, Len(rest)) \in Seq(T)
         /\ Len(SubSeq(rest, d + 1, Len(rest))) = Len(rest) - d
         /\ \A k \in 1..(Len(rest) - d) : SubSeq(rest, d + 1, Len(rest))[k] = rest[d + k]
<1> DEFINE m == d + 1
           n == Len(rest)
           c == SubSeq(rest, m, n)
<1>1. m \in Int /\ n \in Nat /\ m \in 1..(n + 1) /\ \A i \in m..n : rest[i] \in T
  OBVIOUS
<1>2. /\ c \in Seq(T) /\ Len(c) = (IF m <= n THEN n - m + 1 ELSE 0)
      /\ \A i \in 1..(n - m + 1) : c[i] = rest[m + i - 1]
  <2> HIDE DEF m, n
  <2> QED BY <1>1, SubSeqProperties
<1> HIDE DEF c
<1>3. Len(c) = n - d
  BY <1>1, <1>2
<1>4. \A k \in 1..(n - d) : c[k] = rest[d + k]
  <2> SUFFICES ASSUME NEW k \in 1..(n - d) PROVE c[k] = rest[d + k]
    OBVIOUS
  <2>1. k \in 1..(n - m + 1) /\ m + k - 1 = d + k
    BY <1>1
  <2> QED BY <1>2, <2>1
<1> QED BY <1>2, <1>3, <1>4 DEF c

LEMMA LaidDrops ==
  ASSUME NEW rest \in Seq(Unit), NEW fs \in Seq(Frames), NEW n \in Nat, n < Len(fs),
         LaidOut(rest, 0, fs, n), UnitsIn(fs[n + 1]) <= Len(rest)
  PROVE  LaidOut(SubSeq(rest, UnitsIn(fs[n + 1]) + 1, Len(rest)), 0, fs, n + 1)
<1>1. PICK off \in [0..Len(fs) -> Nat] : Laid(rest, 0, fs, n, off)
  BY DEF LaidOut
<1> DEFINE L == Len(fs)
           m == n + 1
           d == UnitsIn(fs[n + 1])
           t == SubSeq(rest, d + 1, Len(rest))
<1>2. L \in Nat /\ n \in 0..L /\ m \in 1..L /\ Len(rest) \in Nat /\ m - 1 = n /\ fs[m] \in Frames
  OBVIOUS
<1>3. off \in [0..L -> Nat] /\ off[L] \in Nat /\ off[n] \in Nat /\ off[m] \in Nat
  BY <1>2
<1>4. /\ \A j \in 1..L : off[j] = off[j - 1] + UnitsIn(fs[j]) /\ off[j] <= off[L]
      /\ off[n] <= off[L] /\ Len(rest) = 0 + (off[L] - off[n])
      /\ \A j \in 1..L : \A k \in 1..(off[L] - off[n]) :
           off[j - 1] < off[n] + k /\ off[n] + k <= off[j] => rest[0 + k].f = j
  BY <1>1 DEF Laid
<1>5. d \in Nat /\ d <= Len(rest)
  <2>1. 0 \in Nat
    OBVIOUS
  <2> QED BY <1>2, <2>1, UnitsAre
<1> HIDE DEF L, d
<1>6. off[m] = off[n] + d /\ off[m] <= off[L]
  BY <1>2, <1>4 DEF d
<1> HIDE DEF m
<1>7. Len(t) = Len(rest) - d /\ \A k \in 1..(Len(rest) - d) : t[k] = rest[d + k]
  <2>1. d \in 0..Len(rest)
    BY <1>2, <1>5
  <2> QED BY <2>1, CutIs
<1> HIDE DEF t
<1>8. Len(t) = 0 + (off[L] - off[m])
  BY <1>3, <1>4, <1>5, <1>6, <1>7
<1>9. ASSUME NEW j \in 1..L, NEW k \in 1..(off[L] - off[m]),
             off[j - 1] < off[m] + k, off[m] + k <= off[j]
      PROVE  t[0 + k].f = j
  <2> DEFINE q == d + k
  <2>1. /\ q \in 1..(off[L] - off[n]) /\ off[m] + k = off[n] + q
        /\ k \in 1..(Len(rest) - d) /\ 0 + k = k
    BY <1>3, <1>4, <1>5, <1>6
  <2> HIDE DEF q
  <2>2. rest[0 + q].f = j
    BY <1>4, <1>9, <2>1
  <2>3. 0 + q = d + k
    BY <2>1, <1>5 DEF q
  <2>4. t[k] = rest[d + k]
    BY <1>7, <2>1
  <2> QED BY <2>1, <2>2, <2>3, <2>4
<1>10. Laid(t, 0, fs, m, off)
  BY <1>4, <1>6, <1>8, <1>9 DEF Laid, L
<1>11. LaidOut(t, 0, fs, m)
  BY <1>3, <1>10 DEF LaidOut, L
<1> QED BY <1>11 DEF t, m, d

LEMMA LaidShifts ==
  ASSUME NEW rest \in Seq(Unit), NEW fs \in Seq(Frames), NEW n \in 0..Len(fs),
         LaidOut(rest, 2, fs, n)
  PROVE  Len(rest) >= 2 /\ LaidOut(SubSeq(rest, 3, Len(rest)), 0, fs, n)
<1>1. PICK off \in [0..Len(fs) -> Nat] : Laid(rest, 2, fs, n, off)
  BY DEF LaidOut
<1> DEFINE L == Len(fs)
           t == SubSeq(rest, 2 + 1, Len(rest))
<1>2. L \in Nat /\ n \in 0..L /\ Len(rest) \in Nat
  OBVIOUS
<1>3. off \in [0..L -> Nat] /\ off[L] \in Nat /\ off[n] \in Nat
  OBVIOUS
<1>4. /\ \A j \in 1..L : off[j] = off[j - 1] + UnitsIn(fs[j]) /\ off[j] <= off[L]
      /\ off[n] <= off[L] /\ Len(rest) = 2 + (off[L] - off[n])
      /\ \A j \in 1..L : \A k \in 1..(off[L] - off[n]) :
           off[j - 1] < off[n] + k /\ off[n] + k <= off[j] => rest[2 + k].f = j
  BY <1>1 DEF Laid
<1> HIDE DEF L
<1>5. 2 \in 0..Len(rest)
  BY <1>2, <1>3, <1>4
<1>6. Len(t) = Len(rest) - 2 /\ \A k \in 1..(Len(rest) - 2) : t[k] = rest[2 + k]
  BY <1>5, CutIs
<1> HIDE DEF t
<1>7. Len(t) = 0 + (off[L] - off[n]) /\ Len(rest) - 2 = off[L] - off[n]
  BY <1>3, <1>4, <1>6
<1>8. ASSUME NEW j \in 1..L, NEW k \in 1..(off[L] - off[n]),
             off[j - 1] < off[n] + k, off[n] + k <= off[j]
      PROVE  t[0 + k].f = j
  <2>1. rest[2 + k].f = j
    BY <1>4, <1>8
  <2>2. t[k] = rest[2 + k] /\ 0 + k = k
    BY <1>6, <1>7
  <2> QED BY <2>1, <2>2
<1>9. Laid(t, 0, fs, n, off)
  BY <1>4, <1>7, <1>8 DEF Laid, L
<1>10. LaidOut(t, 0, fs, n)
  BY <1>9 DEF LaidOut
<1>11. SubSeq(rest, 3, Len(rest)) = t
  BY DEF t
<1> QED BY <1>2, <1>5, <1>10, <1>11

-----------------------------------------------------------------------------
(* What is taken off the stream and out of the buffer. *)

LEMMA LeastOfTwo ==
  ASSUME NEW a \in Int, NEW b \in Int
  PROVE  Min({a, b}) \in Int /\ Min({a, b}) <= b
<1> DEFINE S == {a, b}
           m == IF a <= b THEN a ELSE b
<1>1. m \in S /\ (\A y \in S : m <= y) /\ m \in Int
  OBVIOUS
<1>2. \A z \in S : (\A y \in S : z <= y) => z = m
  BY <1>1
<1> HIDE DEF m
<1>3. Min(S) = m
  BY <1>1, <1>2 DEF Min
<1> QED BY <1>1, <1>3

LEMMA PiecesAre ==
  ASSUME stream \in Seq(Unit), NEW n \in Int, NEW p \in Pieces(n)
  PROVE  \E k \in 1..Len(stream) : p = SubSeq(stream, 1, k)
<1>1. Len(stream) \in Nat
  OBVIOUS
<1> DEFINE m == Min({n, Len(stream)})
<1>2. m \in Int /\ m <= Len(stream)
  BY <1>1, LeastOfTwo
<1>3. PICK k \in 1..m : p = SubSeq(stream, 1, k)
  BY DEF Pieces
<1> HIDE DEF m
<1>4. k \in 1..Len(stream)
  BY <1>1, <1>2
<1> QED BY <1>3, <1>4

LEMMA PieceIs ==
  ASSUME NEW T, NEW s \in Seq(T), NEW k \in 1..Len(s)
  PROVE  /\ SubSeq(s, 1, k) \in Seq(T) /\ Len(SubSeq(s, 1, k)) = k
         /\ \A i \in 1..k : SubSeq(s, 1, k)[i] = s[i]
         /\ SubSeq(s, k + 1, Len(s)) \in Seq(T)
         /\ SubSeq(s, 1, k) \o SubSeq(s, k + 1, Len(s)) = s
<1> DEFINE c == SubSeq(s, 1, k)
           d == SubSeq(s, k + 1, Len(s))
<1>1. Len(s) \in Nat /\ k \in Nat
  OBVIOUS
<1>2. c \in Seq(T) /\ Len(c) = k /\ \A i \in 1..k : c[i] = s[i]
  OBVIOUS
<1>3. d \in Seq(T) /\ Len(d) = Len(s) - k /\ \A i \in 1..(Len(s) - k) : d[i] = s[k + i]
  <2>1. k \in 0..Len(s)
    OBVIOUS
  <2> QED BY <2>1, CutIs
<1> HIDE DEF c, d
<1> DEFINE t == c \o d
<1>4. t \in Seq(T) /\ Len(t) = Len(c) + Len(d)
      /\ \A i \in 1..(Len(c) + Len(d)) : t[i] = IF i <= Len(c) THEN c[i] ELSE d[i - Len(c)]
  <2>1. /\ c \o d \in Seq(T) /\ Len(c \o d) = Len(c) + Len(d)
        /\ \A i \in 1..(Len(c) + Len(d)) : (c \o d)[i] = IF i <= Len(c) THEN c[i] ELSE d[i - Len(c)]
    BY <1>2, <1>3, ConcatProperties
  <2> QED BY <2>1
<1> HIDE DEF t
<1>5. Len(t) = Len(s)
  BY <1>1, <1>2, <1>3, <1>4
<1>6. \A i \in 1..Len(t) : t[i] = s[i]
  <2> SUFFICES ASSUME NEW i \in 1..Len(t) PROVE t[i] = s[i]
    OBVIOUS
  <2>1. CASE i <= k
    BY <1>2, <1>4, <2>1
  <2>2. CASE ~(i <= k)
    <3>1. i - k \in 1..(Len(s) - k) /\ k + (i - k) = i
      BY <1>1, <1>5, <2>2
    <3>2. t[i] = d[i - k]
      BY <1>2, <1>4, <2>2
    <3> QED BY <1>3, <3>1, <3>2
  <2> QED BY <2>1, <2>2
<1>7. t = s
  BY <1>4, <1>5, <1>6, SeqEqual
<1> QED BY <1>2, <1>3, <1>7 DEF c, d, t

\* A read moves units from the stream into the buffer.
LEMMA Moves ==
  ASSUME NEW T, NEW r \in Seq(T), NEW s \in Seq(T), NEW k \in 1..Len(s)
  PROVE  /\ r \o SubSeq(s, 1, k) \in Seq(T)
         /\ SubSeq(s, k + 1, Len(s)) \in Seq(T)
         /\ (r \o SubSeq(s, 1, k)) \o SubSeq(s, k + 1, Len(s)) = r \o s
<1> DEFINE c == SubSeq(s, 1, k)
           d == SubSeq(s, k + 1, Len(s))
<1>1. c \o d = s
  BY PieceIs
<1>2. c \in Seq(T) /\ d \in Seq(T)
  BY PieceIs
<1> HIDE DEF c, d
<1>3. (r \o c) \o d = r \o (c \o d)
  BY <1>2, ConcatAssociative
<1>4. r \o c \in Seq(T)
  BY <1>2, ConcatProperties
<1>5. (r \o c) \o d = r \o s
  BY <1>1, <1>3
<1> QED BY <1>2, <1>4, <1>5 DEF c, d

\* Units taken off the front of the buffer.
LEMMA Cuts ==
  ASSUME NEW T, NEW r \in Seq(T), NEW s \in Seq(T), NEW d \in 0..Len(r)
  PROVE  SubSeq(r, d + 1, Len(r)) \o s = SubSeq(r \o s, d + 1, Len(r \o s))
<1> DEFINE c == SubSeq(r, d + 1, Len(r))
           t == r \o s
           u == SubSeq(t, d + 1, Len(t))
           v == c \o s
<1>1. c \in Seq(T) /\ Len(c) = Len(r) - d /\ \A i \in 1..(Len(r) - d) : c[i] = r[d + i]
  BY CutIs
<1>2. t \in Seq(T) /\ Len(t) = Len(r) + Len(s)
      /\ \A i \in 1..(Len(r) + Len(s)) : t[i] = IF i <= Len(r) THEN r[i] ELSE s[i - Len(r)]
  BY ConcatProperties
<1> HIDE DEF c, t
<1>3. v \in Seq(T) /\ Len(v) = Len(c) + Len(s)
      /\ \A i \in 1..(Len(c) + Len(s)) : v[i] = IF i <= Len(c) THEN c[i] ELSE s[i - Len(c)]
  BY <1>1, ConcatProperties
<1>4. Len(r) \in Nat /\ Len(s) \in Nat /\ d \in 0..Len(t)
  BY <1>2
<1>5. u \in Seq(T) /\ Len(u) = Len(t) - d /\ \A i \in 1..(Len(t) - d) : u[i] = t[d + i]
  BY <1>2, <1>4, CutIs
<1> HIDE DEF u, v
<1>6. Len(v) = Len(u) /\ Len(v) = (Len(r) - d) + Len(s)
  BY <1>1, <1>2, <1>3, <1>4, <1>5
<1>7. \A i \in 1..Len(v) : v[i] = u[i]
  <2> SUFFICES ASSUME NEW i \in 1..Len(v) PROVE v[i] = u[i]
    OBVIOUS
  <2> DEFINE a == Len(r)
             b == Len(s)
  <2>1. i \in 1..((a - d) + b) /\ i \in 1..(Len(t) - d) /\ d + i \in 1..(a + b)
    BY <1>2, <1>4, <1>5, <1>6
  <2>2. u[i] = IF d + i <= a THEN r[d + i] ELSE s[(d + i) - a]
    BY <1>2, <1>5, <2>1
  <2>3. v[i] = IF i <= a - d THEN c[i] ELSE s[i - (a - d)]
    BY <1>1, <1>3, <1>4, <2>1
  <2>4. CASE i <= a - d
    <3>1. d + i <= a /\ i \in 1..(a - d)
      BY <1>4, <2>1, <2>4
    <3> QED BY <1>1, <2>2, <2>3, <2>4, <3>1
  <2>5. CASE ~(i <= a - d)
    <3>1. ~(d + i <= a) /\ (d + i) - a = i - (a - d)
      BY <1>4, <2>1, <2>5
    <3> QED BY <2>2, <2>3, <2>5, <3>1
  <2> QED BY <2>4, <2>5
<1>8. v = u
  BY <1>3, <1>5, <1>6, <1>7, SeqEqual
<1> QED BY <1>8 DEF u, v, c, t

LEMMA ConcatFirst ==
  ASSUME NEW T, NEW r \in Seq(T), NEW s \in Seq(T)
  PROVE  /\ r \o s \in Seq(T) /\ Len(r \o s) = Len(r) + Len(s)
         /\ r # <<>> => (r \o s)[1] = r[1] /\ r \o s # <<>> /\ Len(r) >= 1
<1>1. r \o s \in Seq(T) /\ Len(r \o s) = Len(r) + Len(s)
      /\ \A i \in 1..(Len(r) + Len(s)) : (r \o s)[i] = IF i <= Len(r) THEN r[i] ELSE s[i - Len(r)]
  BY ConcatProperties
<1>2. ASSUME r # <<>> PROVE (r \o s)[1] = r[1] /\ r \o s # <<>> /\ Len(r) >= 1
  <2>1. Len(r) # 0 /\ Len(r) \in Nat /\ Len(s) \in Nat
    BY <1>2, EmptySeq
  <2> DEFINE t == r \o s
  <2>2. t \in Seq(T) /\ Len(t) # 0
    BY <1>1, <2>1
  <2> HIDE DEF t
  <2>3. t # <<>>
    BY <2>2, EmptySeq
  <2>4. 1 \in 1..(Len(r) + Len(s)) /\ 1 <= Len(r)
    BY <2>1
  <2>5. (r \o s)[1] = r[1]
    BY <1>1, <2>4
  <2> QED BY <2>1, <2>3, <2>5 DEF t
<1> QED BY <1>1, <1>2

-----------------------------------------------------------------------------
(* The invariant: n frames have been read. *)

Coming == rx \o stream

WsTypes ==
  /\ script \in Seq(Frames) /\ meant = Meaning(script)
  /\ rx \in Seq(Unit) /\ stream \in Seq(Unit) /\ shaken \in BOOLEAN

\* None of them ends the connection, and what they mean has been handed over.
Handed(n) ==
  /\ n \in 0..Len(script) /\ \A i \in 1..n : ~Bad(script, i)
  /\ delivered = MessagesTo(script, n) /\ ponged = PingsTo(script, n)

\* The message in hand is what there is of the one that is open.
InHand(n) ==
  /\ message.started <=> Open(script, n + 1)
  /\ message.started => message.op = script[FirstOf(script, n)].op
  /\ message.data = IF Open(script, n + 1) THEN DataOf(script, n) ELSE <<>>

\* The buffer and the stream hold the other frames, behind the request if that was not read.
AfterRequest(n) == LaidOut(Coming, 2, script, n) /\ Coming[1] = Request[1]
Follows(n) == IF shaken THEN LaidOut(Coming, 0, script, n) ELSE AfterRequest(n)

\* The next frame is why the connection ended.
Cause(n) ==
  /\ ended = "error" => n < Len(script) /\ Wrong(script, n + 1)
  /\ ended = "closed" => n < Len(script) /\ script[n + 1].op = "close"

ReadTo(n) == Handed(n) /\ Cause(n) /\ (ended = "no" => InHand(n) /\ Follows(n))

WsInv == WsTypes /\ \E n \in 0..Len(script) : ReadTo(n)

LEMMA ScriptIs ==
  ASSUME WsTypes
  PROVE  /\ Len(script) \in Nat /\ DOMAIN script = 1..Len(script)
         /\ \A i \in 1..Len(script) : script[i] \in Frames /\ script[i].size \in Nat
                                      /\ script[i].fin \in BOOLEAN /\ script[i].masked \in BOOLEAN
                                      /\ script[i].op \in Opcodes
<1>1. script \in Seq(Frames)
  BY DEF WsTypes
<1>2. \A i \in 1..Len(script) : script[i] \in Frames
  BY <1>1
<1> QED BY <1>1, <1>2, FramesAssumption

LEMMA WsStarts == WsInit => WsInv
<1> SUFFICES ASSUME WsInit PROVE WsInv
  OBVIOUS
<1> DEFINE none == <<>>
<1>1. /\ script = none /\ meant = Meaning(none) /\ rx = none /\ stream = Request
      /\ shaken = FALSE /\ delivered = none /\ ponged = none /\ ended = "no"
      /\ message = NoMessage
  BY DEF WsInit
<1>2. none \in Seq(Frames) /\ none \in Seq(Unit) /\ Len(none) = 0
  BY EmptySeq
<1>3. Request \in Seq(Unit) /\ Len(Request) = 2
  BY DEF Request, Unit
<1>4. WsTypes
  BY <1>1, <1>2, <1>3 DEF WsTypes
<1>5. Row(Finals(none), 0, AllMessages(none)) = none
  BY RowEmpty
<1>6. Row(Pinged(none), 0, AllPayloads(none)) = none
  BY RowEmpty
<1> DEFINE off == [i \in 0..0 |-> 0]
<1>7. none \o Request = Request
  BY <1>3, ConcatEmptySeq
<1> HIDE DEF none
<1>8. Handed(0)
  BY <1>1, <1>2, <1>5, <1>6 DEF Handed, MessagesTo, PingsTo
<1>9. InHand(0)
  <2>1. ~Open(script, 0 + 1)
    BY NoneOpen
  <2> QED BY <1>1, <2>1 DEF InHand, NoMessage, none
<1>10. Coming = Request
  BY <1>1, <1>7 DEF Coming
<1>11. LaidOut(Coming, 2, script, 0)
  <2>1. off \in [0..0 -> Nat] /\ off[0] = 0
    OBVIOUS
  <2> HIDE DEF off
  <2>2. Laid(Request, 2, none, 0, off)
    BY <1>2, <1>3, <2>1 DEF Laid
  <2>3. off \in [0..Len(none) -> Nat]
    BY <1>2, <2>1
  <2> QED BY <1>1, <1>10, <2>2, <2>3 DEF LaidOut
<1>12. Follows(0)
  BY <1>1, <1>10, <1>11 DEF Follows, AfterRequest
<1>13. Cause(0)
  BY <1>1 DEF Cause
<1>14. 0 \in 0..Len(script)
  BY <1>1, <1>2
<1> QED BY <1>4, <1>8, <1>9, <1>12, <1>13, <1>14 DEF WsInv, ReadTo

-----------------------------------------------------------------------------
(* The App *)

LEMMA AppSendsKeeps == WsInv /\ AppSends => WsInv'
<1> SUFFICES ASSUME WsInv, AppSends PROVE WsInv'
  OBVIOUS
<1>1. PICK n \in 0..Len(script) : ReadTo(n)
  BY DEF WsInv
<1>2. WsTypes /\ Handed(n) /\ InHand(n) /\ Follows(n) /\ ended = "no"
  BY <1>1 DEF WsInv, ReadTo, AppSends
<1>3. PICK f \in Frames : /\ script' = Append(script, f) /\ meant' = Meaning(script')
                          /\ stream' = stream \o UnitsOf(Len(script) + 1, f)
  BY DEF AppSends
<1>4. UNCHANGED <<rx, shaken, message, delivered, ponged, ended>>
  BY DEF AppSends
<1> DEFINE fs == script
           gs == script'
           L == Len(fs)
           u == UnitsOf(L + 1, f)
<1>5. /\ fs \in Seq(Frames) /\ gs \in Seq(Frames) /\ Len(gs) = L + 1 /\ Same(fs, gs, L)
      /\ L \in Nat /\ n \in 0..L
  <2>1. fs \in Seq(Frames)
    BY <1>2 DEF WsTypes
  <2> QED BY <1>3, <2>1, AppendKeeps
<1>6. u \in Seq(Unit) /\ rx \in Seq(Unit) /\ stream \in Seq(Unit)
  <2>1. L + 1 \in Nat
    BY <1>5
  <2>2. u \in Seq(Unit)
    BY <2>1, UnitsAre
  <2> QED BY <1>2, <2>2 DEF WsTypes
<1>7. Same(fs, gs, n) /\ n \in Nat /\ n <= Len(gs)
  BY <1>5 DEF Same
<1>8. WsTypes'
  <2>1. stream' \in Seq(Unit)
    <3> HIDE DEF u
    <3>1. stream \o u \in Seq(Unit)
      BY <1>6, ConcatProperties
    <3> QED BY <1>3, <3>1 DEF u
  <2> QED BY <1>2, <1>3, <1>4, <1>5, <2>1 DEF WsTypes
<1>9. Handed(n)'
  <2>1. \A i \in 1..n : ~Bad(fs, i)
    BY <1>2 DEF Handed
  <2>2. \A i \in 1..n : ~Bad(gs, i)
    BY <1>7, <2>1, BadSame
  <2>3. MessagesTo(fs, n) = MessagesTo(gs, n) /\ PingsTo(fs, n) = PingsTo(gs, n)
    <3>1. Len(fs) \in Nat /\ Len(gs) \in Nat /\ n \in 0..Len(fs)
      BY <1>5
    <3> QED BY <1>7, <2>1, <3>1, MessagesSame
  <2>4. n \in 0..Len(gs)
    BY <1>5
  <2>5. delivered = MessagesTo(fs, n) /\ ponged = PingsTo(fs, n)
    BY <1>2 DEF Handed
  <2> QED BY <1>4, <2>2, <2>3, <2>4, <2>5 DEF Handed
<1>10. InHand(n)'
  <2>1. Open(fs, n + 1) <=> Open(gs, n + 1)
    <3>1. n + 1 \in 1..(n + 1)
      BY <1>7
    <3> QED BY <1>7, <3>1, OpenSame
  <2>2. Open(fs, n + 1) => n # 0
    <3>1. ~Open(fs, 0 + 1)
      BY NoneOpen
    <3> QED BY <3>1
  <2>3. n # 0 => DataOf(fs, n) = DataOf(gs, n) /\ FirstOf(fs, n) = FirstOf(gs, n)
    <3>1. n # 0 => n \in 1..n
      BY <1>7
    <3> QED BY <1>7, <3>1, DataSame, FirstSame
  <2>4. Open(fs, n + 1) => FirstOf(fs, n) \in 1..n
    <3>1. \A i \in 1..n : ~Bad(fs, i)
      BY <1>2 DEF Handed
    <3>2. Open(fs, n + 1) => FirstOf(fs, n) # 0
      BY <1>7, <3>1, OpenHasFirst
    <3>3. FirstOf(fs, n) \in 0..n
      BY <1>7, FirstIs
    <3> QED BY <1>7, <3>2, <3>3
  <2>5. Open(fs, n + 1) => fs[FirstOf(fs, n)] = gs[FirstOf(gs, n)]
    BY <1>7, <2>2, <2>3, <2>4 DEF Same
  <2>6. /\ message.started <=> Open(fs, n + 1)
        /\ message.started => message.op = fs[FirstOf(fs, n)].op
        /\ message.data = IF Open(fs, n + 1) THEN DataOf(fs, n) ELSE <<>>
    BY <1>2 DEF InHand
  <2>7. /\ message.started <=> Open(gs, n + 1)
        /\ message.started => message.op = gs[FirstOf(gs, n)].op
    BY <2>1, <2>5, <2>6
  <2>8. message.data = IF Open(gs, n + 1) THEN DataOf(gs, n) ELSE <<>>
    BY <2>1, <2>2, <2>3, <2>6
  <2>9. message' = message
    BY <1>4
  <2> QED BY <2>7, <2>8, <2>9 DEF InHand
<1>11. Follows(n)'
  <2> DEFINE s == IF shaken THEN 0 ELSE 2
             t == Coming \o u
  <2> HIDE DEF u
  <2>1. Coming' = t /\ Coming \in Seq(Unit)
    <3>1. rx \o (stream \o u) = (rx \o stream) \o u
      BY <1>6, ConcatAssociative
    <3>2. rx \o stream \in Seq(Unit)
      BY <1>6, ConcatProperties
    <3> QED BY <1>3, <1>4, <3>1, <3>2 DEF Coming, u
  <2>2. LaidOut(Coming, s, fs, n)
    BY <1>2 DEF Follows, AfterRequest
  <2>3. LaidOut(t, s, gs, n)
    <3>1. s \in Nat
      OBVIOUS
    <3> HIDE DEF s
    <3>2. LaidOut(Coming \o UnitsOf(Len(fs) + 1, f), s, Append(fs, f), n)
      BY <1>5, <2>1, <2>2, <3>1, LaidGrows
    <3> QED BY <1>3, <3>2 DEF u
  <2>4. ~shaken => t[1] = Request[1]
    <3> SUFFICES ASSUME ~shaken PROVE t[1] = Request[1]
      OBVIOUS
    <3>1. LaidOut(Coming, 2, fs, n) /\ Coming[1] = Request[1]
      BY <1>2 DEF Follows, AfterRequest
    <3>2. Len(Coming) >= 2
      BY <1>5, <2>1, <3>1, LaidShifts
    <3>3. Coming # <<>>
      <4> DEFINE e == <<>>
      <4>1. Len(e) = 0
        OBVIOUS
      <4> HIDE DEF e
      <4>2. Coming # e
        BY <3>2, <4>1
      <4> QED BY <4>2 DEF e
    <3>4. t[1] = Coming[1]
      BY <1>6, <2>1, <3>3, ConcatFirst
    <3> QED BY <3>1, <3>4
  <2> HIDE DEF t
  <2>5. (LaidOut(Coming, 0, script, n))' <=> LaidOut(t, 0, gs, n)
    BY <2>1
  <2>6. (LaidOut(Coming, 2, script, n))' <=> LaidOut(t, 2, gs, n)
    BY <2>1
  <2>7. Coming'[1] = t[1]
    BY <2>1
  <2> QED BY <1>4, <2>3, <2>4, <2>5, <2>6, <2>7 DEF Follows, AfterRequest
<1>12. Cause(n)'
  BY <1>2, <1>4 DEF Cause
<1>13. n \in 0..Len(script')
  BY <1>5
<1> QED BY <1>8, <1>9, <1>10, <1>11, <1>12, <1>13 DEF WsInv, ReadTo

LEMMA AppLeavesKeeps == WsInv /\ AppLeaves => WsInv'
<1> SUFFICES ASSUME WsInv, AppLeaves PROVE WsInv'
  OBVIOUS
<1>1. UNCHANGED <<script, meant, stream, rx, shaken, message, delivered, ponged, ended>>
  BY DEF AppLeaves
<1> QED BY <1>1 DEF WsInv, WsTypes, ReadTo, Handed, InHand, Cause, Follows, AfterRequest, Coming

-----------------------------------------------------------------------------
(* The reader *)

\* A step that hands nothing over and leaves the bytes that come the same.
LEMMA NothingHanded ==
  ASSUME NEW n, ReadTo(n), UNCHANGED <<script, shaken, message, delivered, ponged, ended>>,
         Coming' = Coming
  PROVE  ReadTo(n)'
<1>1. Handed(n)' /\ Cause(n)'
  BY DEF ReadTo, Handed, Cause
<1>2. (ended = "no" => InHand(n))'
  BY DEF ReadTo, InHand
<1>3. (ended = "no" => Follows(n))'
  BY DEF ReadTo, Follows, AfterRequest
<1> QED BY <1>1, <1>2, <1>3 DEF ReadTo

\* A connection ends by itself.
LEMMA EndsBy ==
  ASSUME NEW n, Handed(n), UNCHANGED <<script, delivered, ponged>>,
         ended' \in {"lost", "handshake"}
  PROVE  ReadTo(n)'
BY DEF ReadTo, Handed, Cause

LEMMA PiecesMove ==
  ASSUME WsTypes, NEW m \in Int, NEW p \in Pieces(m)
  PROVE  /\ p # <<>> /\ rx \o p \in Seq(Unit) /\ rx \o p # <<>>
         /\ SubSeq(stream, Len(p) + 1, Len(stream)) \in Seq(Unit)
         /\ (rx \o p) \o SubSeq(stream, Len(p) + 1, Len(stream)) = Coming
<1>1. rx \in Seq(Unit) /\ stream \in Seq(Unit)
  BY DEF WsTypes
<1>2. PICK k \in 1..Len(stream) : p = SubSeq(stream, 1, k)
  BY <1>1, PiecesAre
<1>3. p \in Seq(Unit) /\ Len(p) = k
  BY <1>1, <1>2, PieceIs
<1>4. /\ rx \o p \in Seq(Unit) /\ SubSeq(stream, k + 1, Len(stream)) \in Seq(Unit)
      /\ (rx \o p) \o SubSeq(stream, k + 1, Len(stream)) = rx \o stream
  BY <1>1, <1>2, Moves
<1> DEFINE e == <<>>
           a == rx \o p
<1>5. Len(e) = 0
  OBVIOUS
<1>6. Len(a) = Len(rx) + Len(p) /\ Len(rx) \in Nat
  BY <1>1, <1>3, ConcatFirst
<1>7. Len(p) # Len(e) /\ Len(a) # Len(e)
  <2> HIDE DEF a, e
  <2> QED BY <1>2, <1>3, <1>5, <1>6
<1> HIDE DEF e, a
<1>8. p # e /\ a # e
  BY <1>7
<1> QED BY <1>3, <1>4, <1>8 DEF e, a, Coming

LEMMA WantedIs ==
  ASSUME WsTypes, Complete => Frame.size \in Nat
  PROVE  Wanted \in Int /\ Len(rx) \in Nat
<1>1. Len(rx) \in Nat
  BY DEF WsTypes
<1>2. LengthUnits \in {0, 1}
  BY DEF LengthUnits
<1> QED BY <1>1, <1>2 DEF Wanted, FrameLen, HeaderLen

\* The frame at the front of the buffer is the one after those that were read.
LEMMA NextFrame ==
  ASSUME WsTypes, NEW n, ReadTo(n), Reading, rx # <<>>
  PROVE  /\ n \in 0..Len(script) /\ n < Len(script) /\ n + 1 \in 1..Len(script) /\ rx[1].f = n + 1
         /\ Frame = script[n + 1] /\ FrameLen = UnitsIn(Frame) /\ FrameLen \in Nat \ {0}
         /\ InHand(n) /\ Handed(n) /\ LaidOut(Coming, 0, script, n)
<1>1. InHand(n) /\ Handed(n) /\ LaidOut(Coming, 0, script, n) /\ n \in 0..Len(script)
  BY DEF ReadTo, Reading, Follows, Handed
<1>2. rx \in Seq(Unit) /\ stream \in Seq(Unit) /\ script \in Seq(Frames)
  BY DEF WsTypes
<1>3. Coming \in Seq(Unit) /\ Coming # <<>> /\ Coming[1] = rx[1]
  BY <1>2, ConcatFirst DEF Coming
<1>4. n < Len(script) /\ Coming[1].f = n + 1
  BY <1>1, <1>2, <1>3, LaidFirst
<1>5. n + 1 \in 1..Len(script)
  BY <1>1, <1>2, <1>4
<1>6. Frame = script[n + 1] /\ script[n + 1] \in Frames
  BY <1>2, <1>3, <1>4, <1>5 DEF Frame
<1>7. FrameLen = UnitsIn(Frame)
  BY DEF FrameLen, HeaderLen, LengthUnits, UnitsIn
<1>8. UnitsIn(Frame) \in Nat \ {0}
  <2>1. 0 \in Nat
    OBVIOUS
  <2> QED BY <1>6, <2>1, UnitsAre
<1> QED BY <1>1, <1>3, <1>4, <1>5, <1>6, <1>7, <1>8

LEMMA ReadKeeps == WsInv /\ Read => WsInv'
<1> SUFFICES ASSUME WsInv, Read PROVE WsInv'
  OBVIOUS
<1>1. PICK n \in 0..Len(script) : ReadTo(n)
  BY DEF WsInv
<1>2. WsTypes /\ UNCHANGED <<script, meant, shaken, message, delivered, ponged, ended>>
  BY DEF WsInv, Read
<1>3. PICK p \in Pieces(Wanted - Len(rx)) :
        rx' = rx \o p /\ stream' = SubSeq(stream, Len(p) + 1, Len(stream))
  BY DEF Read
<1>4. Wanted - Len(rx) \in Int
  <2>1. Complete => Frame.size \in Nat
    <3> SUFFICES ASSUME Complete PROVE Frame.size \in Nat
      OBVIOUS
    <3>1. rx # <<>> /\ Reading
      BY DEF Complete, Read
    <3>2. Frame = script[n + 1] /\ n + 1 \in 1..Len(script)
      BY <1>1, <1>2, <3>1, NextFrame
    <3> QED BY <1>2, <3>2, ScriptIs
  <2> QED BY <1>2, <2>1, WantedIs
<1>5. rx' \in Seq(Unit) /\ stream' \in Seq(Unit) /\ rx' \o stream' = Coming
  BY <1>2, <1>3, <1>4, PiecesMove
<1>6. Coming' = Coming
  BY <1>5 DEF Coming
<1>7. ReadTo(n)'
  BY <1>1, <1>2, <1>6, NothingHanded
<1>8. WsTypes'
  BY <1>2, <1>5 DEF WsTypes
<1> QED BY <1>2, <1>7, <1>8 DEF WsInv

LEMMA ReadFailsKeeps == WsInv /\ ReadFails => WsInv'
<1> SUFFICES ASSUME WsInv, ReadFails PROVE WsInv'
  OBVIOUS
<1>1. PICK n \in 0..Len(script) : ReadTo(n)
  BY DEF WsInv
<1>2. WsTypes /\ UNCHANGED <<script, meant, stream, rx, shaken, message, delivered, ponged>>
  BY DEF WsInv, ReadFails, app
<1>3. ended' \in {"lost", "handshake"}
  BY DEF ReadFails, End
<1>4. ReadTo(n)'
  BY <1>1, <1>2, <1>3, EndsBy DEF ReadTo
<1>5. WsTypes'
  BY <1>2 DEF WsTypes
<1> QED BY <1>2, <1>4, <1>5 DEF WsInv

LEMMA RefusesKeeps == WsInv /\ Refuses => WsInv'
<1> SUFFICES ASSUME WsInv, Refuses PROVE WsInv'
  OBVIOUS
<1>1. PICK n \in 0..Len(script) : ReadTo(n)
  BY DEF WsInv
<1>2. WsTypes /\ UNCHANGED <<script, meant, stream, rx, shaken, message, delivered, ponged>>
  BY DEF WsInv, Refuses, app
<1>3. ended' = "error" /\ Reading /\ rx # <<>> /\ ~Acceptable
  BY DEF Refuses, End, Complete
<1>4. n < Len(script) /\ Frame = script[n + 1] /\ n + 1 \in 1..Len(script)
  BY <1>1, <1>2, <1>3, NextFrame
<1>5. Wrong(script, n + 1)
  <2>1. script[n + 1].masked \in BOOLEAN /\ script[n + 1].size \in Nat
    BY <1>2, <1>4, ScriptIs
  <2>2. ~script[n + 1].masked \/ script[n + 1].size > MaxMessage
    BY <1>3, <1>4, <2>1, FramesAssumption DEF Acceptable
  <2> QED BY <2>2 DEF Wrong
<1>6. Handed(n)
  BY <1>1 DEF ReadTo
<1>7. Cause(n)'
  <2>1. Wrong(script, n + 1)' <=> Wrong(script, n + 1)
    BY <1>2 DEF Wrong, IsData, Open, DataOf, Parts, FirstOf
  <2> QED BY <1>2, <1>3, <1>4, <1>5 DEF Cause
<1>8. ReadTo(n)'
  BY <1>2, <1>3, <1>6, <1>7 DEF ReadTo, Handed
<1>9. WsTypes'
  BY <1>2 DEF WsTypes
<1> QED BY <1>2, <1>8, <1>9 DEF WsInv

LEMMA ShakesKeeps == WsInv /\ Shakes => WsInv'
<1> SUFFICES ASSUME WsInv, Shakes PROVE WsInv'
  OBVIOUS
<1>1. PICK n \in 0..Len(script) : ReadTo(n)
  BY DEF WsInv
<1>2. WsTypes /\ UNCHANGED <<script, meant, message, delivered, ponged>> /\ ~shaken /\ ended = "no"
  BY DEF WsInv, Shakes
<1>3. PICK p \in Pieces(MaxHandshake - Len(rx)) :
        LET all == rx \o p IN
        /\ stream' = SubSeq(stream, Len(p) + 1, Len(stream))
        /\ IF all[Len(all)].f = 0 /\ all[Len(all)].part = "request"
           THEN rx' = all /\ UNCHANGED <<shaken, ended>>
           ELSE \/ shaken' = TRUE /\ rx' = SubSeq(all, 3, Len(all)) /\ UNCHANGED ended
                \/ End("handshake") /\ UNCHANGED <<rx, shaken>>
  BY DEF Shakes
<1> DEFINE all == rx \o p
<1>4. MaxHandshake - Len(rx) \in Int
  BY <1>2, FramesAssumption DEF WsTypes
<1>5. /\ all \in Seq(Unit) /\ all # <<>> /\ stream' \in Seq(Unit) /\ all \o stream' = Coming
  BY <1>2, <1>3, <1>4, PiecesMove
<1>6. /\ Handed(n) /\ InHand(n) /\ LaidOut(Coming, 2, script, n) /\ Coming[1] = Request[1]
      /\ n \in 0..Len(script) /\ script \in Seq(Frames)
  BY <1>1, <1>2 DEF ReadTo, Follows, AfterRequest, Handed, WsTypes
<1>7. CASE rx' = all /\ UNCHANGED <<shaken, ended>>
  <2>1. Coming' = Coming
    BY <1>5, <1>7 DEF Coming
  <2>2. ReadTo(n)'
    BY <1>1, <1>2, <1>7, <2>1, NothingHanded
  <2>3. WsTypes'
    BY <1>2, <1>5, <1>7 DEF WsTypes
  <2> QED BY <1>2, <2>2, <2>3 DEF WsInv
<1>8. CASE ended' = "handshake" /\ UNCHANGED <<rx, shaken>>
  <2>1. ReadTo(n)'
    BY <1>2, <1>6, <1>8, EndsBy
  <2>2. WsTypes'
    BY <1>2, <1>5, <1>8 DEF WsTypes
  <2> QED BY <1>2, <2>1, <2>2 DEF WsInv
<1>9. CASE /\ ~(all[Len(all)].f = 0 /\ all[Len(all)].part = "request")
           /\ shaken' = TRUE /\ rx' = SubSeq(all, 3, Len(all)) /\ UNCHANGED ended
  <2> HIDE DEF all
  <2> DEFINE t == all \o stream'
             m == Len(all)
  <2>1. all \in Seq(Unit) /\ stream' \in Seq(Unit) /\ all # <<>>
    BY <1>5
  <2>2. t \in Seq(Unit) /\ t[1] = all[1] /\ m >= 1
    BY <2>1, ConcatFirst
  <2>3. m \in Nat
    BY <2>1
  <2>4. t = Coming
    BY <1>5
  <2> HIDE DEF t, m
  <2>5. Coming[1] = all[1] /\ Coming \in Seq(Unit)
    BY <2>2, <2>4
  <2>6. all[1].f = 0 /\ all[1].part = "request"
    BY <1>6, <2>5 DEF Request
  <2>7. m # 1
    BY <1>9, <2>6 DEF m
  <2>8. 2 \in 0..m /\ 2 + 1 = 3
    BY <2>2, <2>3, <2>7
  <2>9. 2 \in 0..Len(all) /\ 2 + 1 = 3
    BY <2>8 DEF m
  <2>10. SubSeq(all, 2 + 1, Len(all)) \in Seq(Unit)
    BY <1>5, <2>9, CutIs
  <2>11. SubSeq(all, 2 + 1, Len(all)) \o stream'
            = SubSeq(all \o stream', 2 + 1, Len(all \o stream'))
    BY <1>5, <2>9, Cuts
  <2>12. Coming' = SubSeq(Coming, 3, Len(Coming))
    BY <1>5, <1>9, <2>9, <2>11 DEF Coming
  <2> DEFINE c == SubSeq(Coming, 3, Len(Coming))
  <2>13. LaidOut(c, 0, script, n)
    BY <1>6, <2>5, LaidShifts
  <2> HIDE DEF c
  <2>14. Follows(n)'
    <3>1. LaidOut(Coming, 0, script, n)' <=> LaidOut(c, 0, script, n)
      BY <1>2, <2>12 DEF c
    <3> QED BY <1>9, <2>13, <3>1 DEF Follows
  <2>15. Handed(n)' /\ InHand(n)' /\ Cause(n)'
    BY <1>2, <1>6, <1>9 DEF Handed, InHand, Cause
  <2>16. WsTypes'
    BY <1>2, <1>5, <1>9, <2>9, <2>10 DEF WsTypes
  <2> QED BY <1>2, <2>14, <2>15, <2>16 DEF WsInv, ReadTo
<1> QED BY <1>3, <1>7, <1>8, <1>9 DEF End

-----------------------------------------------------------------------------
(* A whole frame *)

LEMMA WholeIs ==
  ASSUME WsTypes, NEW n, ReadTo(n), NEW op, Whole(op)
  PROVE  /\ n \in 0..Len(script) /\ n \in Nat /\ n < Len(script) /\ n + 1 \in 1..Len(script)
         /\ rx[1].f = n + 1 /\ Frame = script[n + 1] /\ Frame.op = op /\ Acceptable
         /\ shaken = TRUE /\ ended = "no" /\ InHand(n) /\ Handed(n)
         /\ FrameLen \in 1..Len(rx) /\ FrameLen = UnitsIn(script[n + 1])
         /\ LaidOut(Coming, 0, script, n)
<1>1. Reading /\ rx # <<>> /\ Acceptable /\ Frame.op = op /\ Len(rx) >= FrameLen
  BY DEF Whole, Complete
<1>2. /\ n \in 0..Len(script) /\ n < Len(script) /\ n + 1 \in 1..Len(script) /\ rx[1].f = n + 1
      /\ Frame = script[n + 1] /\ FrameLen = UnitsIn(Frame) /\ FrameLen \in Nat \ {0}
      /\ InHand(n) /\ Handed(n) /\ LaidOut(Coming, 0, script, n)
  BY <1>1, NextFrame
<1>3. Len(rx) \in Nat /\ shaken = TRUE /\ ended = "no"
  BY <1>1 DEF WsTypes, Reading
<1>4. n \in Nat /\ FrameLen \in 1..Len(rx)
  BY <1>1, <1>2, <1>3
<1> QED BY <1>1, <1>2, <1>3, <1>4

\* The frame goes, and the next one is at the front.
LEMMA FrameGoes ==
  ASSUME WsTypes, NEW n \in Nat, n < Len(script), FrameLen \in 1..Len(rx),
         FrameLen = UnitsIn(script[n + 1]), LaidOut(Coming, 0, script, n),
         rx' = DropFrame, UNCHANGED <<script, meant, stream, shaken>>
  PROVE  WsTypes' /\ LaidOut(Coming', 0, script, n + 1)
<1> DEFINE d == FrameLen
<1>1. rx \in Seq(Unit) /\ stream \in Seq(Unit) /\ d \in 0..Len(rx) /\ script \in Seq(Frames)
  BY DEF WsTypes
<1>2. rx' = SubSeq(rx, d + 1, Len(rx))
  BY DEF DropFrame
<1>3. d = UnitsIn(script[n + 1])
  OBVIOUS
<1> HIDE DEF d
<1>4. rx' \in Seq(Unit)
  BY <1>1, <1>2, CutIs
<1>5. SubSeq(rx, d + 1, Len(rx)) \o stream = SubSeq(rx \o stream, d + 1, Len(rx \o stream))
  BY <1>1, Cuts
<1>6. Coming' = SubSeq(Coming, d + 1, Len(Coming))
  BY <1>2, <1>5 DEF Coming
<1>7. WsTypes'
  BY <1>4 DEF WsTypes
<1>8. Coming \in Seq(Unit) /\ d <= Len(Coming)
  <2>1. rx \o stream \in Seq(Unit) /\ Len(rx \o stream) = Len(rx) + Len(stream)
    BY <1>1, ConcatProperties
  <2>2. Len(rx) \in Nat /\ Len(stream) \in Nat
    BY <1>1
  <2> DEFINE c == rx \o stream
  <2> HIDE DEF c
  <2>3. c \in Seq(Unit) /\ Len(c) = Len(rx) + Len(stream)
    BY <2>1 DEF c
  <2>4. d <= Len(c)
    BY <1>1, <2>2, <2>3
  <2> QED BY <2>3, <2>4 DEF c, Coming
<1>9. UnitsIn(script[n + 1]) <= Len(Coming)
  BY <1>3, <1>8
<1>10. LaidOut(SubSeq(Coming, UnitsIn(script[n + 1]) + 1, Len(Coming)), 0, script, n + 1)
  BY <1>1, <1>8, <1>9, LaidDrops
<1> QED BY <1>3, <1>6, <1>7, <1>10

\* A frame that is read on.
LEMMA FrameRead ==
  ASSUME WsTypes, NEW n \in Nat, n + 1 \in 1..Len(script), Handed(n), ~Bad(script, n + 1),
         LaidOut(Coming', 0, script, n + 1),
         UNCHANGED <<script, shaken, ended>>, shaken, ended = "no",
         delivered' = MessagesTo(script, n + 1), ponged' = PingsTo(script, n + 1), InHand(n + 1)'
  PROVE  ReadTo(n + 1)'
<1>1. \A i \in 1..(n + 1) : ~Bad(script, i)
  BY DEF Handed
<1>2. n + 1 \in 0..Len(script)
  BY DEF WsTypes
<1> DEFINE m == n + 1
           u == Coming'
<1>3. /\ m \in 0..Len(script) /\ (\A i \in 1..m : ~Bad(script, i)) /\ InHand(m)'
      /\ delivered' = MessagesTo(script, m) /\ ponged' = PingsTo(script, m)
      /\ LaidOut(u, 0, script, m)
  BY <1>1, <1>2
<1> HIDE DEF m
<1>4. Handed(m)'
  BY <1>3 DEF Handed
<1>5. LaidOut(Coming, 0, script, m)' <=> LaidOut(u, 0, script, m)
  OBVIOUS
<1>6. Follows(m)'
  BY <1>3, <1>5 DEF Follows
<1>7. Cause(m)'
  BY DEF Cause
<1>8. ReadTo(m)'
  BY <1>3, <1>4, <1>6, <1>7 DEF ReadTo
<1> QED BY <1>8 DEF m

\* The next frame is why the connection ends.
LEMMA FrameEnds ==
  ASSUME NEW n, n < Len(script), Handed(n), UNCHANGED <<script, delivered, ponged>>,
         \/ ended' = "error" /\ Wrong(script, n + 1)
         \/ ended' = "closed" /\ script[n + 1].op = "close"
  PROVE  ReadTo(n)'
<1>1. Wrong(script, n + 1)' <=> Wrong(script, n + 1)
  BY DEF Wrong, IsData, Open, DataOf, Parts, FirstOf
<1>2. Cause(n)'
  BY <1>1 DEF Cause
<1>3. Handed(n)' /\ ended' # "no"
  BY DEF Handed
<1> QED BY <1>2, <1>3 DEF ReadTo

\* Control frames leave the message in hand alone.
LEMMA ControlFrame ==
  ASSUME WsTypes, NEW n \in Nat, n + 1 \in 1..Len(script), InHand(n), Frame = script[n + 1],
         Acceptable, Frame.op \in {"ping", "pong"}
  PROVE  /\ ~Bad(script, n + 1) /\ InHand(n + 1)
         /\ MessagesTo(script, n + 1) = MessagesTo(script, n)
<1> DEFINE i == n + 1
<1>1. ~IsData(script, i) /\ ~Begun(script[i]) /\ script[i].op \notin {"other", "close"}
  BY DEF IsData, Data, Begun
<1>2. /\ script[i].masked = TRUE /\ script[i].size <= MaxMessage /\ script[i].size \in Nat
      /\ Len(script) \in Nat
  BY ScriptIs DEF Acceptable
<1>3. ~Bad(script, i)
  <2> HIDE DEF i
  <2>1. ~(script[i].size > MaxMessage)
    BY <1>2, FramesAssumption
  <2>2. script[i].op \notin Data /\ script[i].op \notin {"text", "binary"}
    BY <1>1 DEF IsData, Begun
  <2>3. script[i].op # "continuation"
    BY <2>2 DEF Data
  <2> QED BY <1>1, <1>2, <2>1, <2>2, <2>3 DEF Bad, Wrong
<1>4. FirstOf(script, n + 1) = FirstOf(script, n)
  BY <1>1, FirstOneMore
<1>5. DataOf(script, n + 1) = DataOf(script, n)
  <2>1. Sized(script, n + 1)
    BY ScriptIs DEF Sized
  <2> QED BY <1>1, <2>1, DataOneMore
<1>6. Open(script, i + 1) <=> Open(script, i)
  <2>1. i \in Nat \ {0}
    OBVIOUS
  <2> HIDE DEF i
  <2> QED BY <1>1, <2>1, OpenOneMore
<1>7. InHand(n + 1)
  BY <1>4, <1>5, <1>6 DEF InHand
<1>8. MessagesTo(script, n + 1) = MessagesTo(script, n)
  BY <1>1, <1>2, MessagesOneMore
<1> QED BY <1>3, <1>7, <1>8

\* What the message in hand becomes is what the frames mean so far.
LEMMA DataFrame ==
  ASSUME WsTypes, NEW n \in Nat, n + 1 \in 1..Len(script), InHand(n), Frame = script[n + 1],
         rx[1].f = n + 1, Frame.op \in Data, ~OutOfPlace(Frame.op)
  PROVE  /\ DataOf(script, n + 1) = message.data \o Payload(rx[1].f, Frame)
         /\ Len(DataOf(script, n + 1)) = Len(message.data) + Frame.size
         /\ script[FirstOf(script, n + 1)].op = IF message.started THEN message.op ELSE Frame.op
<1> DEFINE i == n + 1
           f == script[n + 1]
           p == Payload(i, f)
<1>1. Sized(script, i) /\ Sized(script, n) /\ f.size \in Nat /\ i \in Nat
  BY ScriptIs DEF Sized
<1>2. /\ message.started <=> Open(script, i)
      /\ message.started => message.op = script[FirstOf(script, n)].op
      /\ message.data = IF Open(script, i) THEN DataOf(script, n) ELSE <<>>
  BY DEF InHand
<1>3. Begun(f) => ~message.started
  BY DEF Begun, OutOfPlace
<1>4. ~Begun(f) => message.started /\ f.op = "continuation"
  BY DEF Begun, OutOfPlace, Data
<1>5. IsData(script, i)
  BY DEF IsData
<1>6. DataOf(script, i) = IF Begun(f) THEN p
                          ELSE IF IsData(script, i) THEN DataOf(script, n) \o p
                          ELSE DataOf(script, n)
  BY <1>1, DataOneMore
<1>7. FirstOf(script, i) = IF Begun(f) THEN i ELSE FirstOf(script, n)
  BY FirstOneMore
<1>8. p \in Seq(Nat \X Nat) /\ Len(p) = f.size
  BY <1>1, PayloadIs
<1>9. DataOf(script, n) \in Seq(Nat \X Nat)
  BY <1>1, DataIs
<1>10. Payload(rx[1].f, Frame) = p /\ Frame = f
  OBVIOUS
<1> HIDE DEF i, f, p
<1> DEFINE e == <<>>
           d == message.data
<1>11. e \in Seq(Nat \X Nat) /\ Len(e) = 0
  BY EmptySeq
<1>12. e \o p = p
  BY <1>8, ConcatEmptySeq
<1> HIDE DEF e
<1>13. d \in Seq(Nat \X Nat)
  BY <1>2, <1>9, <1>11 DEF e
<1>14. DataOf(script, i) = d \o p
  <2>1. CASE Begun(f)
    <3>1. d = e
      BY <1>2, <1>3, <2>1 DEF e
    <3>2. DataOf(script, i) = p
      BY <1>6, <2>1
    <3> QED BY <1>12, <3>1, <3>2
  <2>2. CASE ~Begun(f)
    <3>1. d = DataOf(script, n)
      BY <1>2, <1>4, <2>2
    <3>2. DataOf(script, i) = DataOf(script, n) \o p
      BY <1>5, <1>6, <2>2
    <3> QED BY <3>1, <3>2
  <2> QED BY <2>1, <2>2
<1>15. Len(d \o p) = Len(d) + Len(p)
  <2> HIDE DEF d
  <2> QED BY <1>8, <1>13, ConcatProperties
<1>16. script[FirstOf(script, i)].op = IF message.started THEN message.op ELSE f.op
  <2>1. CASE Begun(f)
    <3>1. FirstOf(script, i) = i /\ ~message.started
      BY <1>3, <1>7, <2>1
    <3> QED BY <3>1 DEF f, i
  <2>2. CASE ~Begun(f)
    BY <1>2, <1>4, <1>7, <2>2
  <2> QED BY <2>1, <2>2
<1>17. Len(DataOf(script, i)) = Len(d) + f.size
  BY <1>8, <1>14, <1>15
<1> QED BY <1>10, <1>14, <1>16, <1>17 DEF i, d

-----------------------------------------------------------------------------
(* What a step does to the two streams *)

DeliveriesStep == [Deliveries!Next]_<<meant.messages, delivered, ended # "no">>
AnswersStep == [Answers!Next]_<<meant.pings, ponged, ended # "no">>
StreamSteps == DeliveriesStep /\ AnswersStep

LEMMA NothingMoves ==
  ASSUME UNCHANGED <<meant, delivered, ponged, ended>>
  PROVE  StreamSteps
BY DEF StreamSteps, DeliveriesStep, AnswersStep

LEMMA BothEnd ==
  ASSUME UNCHANGED <<meant, delivered, ponged>>, ended = "no", ended' # "no"
  PROVE  StreamSteps
BY DEF StreamSteps, DeliveriesStep, AnswersStep, Deliveries!Next, Deliveries!End,
       Answers!Next, Answers!End

LEMMA NextEntry ==
  ASSUME NEW T, NEW r \in Seq(T), NEW x \in T, NEW s \in Seq(T), Begins(Append(r, x), s)
  PROVE  Len(r) < Len(s) /\ Append(r, x) = Append(r, s[Len(r) + 1])
<1> DEFINE a == Append(r, x)
           n == Len(r)
<1>1. Len(a) = n + 1 /\ a[n + 1] = x
  BY AppendProperties
<1>2. n \in Nat /\ Len(s) \in Nat
  OBVIOUS
<1>3. Len(a) <= Len(s) /\ \A k \in 1..Len(a) : s[k] = a[k]
  BY DEF Begins
<1> HIDE DEF a, n
<1>4. n < Len(s) /\ s[n + 1] = x
  BY <1>1, <1>2, <1>3
<1> QED BY <1>4 DEF n

\* A row that goes on with one more entry of what it is the beginning of.
Longer(r, q, x) == q = r \/ q = Append(r, x)
Gets(r, q, s) == q = r \/ (Len(r) < Len(s) /\ q = Append(r, s[Len(r) + 1]))

LEMMA RowGets ==
  ASSUME NEW T, NEW r \in Seq(T), NEW q \in Seq(T), NEW s \in Seq(T), NEW x,
         Longer(r, q, x), Begins(q, s)
  PROVE  Gets(r, q, s)
<1> SUFFICES ASSUME q = Append(r, x) PROVE Len(r) < Len(s) /\ q = Append(r, s[Len(r) + 1])
  BY DEF Longer, Gets
<1>1. x \in T
  <2> DEFINE V == T \cup {x}
             a == Append(r, x)
  <2>1. r \in Seq(V) /\ x \in V
    OBVIOUS
  <2> HIDE DEF V
  <2>2. Len(a) = Len(r) + 1 /\ a[Len(r) + 1] = x
    BY <2>1, AppendProperties
  <2>3. q = a
    OBVIOUS
  <2> HIDE DEF a
  <2>4. Len(r) + 1 \in 1..Len(q)
    BY <2>2, <2>3
  <2> QED BY <2>2, <2>3, <2>4
<1>2. Begins(Append(r, x), s)
  OBVIOUS
<1>3. Len(r) < Len(s) /\ Append(r, x) = Append(r, s[Len(r) + 1])
  BY <1>1, <1>2, NextEntry
<1> QED BY <1>3

LEMMA FrameHanded ==
  ASSUME WsTypes, NEW n \in Nat, n + 1 \in 1..Len(script), Handed(n), ~Bad(script, n + 1),
         UNCHANGED <<script, meant, ended>>, ended = "no",
         delivered' = MessagesTo(script, n + 1), ponged' = PingsTo(script, n + 1)
  PROVE  StreamSteps
<1> DEFINE fs == script
           g == Good(fs)
           m == n + 1
<1>1. Len(fs) \in Nat /\ DOMAIN fs = 1..Len(fs) /\ meant = Meaning(fs)
  BY DEF WsTypes
<1>2. g \in 0..Len(fs) /\ (g < Len(fs) => Bad(fs, g + 1))
  BY <1>1, GoodIs
<1>3. m \in 0..g /\ n \in 0..Len(fs) /\ m \in 0..Len(fs)
  <2>1. \A i \in 1..m : ~Bad(fs, i)
    BY DEF Handed
  <2>2. ~(g < m)
    <3>1. g < m => g + 1 \in 1..m /\ g < Len(fs)
      BY <1>1, <1>2
    <3> QED BY <1>2, <2>1, <3>1
  <2> QED BY <1>1, <1>2, <2>2
<1>4. meant.messages = MessagesTo(fs, g) /\ meant.pings = PingsTo(fs, g)
  BY <1>1, MeaningIs
<1>5. /\ delivered = MessagesTo(fs, n) /\ ponged = PingsTo(fs, n)
      /\ delivered' = MessagesTo(fs, m) /\ ponged' = PingsTo(fs, m)
  BY DEF Handed
<1>6. /\ delivered' = delivered \/ delivered' = Append(delivered, MessageAt(fs, m))
      /\ ponged' = ponged \/ ponged' = Append(ponged, Payload(m, fs[m]))
  BY <1>1, <1>5, MessagesOneMore
<1> HIDE DEF g, m, fs
<1>7. Begins(MessagesTo(fs, m), MessagesTo(fs, g)) /\ Begins(PingsTo(fs, m), PingsTo(fs, g))
  BY <1>1, <1>2, <1>3, MessagesBegin
<1> DEFINE T == MessageSet(fs)
           V == PayloadSet(fs)
<1>8. /\ MessagesTo(fs, n) \in Seq(T) /\ MessagesTo(fs, m) \in Seq(T)
      /\ MessagesTo(fs, g) \in Seq(T)
      /\ PingsTo(fs, n) \in Seq(V) /\ PingsTo(fs, m) \in Seq(V) /\ PingsTo(fs, g) \in Seq(V)
  BY <1>1, <1>2, <1>3, RowsAre
<1> HIDE DEF T, V
<1> DEFINE sent == meant.messages
           asked == meant.pings
<1>9. sent \in Seq(T) /\ asked \in Seq(V) /\ Begins(delivered', sent) /\ Begins(ponged', asked)
  BY <1>4, <1>5, <1>7, <1>8
<1>10. delivered \in Seq(T) /\ delivered' \in Seq(T) /\ ponged \in Seq(V) /\ ponged' \in Seq(V)
  BY <1>5, <1>8
<1> HIDE DEF sent, asked
<1>11. \/ delivered' = delivered
       \/ Len(delivered) < Len(sent) /\ delivered' = Append(delivered, sent[Len(delivered) + 1])
  <2>1. Longer(delivered, delivered', MessageAt(fs, m))
    BY <1>6 DEF Longer
  <2>2. Gets(delivered, delivered', sent)
    BY <1>9, <1>10, <2>1, RowGets
  <2> QED BY <2>2 DEF Gets
<1>12. \/ ponged' = ponged
       \/ Len(ponged) < Len(asked) /\ ponged' = Append(ponged, asked[Len(ponged) + 1])
  <2>1. Longer(ponged, ponged', Payload(m, fs[m]))
    BY <1>6 DEF Longer
  <2>2. Gets(ponged, ponged', asked)
    BY <1>9, <1>10, <2>1, RowGets
  <2> QED BY <2>2 DEF Gets
<1>13. meant' = meant /\ ended' = ended
  OBVIOUS
<1>14. DeliveriesStep
  BY <1>11, <1>13 DEF DeliveriesStep, Deliveries!Next, Deliveries!Get, sent
<1>15. AnswersStep
  BY <1>12, <1>13 DEF AnswersStep, Answers!Next, Answers!Get, asked
<1> QED BY <1>14, <1>15 DEF StreamSteps

LEMMA AppSendsStep == WsTypes /\ AppSends => StreamSteps
<1> SUFFICES ASSUME WsTypes, AppSends PROVE StreamSteps
  OBVIOUS
<1>1. PICK f \in Frames : script' = Append(script, f) /\ meant' = Meaning(script')
  BY DEF AppSends
<1>2. UNCHANGED <<delivered, ponged, ended>> /\ ended = "no"
  BY DEF AppSends
<1>3. script \in Seq(Frames) /\ meant = Meaning(script)
  BY DEF WsTypes
<1>4. /\ Grown(Meaning(script).messages, Meaning(Append(script, f)).messages)
      /\ Grown(Meaning(script).pings, Meaning(Append(script, f)).pings)
  BY <1>3, MeaningGrows
<1>5. Grown(meant.messages, meant'.messages) /\ Grown(meant.pings, meant'.pings)
  BY <1>1, <1>3, <1>4
<1>6. DeliveriesStep
  BY <1>2, <1>5 DEF DeliveriesStep, Deliveries!Next, Deliveries!Send, Grown
<1>7. AnswersStep
  BY <1>2, <1>5 DEF AnswersStep, Answers!Next, Answers!Send, Grown
<1> QED BY <1>6, <1>7 DEF StreamSteps

-----------------------------------------------------------------------------
(* The frames that are read on, and those that end the connection *)

LEMMA FrameTaken ==
  ASSUME WsTypes, NEW n, ReadTo(n), NEW op, Whole(op), rx' = DropFrame,
         UNCHANGED <<script, meant, stream, shaken, ended>>, ~Bad(script, n + 1),
         delivered' = MessagesTo(script, n + 1), ponged' = PingsTo(script, n + 1), InHand(n + 1)'
  PROVE  WsInv' /\ StreamSteps
<1>1. /\ n \in Nat /\ n < Len(script) /\ n + 1 \in 1..Len(script) /\ shaken = TRUE /\ ended = "no"
      /\ Handed(n) /\ FrameLen \in 1..Len(rx) /\ FrameLen = UnitsIn(script[n + 1])
      /\ LaidOut(Coming, 0, script, n)
  BY WholeIs
<1>2. WsTypes' /\ LaidOut(Coming', 0, script, n + 1)
  BY <1>1, FrameGoes
<1>3. ReadTo(n + 1)'
  BY <1>1, <1>2, FrameRead
<1>4. n + 1 \in 0..Len(script')
  BY <1>1
<1>5. StreamSteps
  BY <1>1, FrameHanded
<1> QED BY <1>2, <1>3, <1>4, <1>5 DEF WsInv

LEMMA OnPongKeeps == WsInv /\ OnPong => WsInv' /\ StreamSteps
<1> SUFFICES ASSUME WsInv, OnPong PROVE WsInv' /\ StreamSteps
  OBVIOUS
<1>1. PICK n \in 0..Len(script) : ReadTo(n)
  BY DEF WsInv
<1>2. WsTypes /\ Whole("pong") /\ rx' = DropFrame
      /\ UNCHANGED <<script, meant, stream, shaken, message, delivered, ponged, ended>>
  BY DEF WsInv, OnPong, app
<1>3. /\ n \in Nat /\ n + 1 \in 1..Len(script) /\ Frame = script[n + 1] /\ Frame.op = "pong"
      /\ Acceptable /\ InHand(n) /\ Handed(n)
  BY <1>1, <1>2, WholeIs
<1>4. ~Bad(script, n + 1) /\ InHand(n + 1) /\ MessagesTo(script, n + 1) = MessagesTo(script, n)
  BY <1>2, <1>3, ControlFrame
<1>5. PingsTo(script, n + 1) = PingsTo(script, n)
  <2>1. Len(script) \in Nat
    BY <1>2 DEF WsTypes
  <2> QED BY <1>3, <2>1, MessagesOneMore
<1>6. delivered' = MessagesTo(script, n + 1) /\ ponged' = PingsTo(script, n + 1)
  BY <1>2, <1>3, <1>4, <1>5 DEF Handed
<1>7. InHand(n + 1)'
  BY <1>2, <1>4 DEF InHand
<1> QED BY <1>1, <1>2, <1>4, <1>6, <1>7, FrameTaken

LEMMA OnPingKeeps == WsInv /\ OnPing => WsInv' /\ StreamSteps
<1> SUFFICES ASSUME WsInv, OnPing PROVE WsInv' /\ StreamSteps
  OBVIOUS
<1>1. PICK n \in 0..Len(script) : ReadTo(n)
  BY DEF WsInv
<1>2. WsTypes /\ Whole("ping") /\ rx' = DropFrame
      /\ UNCHANGED <<script, meant, stream, shaken, message, delivered>>
  BY DEF WsInv, OnPing, app
<1>3. /\ n \in Nat /\ n < Len(script) /\ n + 1 \in 1..Len(script) /\ rx[1].f = n + 1
      /\ Frame = script[n + 1] /\ Frame.op = "ping" /\ Acceptable /\ InHand(n) /\ Handed(n)
      /\ FrameLen \in 1..Len(rx) /\ FrameLen = UnitsIn(script[n + 1])
      /\ LaidOut(Coming, 0, script, n) /\ ended = "no"
  BY <1>1, <1>2, WholeIs
<1>4. CASE ponged' = Append(ponged, Payload(rx[1].f, Frame)) /\ UNCHANGED ended
  <2>1. ~Bad(script, n + 1) /\ InHand(n + 1) /\ MessagesTo(script, n + 1) = MessagesTo(script, n)
    BY <1>2, <1>3, ControlFrame
  <2>2. PingsTo(script, n + 1) = Append(PingsTo(script, n), Payload(n + 1, script[n + 1]))
    <3>1. Len(script) \in Nat
      BY <1>2 DEF WsTypes
    <3> QED BY <1>3, <3>1, MessagesOneMore
  <2>3. delivered' = MessagesTo(script, n + 1) /\ ponged' = PingsTo(script, n + 1)
    BY <1>2, <1>3, <1>4, <2>1, <2>2 DEF Handed
  <2>4. InHand(n + 1)'
    BY <1>2, <2>1 DEF InHand
  <2> QED BY <1>1, <1>2, <1>4, <2>1, <2>3, <2>4, FrameTaken
<1>5. CASE ended' = "lost" /\ UNCHANGED ponged
  <2>1. WsTypes'
    BY <1>2, <1>3, FrameGoes
  <2>2. ReadTo(n)'
    BY <1>2, <1>3, <1>5, EndsBy
  <2>3. StreamSteps
    BY <1>2, <1>3, <1>5, BothEnd
  <2> QED BY <1>2, <2>1, <2>2, <2>3 DEF WsInv
<1> QED BY <1>4, <1>5 DEF OnPing, End

LEMMA OnCloseKeeps == WsInv /\ OnClose => WsInv' /\ StreamSteps
<1> SUFFICES ASSUME WsInv, OnClose PROVE WsInv' /\ StreamSteps
  OBVIOUS
<1>1. PICK n \in 0..Len(script) : ReadTo(n)
  BY DEF WsInv
<1>2. WsTypes /\ Whole("close") /\ rx' = DropFrame /\ ended' = "closed"
      /\ UNCHANGED <<script, meant, stream, shaken, message, delivered, ponged>>
  BY DEF WsInv, OnClose, app, End
<1>3. /\ n \in Nat /\ n < Len(script) /\ Frame = script[n + 1] /\ Frame.op = "close"
      /\ Handed(n) /\ FrameLen \in 1..Len(rx) /\ FrameLen = UnitsIn(script[n + 1])
      /\ LaidOut(Coming, 0, script, n) /\ ended = "no"
  BY <1>1, <1>2, WholeIs
<1>4. WsTypes'
  BY <1>2, <1>3, FrameGoes
<1>5. ReadTo(n)'
  BY <1>2, <1>3, FrameEnds
<1>6. StreamSteps
  BY <1>2, <1>3, BothEnd
<1> QED BY <1>2, <1>4, <1>5, <1>6 DEF WsInv

LEMMA OnBadFrameKeeps == WsInv /\ OnBadFrame => WsInv' /\ StreamSteps
<1> SUFFICES ASSUME WsInv, OnBadFrame PROVE WsInv' /\ StreamSteps
  OBVIOUS
<1>1. PICK n \in 0..Len(script) : ReadTo(n)
  BY DEF WsInv
<1>2. PICK op \in Data \cup {"other"} : Whole(op) /\ (OutOfPlace(op) \/ TooLong)
  BY DEF OnBadFrame
<1>3. WsTypes /\ rx' = DropFrame /\ ended' = "error"
      /\ UNCHANGED <<script, meant, stream, shaken, message, delivered, ponged>>
  BY DEF WsInv, OnBadFrame, app, End
<1>4. /\ n \in Nat /\ n < Len(script) /\ n + 1 \in 1..Len(script) /\ rx[1].f = n + 1
      /\ Frame = script[n + 1] /\ Frame.op = op /\ InHand(n)
      /\ Handed(n) /\ FrameLen \in 1..Len(rx) /\ FrameLen = UnitsIn(script[n + 1])
      /\ LaidOut(Coming, 0, script, n) /\ ended = "no"
  BY <1>1, <1>2, <1>3, WholeIs
<1>5. Wrong(script, n + 1)
  <2>1. CASE OutOfPlace(op)
    <3>1. message.started <=> Open(script, n + 1)
      BY <1>4 DEF InHand
    <3>2. op = script[n + 1].op
      BY <1>4
    <3> QED BY <2>1, <3>1, <3>2 DEF OutOfPlace, Wrong
  <2>2. CASE ~OutOfPlace(op)
    <3>1. op \in Data /\ TooLong
      BY <1>2, <2>2 DEF OutOfPlace
    <3>2. Len(DataOf(script, n + 1)) = Len(message.data) + Frame.size
      BY <1>3, <1>4, <2>2, <3>1, DataFrame
    <3>3. Len(DataOf(script, n + 1)) > MaxMessage
      BY <3>1, <3>2 DEF TooLong
    <3>4. IsData(script, n + 1)
      BY <1>4, <3>1 DEF IsData
    <3> QED BY <3>3, <3>4 DEF Wrong
  <2> QED BY <2>1, <2>2
<1>6. WsTypes'
  BY <1>3, <1>4, FrameGoes
<1>7. ReadTo(n)'
  BY <1>3, <1>4, <1>5, FrameEnds
<1>8. StreamSteps
  BY <1>3, <1>4, BothEnd
<1> QED BY <1>3, <1>6, <1>7, <1>8 DEF WsInv

LEMMA OnDataKeeps == WsInv /\ OnData => WsInv' /\ StreamSteps
<1> SUFFICES ASSUME WsInv, OnData PROVE WsInv' /\ StreamSteps
  OBVIOUS
<1>1. PICK n \in 0..Len(script) : ReadTo(n)
  BY DEF WsInv
<1>2. PICK op \in Data : Whole(op) /\ ~OutOfPlace(op) /\ ~TooLong
  BY DEF OnData
<1>3. WsTypes /\ rx' = DropFrame /\ UNCHANGED <<script, meant, stream, shaken, ponged, ended>>
  BY DEF WsInv, OnData, app
<1>4. /\ n \in Nat /\ n < Len(script) /\ n + 1 \in 1..Len(script) /\ rx[1].f = n + 1
      /\ Frame = script[n + 1] /\ Frame.op = op /\ Acceptable /\ InHand(n) /\ Handed(n)
  BY <1>1, <1>2, <1>3, WholeIs
<1>5. /\ DataOf(script, n + 1) = message.data \o Payload(rx[1].f, Frame)
      /\ Len(DataOf(script, n + 1)) = Len(message.data) + Frame.size
      /\ script[FirstOf(script, n + 1)].op = IF message.started THEN message.op ELSE Frame.op
  BY <1>2, <1>3, <1>4, DataFrame
<1> DEFINE f == script[n + 1]
<1>6. /\ f.masked \in BOOLEAN /\ f.fin \in BOOLEAN /\ f.size \in Nat /\ f.op \in Data
      /\ Len(script) \in Nat
  BY <1>2, <1>3, <1>4, ScriptIs
<1>7. IsData(script, n + 1)
  BY <1>6 DEF IsData
<1>8. ~Bad(script, n + 1)
  <2>1. f.masked /\ ~(f.size > MaxMessage)
    BY <1>4, <1>6, FramesAssumption DEF Acceptable
  <2>2. f.op # "other" /\ f.op # "close"
    BY <1>6 DEF Data
  <2>3. ~(f.op \in {"text", "binary"} /\ Open(script, n + 1))
    BY <1>2, <1>4 DEF OutOfPlace, InHand
  <2>4. ~(f.op = "continuation" /\ ~Open(script, n + 1))
    BY <1>2, <1>4 DEF OutOfPlace, InHand
  <2>5. ~(Len(DataOf(script, n + 1)) > MaxMessage)
    BY <1>2, <1>5 DEF TooLong
  <2> QED BY <2>1, <2>2, <2>3, <2>4, <2>5 DEF Bad, Wrong
<1>9. Extended = [started |-> TRUE, op |-> script[FirstOf(script, n + 1)].op,
                  data |-> DataOf(script, n + 1)]
  BY <1>5 DEF Extended
<1>10. ponged' = PingsTo(script, n + 1)
  <2>1. f.op # "ping"
    BY <1>6 DEF Data
  <2>2. PingsTo(script, n + 1) = PingsTo(script, n)
    BY <1>4, <1>6, <2>1, MessagesOneMore
  <2> QED BY <1>3, <1>4, <2>2 DEF Handed
<1>11. Open(script, (n + 1) + 1) <=> ~f.fin
  <2> DEFINE i == n + 1
  <2>1. i \in Nat \ {0}
    BY <1>4
  <2> HIDE DEF i
  <2>2. Open(script, i + 1) <=> IF IsData(script, i) THEN ~script[i].fin ELSE Open(script, i)
    BY <2>1, OpenOneMore
  <2> QED BY <1>7, <2>2 DEF i
<1>12. delivered' = MessagesTo(script, n + 1)
  <2>1. MessagesTo(script, n + 1)
          = IF f.fin THEN Append(MessagesTo(script, n), MessageAt(script, n + 1))
            ELSE MessagesTo(script, n)
    BY <1>4, <1>6, <1>7, MessagesOneMore
  <2>2. delivered = MessagesTo(script, n)
    BY <1>4 DEF Handed
  <2>3. delivered' = IF f.fin THEN Append(delivered, [op |-> Extended.op, data |-> Extended.data])
                     ELSE delivered
    BY <1>4 DEF OnData
  <2>4. [op |-> Extended.op, data |-> Extended.data] = MessageAt(script, n + 1)
    BY <1>9 DEF MessageAt
  <2> QED BY <2>1, <2>2, <2>3, <2>4
<1>13. InHand(n + 1)'
  <2>1. CASE f.fin
    <3>1. message' = NoMessage
      BY <1>4, <2>1 DEF OnData
    <3>2. ~Open(script, (n + 1) + 1)
      BY <1>11, <2>1
    <3> QED BY <1>3, <3>1, <3>2 DEF InHand, NoMessage
  <2>2. CASE ~f.fin
    <3>1. message' = Extended
      BY <1>4, <2>2 DEF OnData
    <3>2. Open(script, (n + 1) + 1)
      BY <1>11, <2>2
    <3>3. /\ message'.started = TRUE /\ message'.op = script[FirstOf(script, n + 1)].op
          /\ message'.data = DataOf(script, n + 1)
      BY <1>9, <3>1
    <3> QED BY <1>3, <3>2, <3>3 DEF InHand
  <2> QED BY <2>1, <2>2
<1> QED BY <1>1, <1>2, <1>3, <1>8, <1>10, <1>12, <1>13, FrameTaken

-----------------------------------------------------------------------------
(* The theorems *)

LEMMA WsStep == WsInv /\ [WsNext]_wsVars => WsInv' /\ StreamSteps
<1> SUFFICES ASSUME WsInv, [WsNext]_wsVars PROVE WsInv' /\ StreamSteps
  OBVIOUS
<1>1. WsTypes
  BY DEF WsInv
<1>2. CASE AppSends
  BY <1>1, <1>2, AppSendsKeeps, AppSendsStep
<1>3. CASE AppLeaves
  <2>1. StreamSteps
    BY <1>3, NothingMoves DEF AppLeaves
  <2> QED BY <1>3, <2>1, AppLeavesKeeps
<1>4. CASE Read
  <2>1. StreamSteps
    BY <1>4, NothingMoves DEF Read
  <2> QED BY <1>4, <2>1, ReadKeeps
<1>5. CASE ReadFails
  <2>1. UNCHANGED <<meant, delivered, ponged>> /\ ended = "no" /\ ended' # "no"
    BY <1>5 DEF ReadFails, End, app
  <2> QED BY <1>5, <2>1, BothEnd, ReadFailsKeeps
<1>6. CASE Refuses
  <2>1. UNCHANGED <<meant, delivered, ponged>> /\ ended = "no" /\ ended' # "no"
    BY <1>6 DEF Refuses, Reading, End, app
  <2> QED BY <1>6, <2>1, BothEnd, RefusesKeeps
<1>7. CASE Shakes
  <2>1. UNCHANGED <<meant, delivered, ponged>> /\ ended = "no"
    BY <1>7 DEF Shakes
  <2>2. CASE ended' = "no"
    BY <2>1, <2>2, NothingMoves, <1>7, ShakesKeeps
  <2>3. CASE ended' # "no"
    BY <2>1, <2>3, BothEnd, <1>7, ShakesKeeps
  <2> QED BY <2>2, <2>3
<1>8. CASE OnPing
  BY <1>8, OnPingKeeps
<1>9. CASE OnPong
  BY <1>9, OnPongKeeps
<1>10. CASE OnClose
  BY <1>10, OnCloseKeeps
<1>11. CASE OnBadFrame
  BY <1>11, OnBadFrameKeeps
<1>12. CASE OnData
  BY <1>12, OnDataKeeps
<1>13. CASE UNCHANGED wsVars
  <2>1. UNCHANGED <<script, meant, stream, rx, shaken, message, delivered, ponged, ended>>
    BY <1>13 DEF wsVars
  <2>2. StreamSteps
    BY <2>1, NothingMoves
  <2>3. WsInv'
    BY <2>1 DEF WsInv, WsTypes, ReadTo, Handed, InHand, Cause, Follows, AfterRequest, Coming
  <2> QED BY <2>2, <2>3
<1> QED BY <1>2, <1>3, <1>4, <1>5, <1>6, <1>7, <1>8, <1>9, <1>10, <1>11, <1>12, <1>13
        DEF WsNext, Receive, Over

\* What is in the receive buffer, in the message buffer and at the core follows from the
\* number of frames that were read, wherever the pieces of the stream were cut: the reader is
\* always at the same place of the frames as their meaning (ws.c:362-440, 446-531).
THEOREM FramesAreRead == WsSpec => []WsInv
<1>1. WsInv /\ [WsNext]_wsVars => WsInv'
  BY WsStep
<1> QED BY WsStarts, <1>1, PTL DEF WsSpec

LEMMA InvCauses == WsInv => OnlyWrongIsDropped
<1> SUFFICES ASSUME WsInv PROVE OnlyWrongIsDropped
  OBVIOUS
<1>1. PICK n \in 0..Len(script) : ReadTo(n)
  BY DEF WsInv
<1>2. WsTypes /\ Handed(n) /\ Cause(n)
  BY <1>1 DEF WsInv, ReadTo
<1>3. Len(script) \in Nat /\ DOMAIN script = 1..Len(script) /\ meant.good = Good(script)
  <2>1. Len(script) \in Nat /\ DOMAIN script = 1..Len(script) /\ meant = Meaning(script)
    BY <1>2, ScriptIs DEF WsTypes
  <2> QED BY <2>1, MeaningIs
<1>4. ASSUME n < Len(script), Bad(script, n + 1) PROVE meant.good = n
  <2>1. \A i \in 1..n : ~Bad(script, i)
    BY <1>2 DEF Handed
  <2> QED BY <1>3, <1>4, <2>1, GoodExactly
<1>5. ended = "error" => meant.good = n
  BY <1>2, <1>4 DEF Cause, Bad
<1>6. ended = "closed" => meant.good = n
  BY <1>2, <1>4 DEF Cause, Bad
<1> QED BY <1>2, <1>5, <1>6 DEF OnlyWrongIsDropped, Cause

-----------------------------------------------------------------------------
(* Types and buffers *)

LEMMA GreatestOfTwo ==
  ASSUME NEW a \in Int, NEW b \in Int
  PROVE  Max({a, b}) \in Int /\ a <= Max({a, b}) /\ b <= Max({a, b})
<1> DEFINE S == {a, b}
           m == IF a >= b THEN a ELSE b
<1>1. m \in S /\ (\A y \in S : m >= y) /\ S \subseteq Int /\ m \in Int
  OBVIOUS
<1> HIDE DEF m, S
<1>2. Max(S) = m
  BY <1>1, GreatestIs
<1>3. a <= m /\ b <= m
  BY <1>1 DEF S
<1> QED BY <1>1, <1>2, <1>3 DEF S

\* What is read is no more than was asked for.
LEMMA PiecesFit ==
  ASSUME rx \in Seq(Unit), stream \in Seq(Unit), NEW m \in Int, NEW p \in Pieces(m)
  PROVE  Len(rx \o p) <= Len(rx) + m
<1>1. Len(stream) \in Nat /\ Len(rx) \in Nat
  OBVIOUS
<1> DEFINE a == Len(stream)
           b == Min({a, m})
<1>2. b \in Int /\ b <= m
  <2>1. a \in Int
    BY <1>1
  <2> HIDE DEF a
  <2> QED BY <2>1, LeastOfTwo
<1>3. {a, m} = {m, Len(stream)}
  OBVIOUS
<1>4. PICK k \in 1..b : p = SubSeq(stream, 1, k)
  BY <1>3 DEF Pieces
<1> HIDE DEF b
<1>5. PICK j \in 1..Len(stream) : p = SubSeq(stream, 1, j)
  BY PiecesAre
<1>6. Len(p) = j /\ p \in Seq(Unit)
  BY <1>5, PieceIs
<1>7. Len(p) <= m
  <2>1. Len(p) = IF 1 <= k THEN k ELSE 0
    BY <1>1, <1>2, <1>4
  <2> QED BY <1>2, <2>1
<1>8. Len(rx \o p) = Len(rx) + Len(p)
  BY <1>6, ConcatFirst
<1> QED BY <1>1, <1>6, <1>7, <1>8

LEMMA ReadFits ==
  ASSUME WsInv, WsTypeOK, BuffersHold, Read
  PROVE  Len(rx') <= Max({MaxMessage + 3, MaxHandshake})
<1>1. PICK n \in 0..Len(script) : ReadTo(n)
  BY DEF WsInv
<1>2. WsTypes /\ rx \in Seq(Unit) /\ stream \in Seq(Unit) /\ Len(rx) \in Nat
  BY DEF WsInv, WsTypeOK
<1>3. Complete => /\ Frame.size \in Nat /\ Frame.size <= MaxMessage
  <2> SUFFICES ASSUME Complete PROVE Frame.size \in Nat /\ Frame.size <= MaxMessage
    OBVIOUS
  <2>1. rx # <<>> /\ Reading /\ Acceptable
    BY DEF Complete, Read
  <2>2. Frame = script[n + 1] /\ n + 1 \in 1..Len(script)
    BY <1>1, <1>2, <2>1, NextFrame
  <2> QED BY <1>2, <2>1, <2>2, ScriptIs DEF Acceptable
<1>4. Wanted \in Int /\ Wanted <= MaxMessage + 3
  <2>1. LengthUnits \in {0, 1} /\ MaxMessage \in Nat
    BY FramesAssumption DEF LengthUnits
  <2> QED BY <1>3, <2>1 DEF Wanted, FrameLen, HeaderLen
<1>5. PICK p \in Pieces(Wanted - Len(rx)) : rx' = rx \o p
  BY DEF Read
<1> DEFINE m == Wanted - Len(rx)
<1>6. m \in Int /\ Len(rx) + m = Wanted
  BY <1>2, <1>4
<1> HIDE DEF m
<1>7. Len(rx \o p) <= Len(rx) + m
  BY <1>2, <1>5, <1>6, PiecesFit DEF m
<1>8. Len(rx') <= MaxMessage + 3 /\ Len(rx') \in Nat
  <2>1. rx \o p \in Seq(Unit)
    BY <1>2, <1>5, <1>6, PiecesMove DEF m
  <2> DEFINE q == rx \o p
  <2>2. q = rx' /\ q \in Seq(Unit) /\ Len(q) <= Len(rx) + m
    BY <1>5, <1>7, <2>1
  <2> HIDE DEF q
  <2>3. Len(q) \in Nat /\ Len(q) <= MaxMessage + 3
    BY <1>4, <1>6, <2>2, FramesAssumption
  <2> QED BY <2>2, <2>3
<1>9. /\ MaxMessage + 3 <= Max({MaxMessage + 3, MaxHandshake})
      /\ Max({MaxMessage + 3, MaxHandshake}) \in Int
  <2>1. MaxMessage + 3 \in Int /\ MaxHandshake \in Int
    BY FramesAssumption
  <2> DEFINE c == MaxMessage + 3
  <2> HIDE DEF c
  <2> QED BY <2>1, GreatestOfTwo DEF c
<1> QED BY <1>8, <1>9, FramesAssumption

LEMMA ShakesFit ==
  ASSUME WsInv, WsTypeOK, BuffersHold, Shakes
  PROVE  Len(rx') <= Max({MaxMessage + 3, MaxHandshake})
<1> DEFINE top == Max({MaxMessage + 3, MaxHandshake})
<1>1. WsTypes /\ rx \in Seq(Unit) /\ stream \in Seq(Unit) /\ Len(rx) \in Nat
  BY DEF WsInv, WsTypeOK
<1>2. PICK p \in Pieces(MaxHandshake - Len(rx)) :
        \/ rx' = rx \o p \/ rx' = SubSeq(rx \o p, 3, Len(rx \o p)) \/ rx' = rx
  BY DEF Shakes
<1> DEFINE m == MaxHandshake - Len(rx)
           all == rx \o p
<1>3. m \in Int /\ Len(rx) + m = MaxHandshake
  BY <1>1, FramesAssumption
<1>4. all \in Seq(Unit) /\ Len(all) <= Len(rx) + m
  <2> HIDE DEF m
  <2>1. rx \o p \in Seq(Unit)
    BY <1>1, <1>2, <1>3, PiecesMove DEF m
  <2>2. Len(rx \o p) <= Len(rx) + m
    BY <1>1, <1>2, <1>3, PiecesFit DEF m
  <2> QED BY <2>1, <2>2
<1> HIDE DEF m, all
<1>5. MaxHandshake <= top /\ top \in Int
  <2>1. MaxMessage + 3 \in Int /\ MaxHandshake \in Int
    BY FramesAssumption
  <2> DEFINE c == MaxMessage + 3
  <2> HIDE DEF c
  <2> QED BY <2>1, GreatestOfTwo DEF c
<1>6. Len(rx) <= top
  BY DEF BuffersHold
<1> HIDE DEF top
<1>7. Len(all) \in Nat /\ Len(all) <= top
  BY <1>3, <1>4, <1>5, FramesAssumption
<1>8. CASE rx' = all
  BY <1>7, <1>8 DEF top
<1>9. CASE rx' = SubSeq(all, 3, Len(all))
  <2> DEFINE t == SubSeq(all, 3, Len(all))
  <2>1. Len(t) = IF 3 <= Len(all) THEN Len(all) - 2 ELSE 0
    BY <1>4, <1>7
  <2> HIDE DEF t
  <2>2. 0 <= top
    BY <1>5, <1>7
  <2>3. Len(t) <= top
    BY <1>5, <1>7, <2>1, <2>2
  <2> QED BY <1>9, <2>3 DEF t, top
<1> QED BY <1>2, <1>6, <1>8, <1>9 DEF all, top

\* A frame that goes makes the buffer shorter.
LEMMA DropFits ==
  ASSUME WsInv, WsTypeOK, BuffersHold, rx' = DropFrame, NEW op, Whole(op)
  PROVE  Len(rx') <= Max({MaxMessage + 3, MaxHandshake})
<1>1. PICK n \in 0..Len(script) : ReadTo(n)
  BY DEF WsInv
<1>2. FrameLen \in 1..Len(rx) /\ rx \in Seq(Unit)
  BY <1>1, WholeIs DEF WsInv, WsTypes
<1> DEFINE d == FrameLen
<1>3. rx' = SubSeq(rx, d + 1, Len(rx)) /\ d \in 0..Len(rx) /\ Len(rx) \in Nat /\ d \in Nat
  BY <1>2 DEF DropFrame
<1> HIDE DEF d
<1>4. Len(rx') = Len(rx) - d
  BY <1>2, <1>3, CutIs
<1>5. Len(rx) <= Max({MaxMessage + 3, MaxHandshake})
  BY DEF BuffersHold
<1>6. Max({MaxMessage + 3, MaxHandshake}) \in Int
  <2>1. MaxMessage + 3 \in Int /\ MaxHandshake \in Int
    BY FramesAssumption
  <2> DEFINE c == MaxMessage + 3
  <2> HIDE DEF c
  <2> QED BY <2>1, GreatestOfTwo DEF c
<1> DEFINE top == Max({MaxMessage + 3, MaxHandshake})
<1> HIDE DEF top
<1>7. Len(rx) <= top /\ top \in Int
  BY <1>5, <1>6 DEF top
<1>8. Len(rx') <= top
  BY <1>3, <1>4, <1>7
<1> QED BY <1>8 DEF top

LEMMA DataFits ==
  ASSUME WsInv, WsTypeOK, BuffersHold, OnData
  PROVE  /\ message' \in [started : BOOLEAN, op : Opcodes, data : Seq(Nat \X Nat)]
         /\ Len(message'.data) <= MaxMessage
<1>1. PICK n \in 0..Len(script) : ReadTo(n)
  BY DEF WsInv
<1>2. PICK op \in Data : Whole(op) /\ ~OutOfPlace(op) /\ ~TooLong
  BY DEF OnData
<1>3. WsTypes
  BY DEF WsInv
<1>4. /\ n \in Nat /\ n + 1 \in 1..Len(script) /\ rx[1].f = n + 1
      /\ Frame = script[n + 1] /\ Frame.op = op /\ InHand(n)
  BY <1>1, <1>2, <1>3, WholeIs
<1>5. Frame.size \in Nat /\ Frame.op \in Opcodes
  BY <1>3, <1>4, ScriptIs
<1> DEFINE p == Payload(rx[1].f, Frame)
           d == message.data
<1>6. p \in Seq(Nat \X Nat) /\ Len(p) = Frame.size
  <2>1. n + 1 \in Nat
    BY <1>4
  <2> QED BY <1>4, <1>5, <2>1, PayloadIs
<1>7. d \in Seq(Nat \X Nat) /\ message.op \in Opcodes
  BY DEF WsTypeOK
<1> HIDE DEF p, d
<1>8. d \o p \in Seq(Nat \X Nat) /\ Len(d \o p) = Len(d) + Len(p)
  BY <1>6, <1>7, ConcatProperties
<1>9. Len(d) + Len(p) <= MaxMessage
  BY <1>2, <1>5, <1>6, <1>7, FramesAssumption DEF TooLong, d
<1> DEFINE q == d \o p
           e == <<>>
<1>10. e \in Seq(Nat \X Nat) /\ Len(e) = 0
  BY EmptySeq
<1>11. q \in Seq(Nat \X Nat) /\ Len(q) <= MaxMessage
  BY <1>8, <1>9
<1>12. Extended = [started |-> TRUE, op |-> IF message.started THEN message.op ELSE Frame.op,
                   data |-> q]
  BY DEF Extended, q, d, p
<1>13. NoMessage = [started |-> FALSE, op |-> "text", data |-> e]
  BY DEF NoMessage
<1>14. message' = NoMessage \/ message' = Extended
  BY DEF OnData
<1>15. Extended \in [started : BOOLEAN, op : Opcodes, data : Seq(Nat \X Nat)] /\ Extended.data = q
  <2> DEFINE o == IF message.started THEN message.op ELSE Frame.op
  <2>1. o \in Opcodes
    BY <1>5, <1>7
  <2> HIDE DEF o, q
  <2> QED BY <1>11, <1>12, <2>1 DEF o
<1>16. NoMessage \in [started : BOOLEAN, op : Opcodes, data : Seq(Nat \X Nat)] /\ NoMessage.data = e
  <2> HIDE DEF e
  <2> QED BY <1>10, <1>13 DEF Opcodes
<1>17. Len(e) <= MaxMessage
  BY <1>10, FramesAssumption
<1> HIDE DEF q, e
<1> QED BY <1>11, <1>14, <1>15, <1>16, <1>17

LEMMA TypesStep ==
  ASSUME WsInv, WsTypeOK, BuffersHold, WsInv', [WsNext]_wsVars
  PROVE  WsTypeOK' /\ BuffersHold'
<1> DEFINE kinds == [started : BOOLEAN, op : Opcodes, data : Seq(Nat \X Nat)]
           reasons == {"no", "handshake", "lost", "closed", "error"}
           top == Max({MaxMessage + 3, MaxHandshake})
           same == UNCHANGED <<left, message, fresh, active>>
           Kept == /\ left' \in BOOLEAN /\ message' \in kinds /\ fresh' \in Nat /\ active' \in Nat
                   /\ ended' \in reasons /\ Len(rx') <= top /\ Len(message'.data) <= MaxMessage
<1>1. /\ left \in BOOLEAN /\ message \in kinds /\ fresh \in Nat /\ active \in Nat
      /\ ended \in reasons /\ Len(rx) <= top /\ Len(message.data) <= MaxMessage
  BY DEF WsTypeOK, BuffersHold
<1>2. (script \in Seq(Frames) /\ rx \in Seq(Unit) /\ stream \in Seq(Unit) /\ shaken \in BOOLEAN)'
  BY DEF WsInv, WsTypes
<1> SUFFICES Kept
  BY <1>2 DEF WsTypeOK, BuffersHold
<1> HIDE DEF kinds, reasons, top
<1>3. CASE AppSends
  BY <1>1, <1>3 DEF AppSends
<1>4. CASE AppLeaves
  BY <1>1, <1>4 DEF AppLeaves
<1>5. CASE Read
  <2>1. Len(rx') <= top
    BY <1>5, ReadFits DEF top
  <2>2. same /\ UNCHANGED ended
    BY <1>5 DEF Read
  <2> QED BY <1>1, <2>1, <2>2
<1>6. CASE ReadFails
  <2>1. ended' \in reasons
    BY <1>6 DEF ReadFails, End, reasons
  <2>2. same /\ UNCHANGED rx
    BY <1>6 DEF ReadFails, app
  <2> QED BY <1>1, <2>1, <2>2
<1>7. CASE Refuses
  <2>1. ended' \in reasons
    BY <1>7 DEF Refuses, End, reasons
  <2>2. same /\ UNCHANGED rx
    BY <1>7 DEF Refuses, app
  <2> QED BY <1>1, <2>1, <2>2
<1>8. CASE Shakes
  <2>1. ended' \in reasons
    BY <1>1, <1>8 DEF Shakes, End, reasons
  <2>2. same
    BY <1>8 DEF Shakes
  <2>3. Len(rx') <= top
    BY <1>8, ShakesFit DEF top
  <2> QED BY <1>1, <2>1, <2>2, <2>3
<1>9. CASE OnPing
  <2>1. ended' \in reasons
    BY <1>1, <1>9 DEF OnPing, End, reasons
  <2>2. Len(rx') <= top
    BY <1>9, DropFits DEF OnPing, top
  <2>3. UNCHANGED <<left, message, active>> /\ fresh' = fresh + 1
    BY <1>9 DEF OnPing, app
  <2> QED BY <1>1, <2>1, <2>2, <2>3
<1>10. CASE OnPong
  <2>1. Len(rx') <= top
    BY <1>10, DropFits DEF OnPong, top
  <2>2. same /\ UNCHANGED ended
    BY <1>10 DEF OnPong, app
  <2> QED BY <1>1, <2>1, <2>2
<1>11. CASE OnClose
  <2>1. Len(rx') <= top
    BY <1>11, DropFits DEF OnClose, top
  <2>2. same /\ ended' \in reasons
    BY <1>11 DEF OnClose, End, app, reasons
  <2> QED BY <1>1, <2>1, <2>2
<1>12. CASE OnBadFrame
  <2>1. Len(rx') <= top
    BY <1>12, DropFits DEF OnBadFrame, top
  <2>2. same /\ ended' \in reasons
    BY <1>12 DEF OnBadFrame, End, app, reasons
  <2> QED BY <1>1, <2>1, <2>2
<1>13. CASE OnData
  <2>1. Len(rx') <= top
    BY <1>13, DropFits DEF OnData, top
  <2>2. message' \in kinds /\ Len(message'.data) <= MaxMessage
    BY <1>13, DataFits DEF kinds
  <2>3. UNCHANGED <<left, ended>>
    BY <1>13 DEF OnData, app
  <2>4. fresh' \in {fresh, 0} /\ active' \in {active, active + 1}
    BY <1>1, <1>13 DEF OnData
  <2> QED BY <1>1, <2>1, <2>2, <2>3, <2>4
<1>14. CASE UNCHANGED wsVars
  BY <1>1, <1>14 DEF wsVars
<1> QED BY <1>3, <1>4, <1>5, <1>6, <1>7, <1>8, <1>9, <1>10, <1>11, <1>12, <1>13, <1>14
        DEF WsNext, Receive, Over

LEMMA TypesStart == WsInit => WsTypeOK /\ BuffersHold
<1> SUFFICES ASSUME WsInit PROVE WsTypeOK /\ BuffersHold
  OBVIOUS
<1> DEFINE none == <<>>
           c == MaxMessage + 3
<1>1. /\ script = none /\ rx = none /\ stream = Request /\ shaken = FALSE /\ left = FALSE
      /\ message = [started |-> FALSE, op |-> "text", data |-> none]
      /\ fresh = 0 /\ active = 0 /\ ended = "no"
  BY DEF WsInit, NoMessage
<1>2. none \in Seq(Frames) /\ none \in Seq(Unit) /\ none \in Seq(Nat \X Nat) /\ Len(none) = 0
  BY EmptySeq
<1>3. Request \in Seq(Unit)
  BY DEF Request, Unit
<1>4. Max({c, MaxHandshake}) \in Int /\ 0 <= Max({c, MaxHandshake}) /\ 0 <= MaxMessage
  <2>1. c \in Nat /\ MaxHandshake \in Nat /\ MaxMessage \in Nat
    BY FramesAssumption
  <2> HIDE DEF c
  <2>2. Max({c, MaxHandshake}) \in Int /\ c <= Max({c, MaxHandshake})
    BY <2>1, GreatestOfTwo
  <2> QED BY <2>1, <2>2
<1> HIDE DEF none
<1>5. WsTypeOK
  BY <1>1, <1>2, <1>3 DEF WsTypeOK, Opcodes
<1>6. Len(rx) = 0 /\ Len(message.data) = 0
  BY <1>1, <1>2
<1> QED BY <1>4, <1>5, <1>6 DEF BuffersHold

LEMMA ReaderFits == WsSpec => [](WsTypeOK /\ BuffersHold)
<1>1. WsInv /\ WsTypeOK /\ BuffersHold /\ [WsNext]_wsVars => (WsTypeOK /\ BuffersHold)'
  BY WsStep, TypesStep
<1> QED BY TypesStart, <1>1, FramesAreRead, PTL DEF WsSpec

\* The reader's state is always of its types, for any frames, limits and number of frames.
THEOREM ReaderTypeCorrect == WsSpec => []WsTypeOK
<1> QED BY ReaderFits, PTL

\* The receive buffer and the message buffer are long enough for whatever an App sends, in
\* frames of any size and fragments of any number (ws.c:362-374, 510-513, 542-543).
THEOREM BuffersAreEnough == WsSpec => []BuffersHold
<1> QED BY ReaderFits, PTL

\* A connection ends with an error only at the first frame that breaks the protocol or a
\* limit, and as closed only at the App's own close frame (ws.c:481-513).
THEOREM OnlyWrongEnds == WsSpec => []OnlyWrongIsDropped
<1> QED BY FramesAreRead, InvCauses, PTL

\* The reader implements two streams: the core gets the messages that the frames make, whole,
\* once and in order, and each ping is answered with its own payload (ws.c:446-530).
THEOREM ReaderImplementsStreams == WsSpec => ImplementsStreams
<1>1. WsInit => Deliveries!Init /\ Answers!Init
  <2> SUFFICES ASSUME WsInit PROVE Deliveries!Init /\ Answers!Init
    OBVIOUS
  <2> DEFINE none == <<>>
  <2>1. meant = Meaning(none) /\ delivered = <<>> /\ ponged = <<>> /\ ended = "no"
    BY DEF WsInit
  <2>2. none \in Seq({}) /\ Len(none) = 0 /\ DOMAIN none = 1..Len(none)
    OBVIOUS
  <2> HIDE DEF none
  <2>3. Good(none) = 0
    BY <2>2, GoodIs
  <2>4. Meaning(none).messages = <<>> /\ Meaning(none).pings = <<>>
    <3>1. /\ Meaning(none).messages = Row(Finals(none), 0, AllMessages(none))
          /\ Meaning(none).pings = Row(Pinged(none), 0, AllPayloads(none))
      BY <2>2, <2>3, MeaningIs DEF MessagesTo, PingsTo
    <3> QED BY <3>1, RowEmpty
  <2> QED BY <2>1, <2>4 DEF Deliveries!Init, Answers!Init
<1>2. WsInv /\ [WsNext]_wsVars =>
        [Deliveries!Next]_<<meant.messages, delivered, ended # "no">> /\
        [Answers!Next]_<<meant.pings, ponged, ended # "no">>
  BY WsStep DEF StreamSteps, DeliveriesStep, AnswersStep
<1> QED BY <1>1, <1>2, FramesAreRead, PTL
        DEF WsSpec, ImplementsStreams, Deliveries!Spec, Answers!Spec
=============================================================================
