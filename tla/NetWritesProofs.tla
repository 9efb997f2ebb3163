--------------------------- MODULE NetWritesProofs ---------------------------
(***************************************************************************)
(* Proofs about NetWrites for any slots, descriptors, connections and      *)
(* frames and any room in the queues.  Nobody sends under the transport    *)
(* lock and nobody asks for the transport lock under a frame lock.  Every  *)
(* connection receives whole frames, a payload missing only at the end or  *)
(* when it found the queue full, and what the core said on a connection    *)
(* that is up is, but for what found the queue full, on the wire or        *)
(* queued, once and in order.  Numbers and slots may be handed on under a  *)
(* write for their last owner: nothing is said of a connection that got    *)
(* its own that way, but it spoils no other one.                           *)
(*                                                                         *)
(* Orderly says which thread has which lock and what it has left to do;    *)
(* Books and Sends who has which connection and number, and that a send    *)
(* goes to the number of its slot; Streams and Speeches that what is on a  *)
(* wire, what a thread is about to put there and what is queued make, in a *)
(* row, whole frames that tell what the core said.                         *)
(***************************************************************************)
EXTENDS NetWrites, FiniteSetTheorems, TLAPS

-----------------------------------------------------------------------------
(* What a thread still has to do is a list in which a step that holds a lock is followed by
   the one that goes on with it or lets go of it.  The connection threads reply, the other two
   flush: one send with the queue to empty after it, or up to two sends of one frame. *)

Framed == {"sending", "release", "empty"}
Locked == {"write", "unlock"}

Apt(t, q) ==
  \A i \in 1 .. Len(q) :
    /\ q[i].op = "write" => i + 1 <= Len(q) /\ q[i + 1].op = "unlock"
    /\ q[i].op = "sending" => /\ i + 1 <= Len(q) /\ q[i + 1].op \in Framed
                              /\ q[i + 1].slot = q[i].slot
    /\ t \in Slots /\ q[i].op \in {"reply", "flush", "sending"} => q[i].slot = t
    /\ q[i].op # "sending" => q[i].fd = None
    /\ q[i].op \in {"flush", "write"} => q[i].slot \in Slots
    /\ t \in Slots => q[i].op \notin {"flush", "empty"}
    /\ t \notin Slots => q[i].op \notin {"reply", "release"}
    /\ q[i].op = "sending" /\ t \notin Slots => q[i + 1].op = "empty"
    /\ i > 1 /\ q[i].op \in Framed => q[i - 1].op = "sending"
    /\ i > 1 /\ q[i].op = "sending" => q[i - 1].fd = q[i].fd /\ q[i + 1].op = "release"
    /\ i > 1 /\ q[i].op = "clear" => q[i - 1].op = "close"
    /\ q[i].op = "close" => i + 1 <= Len(q) /\ q[i + 1].op = "clear"

Listed == \E S : proc \in [Threads -> Seq(S)]
Lists == \A t \in Threads : Apt(t, proc[t])

\* Who holds the transport lock is about to write or to let go of it.
HolderWrites == \A t \in Threads : lock = t => proc[t] # <<>> /\ Head(proc[t]).op \in Locked

\* Who holds the frame lock of a slot is sending to it or about to let go of it.
HolderSends ==
  \A t \in Threads : \A s \in Slots :
    frame[s] = t => proc[t] # <<>> /\ Head(proc[t]).op \in Framed /\ Head(proc[t]).slot = s

\* ... and the other way round.
SenderHolds ==
  \A t \in Threads :
    proc[t] # <<>> /\ Head(proc[t]).op \in Framed => /\ Head(proc[t]).slot \in Slots
                                                    /\ frame[Head(proc[t]).slot] = t

BoundType == bound \in Slots \cup {None}
FrameType == frame \in [Slots -> Threads \cup {None}]

\* The strengthening.
Orderly == Listed /\ Lists /\ HolderWrites /\ HolderSends /\ SenderHolds /\ FrameType

LEMMA NoneApart == None \notin Threads /\ Slots \subseteq Threads
  BY WritesAssumption DEF Threads

LEMMA OrderlyImplies == Orderly => LockOrder
  BY DEF Orderly, HolderWrites, HolderSends, LockOrder, Doing, AtLock, Framed, Locked

LEMMA OrderlyInit == Init => Orderly
  <1> SUFFICES ASSUME Init PROVE Orderly
    OBVIOUS
  <1>1. Listed
    <2>1. proc \in [Threads -> Seq({})]
      BY DEF Init
    <2> QED BY <2>1 DEF Listed
  <1> QED BY <1>1, NoneApart
          DEF Init, Orderly, Lists, HolderWrites, HolderSends, SenderHolds, FrameType, Apt

-----------------------------------------------------------------------------
(* Lists *)

LEMMA SeqGrows ==
  ASSUME NEW S, NEW T, S \subseteq T, NEW q \in Seq(S)
  PROVE  q \in Seq(T)
  OBVIOUS

LEMMA NonEmptyHead ==
  ASSUME NEW S, NEW r \in Seq(S), 1 \in 1 .. Len(r)
  PROVE  r # <<>> /\ Head(r) = r[1]
  OBVIOUS

LEMMA HeadOfTail ==
  ASSUME NEW S, NEW q \in Seq(S), Len(q) >= 2
  PROVE  Tail(q) # <<>> /\ Head(Tail(q)) = q[2]
  <1>1. Tail(q) \in Seq(S) /\ Len(Tail(q)) = Len(q) - 1 /\ 1 \in 1 .. Len(Tail(q))
    OBVIOUS
  <1>2. Tail(q)[1] = q[2]
    BY <1>1
  <1>3. Tail(q) # <<>> /\ Head(Tail(q)) = Tail(q)[1]
    BY <1>1, NonEmptyHead
  <1> QED BY <1>2, <1>3

LEMMA AptTail ==
  ASSUME NEW S, NEW t, NEW q \in Seq(S), q # <<>>, Apt(t, q)
  PROVE  Tail(q) \in Seq(S) /\ Apt(t, Tail(q))
  <1>1. Tail(q) \in Seq(S) /\ Len(Tail(q)) = Len(q) - 1 /\ Len(q) \in Nat \ {0}
    OBVIOUS
  <1>2. \A i \in 1 .. Len(Tail(q)) : Tail(q)[i] = q[i + 1] /\ i + 1 \in 1 .. Len(q)
    BY <1>1
  <1>3. \A i \in 1 .. Len(Tail(q)) : i + 1 \in 1 .. Len(q) =>
          (i + 1 <= Len(Tail(q)) <=> (i + 1) + 1 <= Len(q))
    BY <1>1
  <1>4. \A i \in 1 .. Len(Tail(q)) : i + 1 <= Len(Tail(q)) => Tail(q)[i + 1] = q[(i + 1) + 1]
    BY <1>1
  <1> QED BY <1>1, <1>2, <1>3, <1>4 DEF Apt

\* A list that does not begin in the middle of a frame, or of the end of a connection.
Unframed(q) == q = <<>> \/ Head(q).op \notin Framed
Fresh(q) == q = <<>> \/ Head(q).op \notin Framed \cup {"clear"}

LEMMA AptJoin ==
  ASSUME NEW S, NEW t, NEW p \in Seq(S), NEW q \in Seq(S), Apt(t, p), Apt(t, q), Fresh(q)
  PROVE  p \o q \in Seq(S) /\ Apt(t, p \o q)
  <1> DEFINE r == p \o q
  <1>1. r \in Seq(S) /\ Len(r) = Len(p) + Len(q) /\ Len(p) \in Nat /\ Len(q) \in Nat
    OBVIOUS
  <1>2. \A i \in 1 .. Len(p) : r[i] = p[i]
    OBVIOUS
  <1>3. \A i \in 1 .. Len(q) : r[Len(p) + i] = q[i]
    OBVIOUS
  <1>7. 1 \in 1 .. Len(q) => q[1].op \notin Framed \cup {"clear"}
    BY NonEmptyHead DEF Fresh
  <1> HIDE DEF r
  <1>4. SUFFICES ASSUME NEW i \in 1 .. Len(r)
        PROVE  /\ r[i].op = "write" => i + 1 <= Len(r) /\ r[i + 1].op = "unlock"
               /\ r[i].op = "sending" => /\ i + 1 <= Len(r) /\ r[i + 1].op \in Framed
                                         /\ r[i + 1].slot = r[i].slot
               /\ t \in Slots /\ r[i].op \in {"reply", "flush", "sending"} => r[i].slot = t
               /\ r[i].op # "sending" => r[i].fd = None
               /\ r[i].op \in {"flush", "write"} => r[i].slot \in Slots
               /\ t \in Slots => r[i].op \notin {"flush", "empty"}
               /\ t \notin Slots => r[i].op \notin {"reply", "release"}
               /\ r[i].op = "sending" /\ t \notin Slots => r[i + 1].op = "empty"
               /\ i > 1 /\ r[i].op \in Framed => r[i - 1].op = "sending"
               /\ i > 1 /\ r[i].op = "sending" => r[i - 1].fd = r[i].fd /\ r[i + 1].op = "release"
               /\ i > 1 /\ r[i].op = "clear" => r[i - 1].op = "close"
               /\ r[i].op = "close" => i + 1 <= Len(r) /\ r[i + 1].op = "clear"
    BY <1>1 DEF Apt, r
  <1>5. CASE i <= Len(p)
    <2>1. i \in 1 .. Len(p) /\ r[i] = p[i]
      BY <1>1, <1>2, <1>5
    <2>2. i + 1 <= Len(p) => i + 1 \in 1 .. Len(p) /\ r[i + 1] = p[i + 1] /\ i + 1 <= Len(r)
      BY <1>1, <1>2
    <2>3. i > 1 => r[i - 1] = p[i - 1]
      <3>1. i > 1 => i - 1 \in 1 .. Len(p)
        BY <1>1, <1>5
      <3> QED BY <1>2, <3>1
    <2> QED BY <2>1, <2>2, <2>3 DEF Apt
  <1>6. CASE i > Len(p)
    <2> DEFINE j == i - Len(p)
    <2>1. j \in 1 .. Len(q) /\ r[i] = q[j]
      <3>1. j \in 1 .. Len(q) /\ Len(p) + j = i
        BY <1>1, <1>6
      <3> QED BY <1>3, <3>1
    <2>2. j + 1 <= Len(q) => r[i + 1] = q[j + 1] /\ i + 1 <= Len(r)
      <3> SUFFICES ASSUME j + 1 <= Len(q) PROVE r[i + 1] = q[j + 1] /\ i + 1 <= Len(r)
        OBVIOUS
      <3>1. j + 1 \in 1 .. Len(q) /\ Len(p) + (j + 1) = i + 1 /\ i + 1 <= Len(r)
        BY <1>1, <2>1
      <3> QED BY <1>3, <3>1
    <2>3. j > 1 => r[i - 1] = q[j - 1]
      <3>1. j > 1 => j - 1 \in 1 .. Len(q) /\ Len(p) + (j - 1) = i - 1
        BY <1>1, <2>1
      <3> QED BY <1>3, <3>1
    <2>4. j = 1 => r[i].op \notin Framed \cup {"clear"}
      BY <1>7, <2>1
    <2>5. j = 1 \/ j > 1
      BY <2>1
    <2> HIDE DEF j
    <2>6. /\ i > 1 /\ r[i].op \in Framed => r[i - 1].op = "sending"
          /\ i > 1 /\ r[i].op = "sending" => r[i - 1].fd = r[i].fd /\ r[i + 1].op = "release"
          /\ i > 1 /\ r[i].op = "clear" => r[i - 1].op = "close"
      <3>1. CASE j = 1
        BY <2>4, <3>1 DEF Framed
      <3>2. CASE j > 1
        <4>1. r[i].op = "sending" => j + 1 <= Len(q)
          BY <2>1 DEF Apt
        <4> QED BY <2>1, <2>2, <2>3, <3>2, <4>1 DEF Apt
      <3> QED BY <2>5, <3>1, <3>2
    <2> QED BY <2>1, <2>2, <2>6 DEF Apt
  <1> QED BY <1>1, <1>5, <1>6

\* A step of thread t that leaves it the list q.
LEMMA Moves ==
  ASSUME Orderly, NEW t \in Threads, NEW S, NEW q \in Seq(S), Apt(t, q), FrameType',
         proc' = [proc EXCEPT ![t] = q],
         lock' \in {lock, None, t},
         lock' = t => q # <<>> /\ Head(q).op \in Locked,
         \A s \in Slots : frame'[s] = t => q # <<>> /\ Head(q).op \in Framed /\ Head(q).slot = s,
         Unframed(q) \/ (Head(q).slot \in Slots /\ frame'[Head(q).slot] = t),
         \A s \in Slots : \/ frame'[s] = frame[s]
                          \/ frame[s] \in {None, t} /\ frame'[s] \in {None, t}
  PROVE  Orderly'
  <1>1. PICK R : proc \in [Threads -> Seq(R)]
    BY DEF Orderly, Listed
  <1>2. \A r \in Threads : proc'[r] = IF r = t THEN q ELSE proc[r]
    BY <1>1
  <1>3. Listed'
    <2>1. q \in Seq(R \cup S) /\ \A r \in Threads : proc[r] \in Seq(R \cup S)
      BY <1>1, SeqGrows
    <2>2. proc' \in [Threads -> Seq(R \cup S)]
      BY <1>1, <2>1
    <2> QED BY <2>2 DEF Listed
  <1>4. Lists'
    BY <1>2 DEF Lists, Orderly
  <1>5. HolderWrites'
    BY <1>2, NoneApart DEF HolderWrites, Orderly
  <1>6. HolderSends'
    BY <1>2, NoneApart DEF HolderSends, Orderly
  <1>7. SenderHolds'
    <2> SUFFICES ASSUME NEW r \in Threads, proc'[r] # <<>>, Head(proc'[r]).op \in Framed
                 PROVE  Head(proc'[r]).slot \in Slots /\ frame'[Head(proc'[r]).slot] = r
      BY DEF SenderHolds
    <2>1. CASE r = t
      BY <1>2, <2>1 DEF Unframed
    <2>2. CASE r # t
      <3>1. Head(proc[r]).slot \in Slots /\ frame[Head(proc[r]).slot] = r /\ proc'[r] = proc[r]
        BY <1>2, <2>2 DEF Orderly, SenderHolds
      <3> QED BY <2>2, <3>1, NoneApart
    <2> QED BY <2>1, <2>2
  <1> QED BY <1>3, <1>4, <1>5, <1>6, <1>7 DEF Orderly

\* Thread t leaves the frame locks alone, and neither held one nor asks for the transport lock.
LEMMA MovesFree ==
  ASSUME Orderly, NEW t \in Threads, NEW S, NEW q \in Seq(S), Apt(t, q), Unframed(q),
         UNCHANGED frame,
         proc[t] = <<>> \/ Head(proc[t]).op \notin Framed,
         proc' = [proc EXCEPT ![t] = q],
         \/ UNCHANGED lock /\ (proc[t] = <<>> \/ Head(proc[t]).op \notin Locked)
         \/ lock' = None
         \/ lock' = t /\ q # <<>> /\ Head(q).op \in Locked
  PROVE  Orderly'
  <1>1. \A s \in Slots : frame'[s] # t
    BY DEF Orderly, HolderSends
  <1>2. UNCHANGED lock /\ (proc[t] = <<>> \/ Head(proc[t]).op \notin Locked) => lock' # t
    BY DEF Orderly, HolderWrites
  <1>3. FrameType'
    BY DEF Orderly, FrameType
  <1>4. lock' \in {lock, None, t} /\ (lock' = t => q # <<>> /\ Head(q).op \in Locked)
    BY <1>2, NoneApart
  <1> QED BY <1>1, <1>3, <1>4, Moves

-----------------------------------------------------------------------------
(* The lists the actions make. *)

LEMMA HoldingApt ==
  ASSUME NEW t, NEW r, NEW s \in Slots, NEW T, {Do("write", s), Do("unlock", s)} \subseteq T
  PROVE  /\ Holding(r, s) \in Seq(T) /\ Holding(r, s) # <<>>
         /\ Head(Holding(r, s)).op \in Locked /\ Apt(t, Holding(r, s)) /\ Fresh(Holding(r, s))
  <1>1. Holding(r, s) \in Seq(T)
    BY DEF Holding
  <1>2. /\ Len(Holding(r, s)) = 2 /\ Holding(r, s)[1].op = "write"
        /\ Holding(r, s)[2].op = "unlock" /\ Holding(r, s)[1].slot = s
        /\ Holding(r, s)[1].fd = None /\ Holding(r, s)[2].fd = None
    BY DEF Holding, Do
  <1>3. Holding(r, s) # <<>> /\ Head(Holding(r, s)).op = "write"
    BY DEF Holding, Do
  <1>4. Apt(t, Holding(r, s))
    BY <1>2 DEF Apt, Framed
  <1> QED BY <1>1, <1>3, <1>4 DEF Locked, Framed, Fresh

LEMMA OneApt ==
  ASSUME NEW t, NEW op \in {"call", "attach", "answer", "release"},
         NEW s, op = "release" => t \in Slots
  PROVE  /\ <<Do(op, s)>> \in Seq({Do(op, s)}) /\ Apt(t, <<Do(op, s)>>)
         /\ op # "release" => Fresh(<<Do(op, s)>>)
  <1> DEFINE q == <<Do(op, s)>>
  <1>1. q \in Seq({Do(op, s)}) /\ Len(q) = 1 /\ q[1].op = op /\ q[1].fd = None /\ Head(q).op = op
    BY DEF Do
  <1> HIDE DEF q
  <1>2. Apt(t, q)
    BY <1>1 DEF Apt
  <1>3. op # "release" => Fresh(q)
    BY <1>1 DEF Fresh, Framed
  <1> QED BY <1>1, <1>2, <1>3 DEF q

LEMMA ReplyApt ==
  ASSUME NEW t \in Slots
  PROVE  /\ <<Do("reply", t)>> \in Seq({Do("reply", t)}) /\ Apt(t, <<Do("reply", t)>>)
         /\ Fresh(<<Do("reply", t)>>)
  <1> DEFINE q == <<Do("reply", t)>>
  <1>1. /\ q \in Seq({Do("reply", t)}) /\ Len(q) = 1 /\ q[1].op = "reply" /\ q[1].slot = t
        /\ Head(q).op = "reply" /\ q[1].fd = None
    BY DEF Do
  <1> HIDE DEF q
  <1>2. Apt(t, q)
    BY <1>1 DEF Apt, Framed
  <1>3. Fresh(q)
    BY <1>1 DEF Fresh, Framed
  <1> QED BY <1>1, <1>2, <1>3 DEF q

LEMMA LeaveApt ==
  ASSUME NEW t, NEW s, NEW T, {Do("detach", s), Do("close", s), Do("clear", s)} \subseteq T
  PROVE  Leave(s) \in Seq(T) /\ Apt(t, Leave(s)) /\ Fresh(Leave(s))
  <1> DEFINE q == Leave(s)
  <1>1. Leave(s) \in Seq(T)
    BY DEF Leave
  <1>2. /\ Len(q) = 3 /\ q[1].op = "detach" /\ q[2].op = "close" /\ q[3].op = "clear"
        /\ Head(q).op = "detach" /\ \A i \in 1..3 : q[i].fd = None
    BY DEF Leave, Do
  <1> HIDE DEF q
  <1>3. Apt(t, q)
    BY <1>2 DEF Apt, Framed
  <1>4. Fresh(q)
    BY <1>2 DEF Fresh, Framed
  <1> QED BY <1>1, <1>3, <1>4 DEF q

LEMMA FlushesApt ==
  ASSUME NEW t \in {"ipc", "tick"}
  PROVE  /\ <<Do("call", None)>> \o Flushes
              \in Seq({Do("call", None)} \cup {Do("flush", s) : s \in Slots})
         /\ Apt(t, <<Do("call", None)>> \o Flushes) /\ Fresh(<<Do("call", None)>> \o Flushes)
  <1> DEFINE S == {Do("call", None)} \cup {Do("flush", s) : s \in Slots}
  <1>1. Flushes \in Seq(S)
    BY WritesAssumption DEF Flushes
  <1>2. t \notin Slots
    BY WritesAssumption
  <1>3. Apt(t, Flushes)
    <2>1. \A i \in 1 .. Len(Flushes) :
            Flushes[i].op = "flush" /\ Flushes[i].slot \in Slots /\ Flushes[i].fd = None
      BY WritesAssumption DEF Flushes, Do
    <2>2. Len(Flushes) \in Nat
      BY <1>1
    <2> QED BY <1>2, <2>1, <2>2 DEF Apt, Framed
  <1>6. Fresh(Flushes)
    <2>1. Flushes # <<>> => Head(Flushes).op = "flush"
      BY WritesAssumption DEF Flushes, Do
    <2> QED BY <2>1 DEF Fresh, Framed
  <1>4. <<Do("call", None)>> \in Seq(S)
    OBVIOUS
  <1>5. Apt(t, <<Do("call", None)>>)
    BY OneApt
  <1>7. Fresh(<<Do("call", None)>> \o Flushes)
    <2>1. Head(<<Do("call", None)>> \o Flushes) = Do("call", None)
      BY <1>1, <1>4
    <2> QED BY <2>1 DEF Fresh, Do, Framed
  <1> QED BY <1>1, <1>3, <1>4, <1>5, <1>6, <1>7, AptJoin

-----------------------------------------------------------------------------
(* The steps *)

LEMMA TailMoves ==
  ASSUME Orderly, NEW t \in Threads, proc[t] # <<>>
  PROVE  /\ \E S : Tail(proc[t]) \in Seq(S) /\ proc[t] \in Seq(S) /\ Apt(t, Tail(proc[t]))
         /\ Head(proc[t]).op # "sending" => Unframed(Tail(proc[t]))
         /\ Head(proc[t]).op \notin {"sending", "close"} => Fresh(Tail(proc[t]))
         /\ Head(proc[t]).op = "close" => Tail(proc[t]) # <<>> /\ Head(Tail(proc[t])).op = "clear"
  <1>1. PICK S : proc[t] \in Seq(S)
    BY DEF Orderly, Listed
  <1>2. Apt(t, proc[t])
    BY DEF Orderly, Lists
  <1>3. /\ Head(proc[t]).op # "sending" => Unframed(Tail(proc[t]))
        /\ Head(proc[t]).op \notin {"sending", "close"} => Fresh(Tail(proc[t]))
    <2> SUFFICES ASSUME Tail(proc[t]) # <<>>
                 PROVE  /\ Head(proc[t]).op # "sending" => Head(Tail(proc[t])).op \notin Framed
                        /\ Head(proc[t]).op # "close" => Head(Tail(proc[t])).op # "clear"
      BY DEF Unframed, Fresh
    <2>1. Len(proc[t]) >= 2 /\ 2 \in 1 .. Len(proc[t]) /\ proc[t][1] = Head(proc[t])
      BY <1>1
    <2>2. Head(Tail(proc[t])) = proc[t][2]
      BY <1>1, <2>1, HeadOfTail
    <2> QED BY <1>2, <2>1, <2>2 DEF Apt
  <1>4. ASSUME Head(proc[t]).op = "close"
        PROVE  Tail(proc[t]) # <<>> /\ Head(Tail(proc[t])).op = "clear"
    <2>1. 1 \in 1 .. Len(proc[t]) /\ proc[t][1] = Head(proc[t])
      BY <1>1
    <2>2. Len(proc[t]) >= 2 /\ proc[t][2].op = "clear"
      BY <1>1, <1>2, <1>4, <2>1 DEF Apt
    <2> QED BY <1>1, <2>2, HeadOfTail
  <1> QED BY <1>1, <1>2, <1>3, <1>4, AptTail

\* The next step of the list takes the place of the one that is done.
LEMMA FreeDone ==
  ASSUME Orderly, NEW t \in Threads, proc[t] # <<>>, Done(t), UNCHANGED <<lock, frame>>,
         Head(proc[t]).op \notin Framed \cup Locked
  PROVE  Orderly'
  <1>1. PICK S : Tail(proc[t]) \in Seq(S) /\ Apt(t, Tail(proc[t]))
    BY TailMoves
  <1>2. Unframed(Tail(proc[t]))
    BY TailMoves DEF Framed
  <1> QED BY <1>1, <1>2, MovesFree DEF Done

\* Others take its place, the first of which may hold the transport lock.
LEMMA FreeThen ==
  ASSUME Orderly, NEW t \in Threads, proc[t] # <<>>, NEW S, NEW steps \in Seq(S), steps # <<>>,
         Apt(t, steps), Fresh(steps), Then(t, steps), UNCHANGED frame,
         Head(proc[t]).op \notin Framed \cup Locked \cup {"close"},
         UNCHANGED lock \/ (lock' = t /\ Head(steps).op \in Locked)
  PROVE  Orderly'
  <1>1. PICK R : Tail(proc[t]) \in Seq(R) /\ Apt(t, Tail(proc[t]))
    BY TailMoves
  <1> DEFINE q == steps \o Tail(proc[t])
  <1>2. steps \in Seq(S \cup R) /\ Tail(proc[t]) \in Seq(S \cup R)
    BY <1>1, SeqGrows
  <1>6. Fresh(Tail(proc[t]))
    BY TailMoves DEF Framed
  <1>3. q \in Seq(S \cup R) /\ Apt(t, q)
    BY <1>1, <1>2, <1>6, AptJoin
  <1>4. q # <<>> /\ Head(q) = Head(steps)
    BY <1>2
  <1>7. Unframed(q)
    BY <1>4 DEF Fresh, Unframed
  <1>5. proc' = [proc EXCEPT ![t] = q]
    BY DEF Then
  <1> HIDE DEF q
  <1> QED BY <1>3, <1>4, <1>5, <1>7, MovesFree

LEMMA FreeBegin ==
  ASSUME Orderly, NEW t \in Threads, NEW S, NEW steps \in Seq(S), Apt(t, steps),
         Unframed(steps), Begin(t, steps),
         UNCHANGED <<lock, frame>>
  PROVE  Orderly'
  BY MovesFree DEF Begin

LEMMA UnlockKeeps ==
  ASSUME Orderly, NEW t \in Threads, Unlock(t)
  PROVE  Orderly'
  <1>1. proc[t] # <<>> /\ Head(proc[t]).op = "unlock"
    BY DEF Unlock, Doing
  <1>2. PICK S : Tail(proc[t]) \in Seq(S) /\ Apt(t, Tail(proc[t]))
    BY <1>1, TailMoves
  <1>3. lock' = None /\ UNCHANGED frame /\ proc' = [proc EXCEPT ![t] = Tail(proc[t])]
    BY DEF Unlock, Done
  <1>4. Head(proc[t]).op \notin Framed
    BY <1>1 DEF Framed
  <1>5. Unframed(Tail(proc[t]))
    BY <1>1, TailMoves
  <1> QED BY <1>1, <1>2, <1>3, <1>4, <1>5, MovesFree

LEMMA CoreKeeps ==
  ASSUME Orderly, BoundType, NEW t \in Threads, Core(t)
  PROVE  Orderly'
  <1>1. /\ proc[t] # <<>> /\ UNCHANGED frame
        /\ Head(proc[t]).op \notin Framed \cup Locked \cup {"close"}
    BY DEF Core, Doing, Framed, Locked
  <1>2. CASE Done(t) /\ UNCHANGED lock
    BY <1>1, <1>2, FreeDone
  <1>3. CASE bound # None /\ lock' = t /\ Then(t, Holding(t, bound))
    BY <1>1, <1>3, HoldingApt, FreeThen DEF BoundType
  <1> QED BY <1>2, <1>3 DEF Core

LEMMA IdleKeeps ==
  ASSUME Orderly, UNCHANGED <<lock, frame, proc>>
  PROVE  Orderly'
  BY DEF Orderly, Listed, Lists, HolderWrites, HolderSends, SenderHolds, FrameType

LEMMA WriteKeeps ==
  ASSUME Orderly, NEW t \in Threads, Write(t)
  PROVE  Orderly'
  <1>1. proc[t] # <<>> /\ Head(proc[t]).op = "write"
    BY DEF Write, Doing
  <1>2. PICK S : Tail(proc[t]) \in Seq(S) /\ proc[t] \in Seq(S) /\ Apt(t, Tail(proc[t]))
    BY <1>1, TailMoves
  <1>3. Tail(proc[t]) # <<>> /\ Head(Tail(proc[t])).op \in Locked
    <2>1. Len(proc[t]) >= 2 /\ proc[t][2].op = "unlock"
      <3>1. 1 \in 1 .. Len(proc[t]) /\ proc[t][1].op = "write"
        BY <1>1, <1>2
      <3>2. Apt(t, proc[t])
        BY DEF Orderly, Lists
      <3> QED BY <1>2, <3>1, <3>2 DEF Apt
    <2>2. Tail(proc[t]) # <<>> /\ Head(Tail(proc[t])) = proc[t][2]
      BY <1>2, <2>1, HeadOfTail
    <2> QED BY <2>1, <2>2 DEF Locked
  <1>4. UNCHANGED <<lock, frame>>
    BY DEF Write
  <1>5. \A s \in Slots : frame[s] # t
    BY <1>1 DEF Orderly, HolderSends, Framed
  <1>6. FrameType'
    BY <1>4 DEF Orderly, FrameType
  <1>7. Unframed(Tail(proc[t]))
    BY <1>1, TailMoves
  <1>8. CASE Done(t)
    <2>1. proc' = [proc EXCEPT ![t] = Tail(proc[t])]
      BY <1>8 DEF Done
    <2> QED BY <1>2, <1>3, <1>4, <1>5, <1>6, <1>7, <2>1, Moves
  <1>9. CASE UNCHANGED proc
    BY <1>4, <1>9, IdleKeeps
  <1> QED BY <1>8, <1>9 DEF Write

LEMMA ReplyKeeps ==
  ASSUME Orderly, NEW t \in Threads, Reply(t)
  PROVE  Orderly'
  <1> DEFINE s == At(t)
             a == Send(s, SubSeq(NextUnits(slot[s].conn), 1, 1))
             b == Send(s, SubSeq(NextUnits(slot[s].conn), 2, 2))
             c == Do("release", s)
  <1>1. proc[t] # <<>> /\ Head(proc[t]).op = "reply" /\ UNCHANGED lock
    BY DEF Reply, Doing
  <1>2. CASE Done(t) /\ UNCHANGED frame
    BY <1>1, <1>2, FreeDone DEF Framed, Locked
  <1>3. CASE Then(t, <<a, b, c>>) /\ frame' = [frame EXCEPT ![s] = t]
    <2>1. PICK R : /\ Tail(proc[t]) \in Seq(R) /\ proc[t] \in Seq(R) /\ Apt(t, Tail(proc[t]))
      BY <1>1, TailMoves
    <2>2. t \in Slots /\ s = t
      <3>1. 1 \in 1 .. Len(proc[t]) /\ proc[t][1] = Head(proc[t]) /\ s = Head(proc[t]).slot
        BY <1>1, <2>1 DEF At
      <3>2. Apt(t, proc[t])
        BY DEF Orderly, Lists
      <3> QED BY <1>1, <3>1, <3>2 DEF Apt
    <2>3. /\ a.fd = b.fd /\ a.op = "sending" /\ b.op = "sending" /\ c.op = "release"
          /\ a.slot = s /\ b.slot = s /\ c.slot = s /\ c.fd = None
      BY DEF Send, Do
    <2> HIDE DEF a, b, c, s
    <2>4. <<a, b, c>> \in Seq({a, b, c}) /\ Apt(t, <<a, b, c>>)
      <3> DEFINE q == <<a, b, c>>
      <3>1. q \in Seq({a, b, c}) /\ Len(q) = 3 /\ q[1] = a /\ q[2] = b /\ q[3] = c
        OBVIOUS
      <3> HIDE DEF q
      <3>2. Apt(t, q)
        BY <2>2, <2>3, <3>1 DEF Apt, Framed
      <3> QED BY <3>1, <3>2 DEF q
    <2>13. Fresh(Tail(proc[t]))
      BY <1>1, TailMoves
    <2> DEFINE q == <<a, b, c>> \o Tail(proc[t])
    <2>5. <<a, b, c>> \in Seq({a, b, c} \cup R) /\ Tail(proc[t]) \in Seq({a, b, c} \cup R)
      BY <2>1, <2>4, SeqGrows
    <2>6. q \in Seq({a, b, c} \cup R) /\ Apt(t, q)
      BY <2>1, <2>4, <2>5, <2>13, AptJoin
    <2>7. q # <<>> /\ Head(q) = a
      BY <2>5
    <2>8. proc' = [proc EXCEPT ![t] = q]
      BY <1>3 DEF Then
    <2> HIDE DEF q
    <2>9. \A r \in Slots : frame[r] # t
      BY <1>1 DEF Orderly, HolderSends, Framed
    <2>10. FrameType' /\ \A r \in Slots : frame'[r] = IF r = s THEN t ELSE frame[r]
      BY <1>3 DEF Orderly, FrameType
    <2>11. \A r \in Slots : frame'[r] = t => q # <<>> /\ Head(q).op \in Framed /\ Head(q).slot = r
      BY <2>3, <2>7, <2>9, <2>10 DEF Framed
    <2>12. lock' # t
      BY <1>1 DEF Orderly, HolderWrites, Locked
    <2>14. Head(q).slot \in Slots /\ frame'[Head(q).slot] = t
      BY <2>2, <2>3, <2>7, <2>10
    <2>15. \A r \in Slots : \/ frame'[r] = frame[r]
                            \/ frame[r] \in {None, t} /\ frame'[r] \in {None, t}
      <3>1. frame[s] = None
        BY <1>1 DEF Reply, FrameFree, Doing, s
      <3> QED BY <2>10, <3>1
    <2> QED BY <1>1, <2>6, <2>8, <2>10, <2>11, <2>12, <2>14, <2>15, Moves
  <1> QED BY <1>2, <1>3 DEF Reply

LEMMA FlushKeeps ==
  ASSUME Orderly, NEW t \in Threads, Flush(t)
  PROVE  Orderly'
  <1> DEFINE s == At(t)
             a == Send(s, tx[s])
             b == Do("empty", s)
  <1>1. proc[t] # <<>> /\ Head(proc[t]).op = "flush" /\ UNCHANGED lock
    BY DEF Flush, Doing
  <1>2. CASE Done(t) /\ UNCHANGED frame
    BY <1>1, <1>2, FreeDone DEF Framed, Locked
  <1>3. CASE FrameFree(s) /\ Then(t, <<a, b>>) /\ frame' = [frame EXCEPT ![s] = t]
    <2>1. PICK R : Tail(proc[t]) \in Seq(R) /\ proc[t] \in Seq(R) /\ Apt(t, Tail(proc[t]))
      BY <1>1, TailMoves
    <2>2. t \notin Slots /\ s \in Slots
      <3>1. 1 \in 1 .. Len(proc[t]) /\ proc[t][1] = Head(proc[t]) /\ s = Head(proc[t]).slot
        BY <1>1, <2>1 DEF At
      <3>2. Apt(t, proc[t])
        BY DEF Orderly, Lists
      <3> QED BY <1>1, <3>1, <3>2 DEF Apt
    <2>3. a.op = "sending" /\ b.op = "empty" /\ a.slot = s /\ b.slot = s /\ b.fd = None
      BY DEF Send, Do
    <2> HIDE DEF a, b, s
    <2>4. <<a, b>> \in Seq({a, b}) /\ Apt(t, <<a, b>>)
      <3> DEFINE q == <<a, b>>
      <3>1. q \in Seq({a, b}) /\ Len(q) = 2 /\ q[1] = a /\ q[2] = b
        OBVIOUS
      <3> HIDE DEF q
      <3>2. Apt(t, q)
        BY <2>2, <2>3, <3>1 DEF Apt, Framed
      <3> QED BY <3>1, <3>2 DEF q
    <2>13. Fresh(Tail(proc[t]))
      BY <1>1, TailMoves
    <2> DEFINE q == <<a, b>> \o Tail(proc[t])
    <2>5. <<a, b>> \in Seq({a, b} \cup R) /\ Tail(proc[t]) \in Seq({a, b} \cup R)
      BY <2>1, <2>4, SeqGrows
    <2>6. q \in Seq({a, b} \cup R) /\ Apt(t, q)
      BY <2>1, <2>4, <2>5, <2>13, AptJoin
    <2>7. q # <<>> /\ Head(q) = a
      BY <2>5
    <2>8. proc' = [proc EXCEPT ![t] = q]
      BY <1>3 DEF Then
    <2> HIDE DEF q
    <2>9. \A r \in Slots : frame[r] # t
      BY <1>1 DEF Orderly, HolderSends, Framed
    <2>10. FrameType' /\ \A r \in Slots : frame'[r] = IF r = s THEN t ELSE frame[r]
      BY <1>3 DEF Orderly, FrameType
    <2>11. \A r \in Slots : frame'[r] = t => q # <<>> /\ Head(q).op \in Framed /\ Head(q).slot = r
      BY <2>3, <2>7, <2>9, <2>10 DEF Framed
    <2>12. lock' # t
      BY <1>1 DEF Orderly, HolderWrites, Locked
    <2>14. Head(q).slot \in Slots /\ frame'[Head(q).slot] = t
      BY <2>2, <2>3, <2>7, <2>10
    <2>15. \A r \in Slots : \/ frame'[r] = frame[r]
                            \/ frame[r] \in {None, t} /\ frame'[r] \in {None, t}
      <3>1. frame[s] = None
        BY <1>3 DEF Flush, FrameFree, Doing, s
      <3> QED BY <2>10, <3>1
    <2> QED BY <1>1, <2>6, <2>8, <2>10, <2>11, <2>12, <2>14, <2>15, Moves
  <1> QED BY <1>2, <1>3 DEF Flush

\* After a send comes another of the same frame, or the step that releases its lock.
LEMMA AfterSending ==
  ASSUME Orderly, NEW t \in Threads, Doing(t, "sending")
  PROVE  /\ Tail(proc[t]) # <<>> /\ Head(Tail(proc[t])).op \in Framed
         /\ Head(Tail(proc[t])).slot = At(t)
         /\ t \in Slots => At(t) = t
         /\ \A s \in Slots : frame[s] = t => s = At(t)
         /\ lock # t /\ At(t) \in Slots /\ frame[At(t)] = t
         /\ Head(Tail(proc[t])).op = "sending" => Head(Tail(proc[t])).fd = Head(proc[t]).fd
         /\ Head(Tail(proc[t])).op # "sending" => Head(Tail(proc[t])).fd = None
         /\ t \notin Slots => Head(Tail(proc[t])).op = "empty"
  <1>1. proc[t] # <<>> /\ Head(proc[t]).op = "sending" /\ At(t) = Head(proc[t]).slot
    BY DEF Doing, At
  <1>2. PICK R : proc[t] \in Seq(R)
    BY <1>1, TailMoves
  <1>3. Apt(t, proc[t]) /\ 1 \in 1 .. Len(proc[t]) /\ proc[t][1] = Head(proc[t])
    BY <1>1, <1>2 DEF Orderly, Lists
  <1>4. Len(proc[t]) >= 2 /\ proc[t][2].op \in Framed /\ proc[t][2].slot = At(t)
        /\ (t \in Slots => At(t) = t) /\ (t \notin Slots => proc[t][2].op = "empty")
    BY <1>1, <1>2, <1>3 DEF Apt
  <1>5. Tail(proc[t]) # <<>> /\ Head(Tail(proc[t])) = proc[t][2]
    BY <1>2, <1>4, HeadOfTail
  <1>6. \A s \in Slots : frame[s] = t => s = At(t)
    BY <1>1 DEF Orderly, HolderSends
  <1>7. lock # t
    BY <1>1 DEF Orderly, HolderWrites, Locked
  <1>8. At(t) \in Slots /\ frame[At(t)] = t
    BY <1>1 DEF Orderly, SenderHolds, Framed
  <1>9. /\ proc[t][2].op = "sending" => proc[t][2].fd = Head(proc[t]).fd
        /\ proc[t][2].op # "sending" => proc[t][2].fd = None
    <2>1. 2 \in 1 .. Len(proc[t]) /\ proc[t][2 - 1] = Head(proc[t])
      BY <1>2, <1>3, <1>4
    <2> QED BY <1>3, <2>1 DEF Apt, Framed
  <1> QED BY <1>4, <1>5, <1>6, <1>7, <1>8, <1>9

LEMMA SendsAllKeeps ==
  ASSUME Orderly, NEW t \in Threads, SendsAll(t)
  PROVE  Orderly'
  <1>1. Doing(t, "sending") /\ proc[t] # <<>> /\ UNCHANGED <<lock, frame>>
        /\ proc' = [proc EXCEPT ![t] = Tail(proc[t])]
    BY DEF SendsAll, Doing, Done
  <1>2. PICK S : Tail(proc[t]) \in Seq(S) /\ Apt(t, Tail(proc[t]))
    BY <1>1, TailMoves
  <1>3. FrameType'
    BY <1>1 DEF Orderly, FrameType
  <1> DEFINE q == Tail(proc[t])
  <1>4. q # <<>> /\ lock' # t /\ \A s \in Slots : frame'[s] = t =>
          Head(q).op \in Framed /\ Head(q).slot = s
    BY <1>1, AfterSending
  <1>5. Head(q).slot \in Slots /\ frame'[Head(q).slot] = t
    BY <1>1, AfterSending
  <1> HIDE DEF q
  <1> QED BY <1>1, <1>2, <1>3, <1>4, <1>5, Moves DEF q

LEMMA SendFailsKeeps ==
  ASSUME Orderly, NEW t \in Threads, SendFails(t)
  PROVE  Orderly'
  <1>1. Doing(t, "sending") /\ proc[t] # <<>> /\ UNCHANGED <<lock, frame>>
        /\ proc' = [proc EXCEPT ![t] = GivesUp(t)]
    BY DEF SendFails, Doing
  <1>2. FrameType'
    BY <1>1 DEF Orderly, FrameType
  <1>3. CASE t \in Slots
    <2> DEFINE S == {Do("release", t)} \cup {Do("detach", t), Do("close", t), Do("clear", t)}
    <2>1. <<Do("release", t)>> \in Seq(S) /\ Apt(t, <<Do("release", t)>>)
      BY <1>3, OneApt
    <2>2. Leave(t) \in Seq(S) /\ Apt(t, Leave(t)) /\ Fresh(Leave(t))
      BY LeaveApt
    <2> HIDE DEF S
    <2>3. GivesUp(t) = <<Do("release", t)>> \o Leave(t)
      BY <1>3 DEF GivesUp
    <2>4. GivesUp(t) \in Seq(S) /\ Apt(t, GivesUp(t))
      <3>1. /\ <<Do("release", t)>> \o Leave(t) \in Seq(S)
            /\ Apt(t, <<Do("release", t)>> \o Leave(t))
        BY <2>1, <2>2, AptJoin
      <3> QED BY <2>3, <3>1
    <2>5. GivesUp(t) # <<>> /\ Head(GivesUp(t)) = Do("release", t)
      BY <2>2, <2>3 DEF Do, Leave
    <2>6. Head(GivesUp(t)).op \in Framed /\ Head(GivesUp(t)).slot = t
      BY <2>5 DEF Do, Framed
    <2> DEFINE q == GivesUp(t)
    <2>7. q # <<>> /\ lock' # t /\ \A s \in Slots : frame'[s] = t =>
            Head(q).op \in Framed /\ Head(q).slot = s
      BY <1>1, <1>3, <2>5, <2>6, AfterSending
    <2>8. Head(q).slot \in Slots /\ frame'[Head(q).slot] = t
      BY <1>1, <1>3, <2>6, AfterSending
    <2> HIDE DEF q
    <2> QED BY <1>1, <1>2, <2>4, <2>7, <2>8, Moves DEF q
  <1>4. CASE t \notin Slots
    <2>1. PICK S : Tail(proc[t]) \in Seq(S) /\ Apt(t, Tail(proc[t]))
      BY <1>1, TailMoves
    <2>2. GivesUp(t) = Tail(proc[t])
      BY <1>4 DEF GivesUp
    <2> DEFINE q == Tail(proc[t])
    <2>3. q # <<>> /\ lock' # t /\ \A s \in Slots : frame'[s] = t =>
            Head(q).op \in Framed /\ Head(q).slot = s
      BY <1>1, AfterSending
    <2>4. Head(q).slot \in Slots /\ frame'[Head(q).slot] = t
      BY <1>1, AfterSending
    <2> HIDE DEF q
    <2> QED BY <1>1, <1>2, <2>1, <2>2, <2>3, <2>4, Moves DEF q
  <1> QED BY <1>3, <1>4

LEMMA ReleaseKeeps ==
  ASSUME Orderly, NEW t \in Threads, Release(t)
  PROVE  Orderly'
  <1>1. proc[t] # <<>> /\ Head(proc[t]).op \in {"release", "empty"} /\ UNCHANGED lock
        /\ proc' = [proc EXCEPT ![t] = Tail(proc[t])] /\ frame' = [frame EXCEPT ![At(t)] = None]
    BY DEF Release, Doing, Done
  <1>2. PICK S : Tail(proc[t]) \in Seq(S) /\ Apt(t, Tail(proc[t]))
    BY <1>1, TailMoves
  <1>3. FrameType' /\ \A s \in Slots : frame'[s] = IF s = At(t) THEN None ELSE frame[s]
    BY <1>1 DEF Orderly, FrameType
  <1>4. \A s \in Slots : frame[s] = t => s = At(t)
    BY DEF Orderly, HolderSends, At
  <1>5. \A s \in Slots : frame'[s] # t
    BY <1>3, <1>4, NoneApart
  <1>6. lock' # t
    BY <1>1 DEF Orderly, HolderWrites, Locked
  <1>7. Unframed(Tail(proc[t]))
    BY <1>1, TailMoves
  <1>8. \A s \in Slots : frame'[s] = frame[s] \/ (frame[s] \in {None, t} /\ frame'[s] \in {None, t})
    <2>1. frame[At(t)] = t
      BY <1>1 DEF Orderly, SenderHolds, Framed, At
    <2> QED BY <1>3, <2>1
  <1> QED BY <1>1, <1>2, <1>3, <1>5, <1>6, <1>7, <1>8, Moves

LEMMA CallersKeep ==
  ASSUME Orderly, Ticks \/ Calls
  PROVE  Orderly'
  <1>1. PICK t \in {"ipc", "tick"} : Begin(t, <<Do("call", None)>> \o Flushes)
    BY DEF Ticks, Calls, TickPass
  <1>2. UNCHANGED <<lock, frame>>
    BY DEF Ticks, Calls
  <1>3. t \in Threads
    BY DEF Threads
  <1> QED BY <1>1, <1>2, <1>3, FlushesApt, FreeBegin DEF Fresh, Unframed

LEMMA AcceptsKeeps ==
  ASSUME Orderly, NEW s \in Slots, Accepts(s) \/ Serves(s)
  PROVE  Orderly'
  <1>1. UNCHANGED <<lock, frame>> /\ s \in Threads
    BY NoneApart DEF Accepts, Serves
  <1>2. \/ Begin(s, <<Do("attach", s)>>) \/ Begin(s, <<Do("answer", s)>>)
        \/ Begin(s, <<Do("reply", s)>>) \/ Begin(s, Leave(s))
    BY DEF Accepts, Serves
  <1>3. CASE \E op \in {"attach", "answer"} : Begin(s, <<Do(op, s)>>)
    BY <1>1, <1>3, OneApt, FreeBegin DEF Fresh, Unframed
  <1>4. CASE Begin(s, <<Do("reply", s)>>)
    BY <1>1, <1>4, ReplyApt, FreeBegin DEF Fresh, Unframed
  <1>5. CASE Begin(s, Leave(s))
    BY <1>1, <1>5, LeaveApt, FreeBegin DEF Fresh, Unframed
  <1> QED BY <1>2, <1>3, <1>4, <1>5

LEMMA ConnectionKeeps ==
  ASSUME Orderly, NEW s \in Slots, Connection(s)
  PROVE  Orderly'
  <1>1. s \in Threads
    BY NoneApart
  <1>2. CASE Attach(s)
    <2> DEFINE rest == IF bound = None THEN <<>> ELSE Leave(s)
               S == {Do("write", s), Do("unlock", s)} \cup
                    {Do("detach", s), Do("close", s), Do("clear", s)}
    <2>1. Holding(s, s) \in Seq(S) /\ Apt(s, Holding(s, s)) /\ Holding(s, s) # <<>>
          /\ Head(Holding(s, s)).op \in Locked /\ Fresh(Holding(s, s))
      BY HoldingApt
    <2>2. rest \in Seq(S) /\ Apt(s, rest) /\ Fresh(rest)
      <3>1. Leave(s) \in Seq(S) /\ Apt(s, Leave(s)) /\ Fresh(Leave(s))
        BY LeaveApt
      <3>2. <<>> \in Seq(S) /\ Apt(s, <<>>) /\ Fresh(<<>>)
        BY DEF Apt, Fresh
      <3> QED BY <3>1, <3>2
    <2> HIDE DEF rest, S
    <2>3. Holding(s, s) \o rest \in Seq(S) /\ Apt(s, Holding(s, s) \o rest)
      BY <2>1, <2>2, AptJoin
    <2>4. Holding(s, s) \o rest # <<>> /\ Head(Holding(s, s) \o rest).op \in Locked
      BY <2>1, <2>2
    <2>6. Fresh(Holding(s, s) \o rest)
      BY <2>4 DEF Fresh, Locked, Framed
    <2>5. /\ proc[s] # <<>> /\ Head(proc[s]).op \notin Framed \cup Locked \cup {"close"}
          /\ Then(s, Holding(s, s) \o rest) /\ lock' = s /\ UNCHANGED frame
      BY <1>2 DEF Attach, Doing, Framed, Locked, rest
    <2> QED BY <1>1, <2>3, <2>4, <2>5, <2>6, FreeThen
  <1>3. CASE Answer(s)
    <2>1. /\ proc[s] # <<>> /\ Head(proc[s]).op \notin Framed \cup Locked \cup {"close"}
          /\ Then(s, Holding(s, s)) /\ lock' = s /\ UNCHANGED frame
      BY <1>3 DEF Answer, Doing, Framed, Locked
    <2> QED BY <1>1, <2>1, HoldingApt, FreeThen
  <1>4. CASE Ends(s)
    BY <1>1, <1>4, LeaveApt, FreeBegin DEF Ends, Fresh, Unframed
  <1>5. CASE Detach(s) \/ Closes(s) \/ Clears(s)
    <2>1. /\ proc[s] # <<>> /\ Head(proc[s]).op \notin Framed \cup Locked
          /\ Done(s) /\ UNCHANGED <<lock, frame>>
      BY <1>5 DEF Detach, Closes, Clears, Doing, Framed, Locked
    <2> QED BY <1>1, <2>1, FreeDone
  <1> QED BY <1>2, <1>3, <1>4, <1>5 DEF Connection

LEMMA BoundInit == Init => BoundType
  BY DEF Init, BoundType

\* What the steps of a write leave alone.
LEMMA WritingLeaves ==
  ASSUME NEW t \in Threads, Unlock(t) \/ Core(t) \/ Writing(t)
  PROVE  /\ UNCHANGED <<slot, bound, owner, inherited>> /\ proc[t] # <<>>
         /\ Head(proc[t]).op \in {"unlock", "call", "write", "reply", "flush", "sending",
                                  "release", "empty"}
         /\ UNCHANGED down \/ SendFails(t)
  <1>1. ASSUME SendFails(t)
        PROVE  UNCHANGED <<slot, bound, owner, inherited>> /\ Doing(t, "sending")
    <2>1. UNCHANGED <<lock, frame, slot, tx, bound, owner, history>> /\ Doing(t, "sending")
      BY <1>1, Zenon DEF SendFails
    <2> QED BY <2>1 DEF history
  <1>2. ASSUME SendsAll(t)
        PROVE  UNCHANGED <<slot, bound, owner, inherited, down>> /\ Doing(t, "sending")
    <2>1. UNCHANGED <<lock, frame, slot, tx, bound, owner, down, history>> /\ Doing(t, "sending")
      BY <1>2, Zenon DEF SendsAll
    <2> QED BY <2>1 DEF history
  <1>3. CASE Parks(t) \/ Sending(t)
    BY <1>1, <1>2, <1>3 DEF Parks, Sending, Doing, history
  <1>4. CASE Write(t) \/ Reply(t) \/ Flush(t)
    BY <1>4 DEF Write, Reply, Flush, Doing, kernel, history
  <1>5. CASE Unlock(t) \/ Core(t) \/ Release(t)
    BY <1>5 DEF Unlock, Core, Release, Doing, kernel, history
  <1> QED BY <1>3, <1>4, <1>5 DEF Writing

LEMMA BoundStep == BoundType /\ [Next]_vars => BoundType'
  <1> SUFFICES ASSUME BoundType, [Next]_vars PROVE BoundType'
    OBVIOUS
  <1>1. CASE UNCHANGED bound
    BY <1>1 DEF BoundType
  <1>2. ASSUME NEW t \in Threads, Unlock(t) \/ Core(t) \/ Writing(t) PROVE UNCHANGED bound
    BY <1>2, WritingLeaves
  <1>3. ASSUME NEW s \in Slots, Accepts(s) \/ Serves(s) \/ Connection(s) PROVE BoundType'
    BY <1>1, <1>3 DEF Accepts, Serves, Connection, Attach, Answer, Ends, Detach, Closes, Clears,
                      BoundType
  <1>4. CASE Ticks \/ Calls \/ AppLeaves \/ Watchdog \/ UNCHANGED vars
    BY <1>1, <1>4 DEF Ticks, Calls, AppLeaves, Watchdog, vars
  <1> QED BY <1>1, <1>2, <1>3, <1>4 DEF Next

LEMMA OrderlyStep == Orderly /\ BoundType /\ [Next]_vars => Orderly'
  <1> SUFFICES ASSUME Orderly, BoundType, [Next]_vars PROVE Orderly'
    OBVIOUS
  <1>1. CASE \E t \in Threads : Unlock(t) \/ Core(t) \/ Writing(t)
    <2>1. \A t \in Threads : Parks(t) => Orderly'
      BY IdleKeeps DEF Parks
    <2> QED BY <1>1, <2>1, UnlockKeeps, CoreKeeps, WriteKeeps, ReplyKeeps, FlushKeeps,
               SendsAllKeeps, SendFailsKeeps, ReleaseKeeps DEF Writing, Sending
  <1>2. CASE Ticks \/ Calls
    BY <1>2, CallersKeep
  <1>3. CASE AppLeaves \/ Watchdog \/ UNCHANGED vars
    BY <1>3, IdleKeeps DEF AppLeaves, Watchdog, vars
  <1>4. CASE \E s \in Slots : Accepts(s) \/ Serves(s) \/ Connection(s)
    BY <1>4, AcceptsKeeps, ConnectionKeeps
  <1> QED BY <1>1, <1>2, <1>3, <1>4 DEF Next

-----------------------------------------------------------------------------
(* Nobody is in a system call while it holds the transport lock, and nobody waits for the
   transport lock while it holds a frame lock, for any number of slots and connections
   (docs/dglab-socket.md:102-104, net_socket.c:669-717): the two kinds of lock cannot
   close a circle of threads that wait for each other. *)
THEOREM LocksAreOrdered == Spec => []LockOrder
  <1>1. Init => Orderly
    BY OrderlyInit
  <1>2. Orderly /\ BoundType /\ [Next]_vars => Orderly'
    BY OrderlyStep
  <1>3. Orderly => LockOrder
    BY OrderlyImplies
  <1> QED BY <1>1, <1>2, <1>3, BoundInit, BoundStep, PTL DEF Spec

-----------------------------------------------------------------------------
(* Who has which connection and which number: the connections ever accepted are 1 to some k;
   each slot has one of its own, and its number is that connection's until it is closed.  Then
   it is nobody's, or a connection has inherited it. *)

Known == {c \in Conns : \E fd \in Fds : owner[fd] = c} \cup down
Up(s) == slot[s].conn \notin down \cup inherited \cup {0}

BooksType ==
  /\ slot \in [Slots -> [fd : Fds \cup {None}, conn : 0..MaxConns]]
  /\ owner \in [Fds -> 0..MaxConns] /\ down \subseteq Conns
Served == \A s \in Slots : proc[s] # <<>> => slot[s].conn # 0
Ending ==
  \A s \in Slots : Doing(s, "clear") =>
    slot[s].conn \in down /\ \A f \in Fds : owner[f] # slot[s].conn
Counted == \E k \in 0..MaxConns : Known = 1..k
Opened == \A s \in Slots : slot[s].conn # 0 => slot[s].conn \in Known
OwnConn == \A s, r \in Slots : slot[s].conn = slot[r].conn /\ slot[s].conn # 0 => s = r
OwnFd ==
  \A s \in Slots : slot[s].fd # None =>
    slot[s].conn # 0 /\ owner[slot[s].fd] \in {0, slot[s].conn} \cup inherited
OpenFd ==
  \A s \in Slots : slot[s].fd # None /\ ~Doing(s, "clear") => owner[slot[s].fd] = slot[s].conn
UpFd == \A s \in Slots : slot[s].conn \notin down \cup {0} => slot[s].fd # None
Owned ==
  \A f \in Fds : owner[f] # 0 => \E s \in Slots : slot[s].conn = owner[f] /\ slot[s].fd = f

\* A send on its way goes to a number that only an inherited connection may have got since.
SendsTo(s, f) ==
  /\ f \in Fds \cup {None} /\ (f # None => owner[f] \in {0, slot[s].conn} \cup inherited)
  /\ Up(s) => f = slot[s].fd
Sends == \A t \in Threads : Doing(t, "sending") => SendsTo(At(t), Head(proc[t]).fd)

Books ==
  /\ BooksType /\ Served /\ Ending /\ Counted /\ Opened /\ OwnConn
  /\ OwnFd /\ OpenFd /\ UpFd /\ Owned

\* The mark names a number the slots have.
StageType == stage \in Fds \cup {None}

LEMMA BooksInit == Init => Books
  <1> SUFFICES ASSUME Init PROVE Books
    OBVIOUS
  <1>1. Known = {} /\ MaxConns \in Nat
    BY WritesAssumption DEF Init, Known, Conns
  <1>2. Counted
    <2>1. 0 \in 0..MaxConns /\ Known = 1..0
      BY <1>1
    <2> QED BY <2>1 DEF Counted
  <1>3. BooksType
    BY <1>1 DEF Init, BooksType
  <1>4. Served /\ Ending
    BY NoneApart DEF Init, Served, Ending, Doing
  <1> QED BY <1>2, <1>3, <1>4 DEF Init, Books, Opened, OwnConn, OwnFd, OpenFd, UpFd, Owned

LEMMA HeadOfJoin ==
  ASSUME NEW S, NEW p \in Seq(S), NEW q \in Seq(S), p # <<>>
  PROVE  p \o q \in Seq(S) /\ p \o q # <<>> /\ Head(p \o q) = Head(p)
  OBVIOUS

\* Connections go down, by a shutdown of a number that has an owner.
Downs ==
  /\ inherited' = inherited /\ down \subseteq down'
  /\ \A c \in down' \ down : c # 0 /\ \E fd \in Fds : owner[fd] = c

\* A step of thread t that leaves it the list q, and slots and numbers as they are.
LEMMA BooksQuiet ==
  ASSUME Orderly, Books, NEW t \in Threads, NEW q, proc' = [proc EXCEPT ![t] = q],
         UNCHANGED <<slot, owner>>, Downs,
         ~(q # <<>> /\ Head(q).op = "clear"), ~Doing(t, "clear"),
         t \in Slots => proc[t] # <<>> \/ slot[t].fd # None
  PROVE  Books'
  <1>1. proc' \in [Threads -> {proc'[r] : r \in Threads}]
        /\ \A r \in Threads : proc'[r] = IF r = t THEN q ELSE proc[r]
    <2>1. PICK S : proc \in [Threads -> Seq(S)]
      BY DEF Orderly, Listed
    <2> QED BY <2>1
  <1>2. Known' = Known
    <2>1. \A c \in down' \ down : c \in {d \in Conns : \E fd \in Fds : owner[fd] = d}
      BY DEF Downs, Books, BooksType, Conns
    <2> QED BY <2>1 DEF Known, Downs
  <1>3. BooksType'
    <2>1. \A c \in down' \ down : c \in Conns
      BY DEF Downs, Books, BooksType, Conns
    <2> QED BY <2>1 DEF Books, BooksType
  <1>4. Served'
    BY <1>1, NoneApart DEF Books, Served, OwnFd
  <1>5. Ending'
    BY <1>1, NoneApart DEF Books, Ending, Doing, Downs
  <1>6. Counted' /\ Opened' /\ OwnConn' /\ OwnFd'
    BY <1>2 DEF Books, Counted, Opened, OwnConn, OwnFd, Downs
  <1>7. UpFd' /\ Owned'
    BY DEF Books, UpFd, Owned, Downs
  <1>8. OpenFd'
    BY <1>1, NoneApart DEF Books, OpenFd, Doing
  <1> QED BY <1>3, <1>4, <1>5, <1>6, <1>7, <1>8 DEF Books

\* What a clean connection that is up has.
LEMMA UpOwns ==
  ASSUME Books, NEW s \in Slots, Up(s)
  PROVE  slot[s].fd # None /\ slot[s].fd \in Fds /\ owner[slot[s].fd] = slot[s].conn
  <1>1. slot[s].conn \notin down \cup {0}
    BY DEF Up
  <1>2. slot[s].fd # None /\ ~Doing(s, "clear")
    BY <1>1 DEF Books, UpFd, Ending
  <1> QED BY <1>2 DEF Books, BooksType, OpenFd

LEMMA DownsSame == ASSUME UNCHANGED <<down, inherited>> PROVE Downs
  BY DEF Downs

\* The next list of a thread that has done a step is not the end of a connection.
LEMMA BooksDone ==
  ASSUME Orderly, Books, NEW t \in Threads, Done(t), UNCHANGED <<slot, owner>>, Downs,
         proc[t] # <<>>, Head(proc[t]).op \notin {"close", "clear"}
  PROVE  Books'
  <1>1. ~(Tail(proc[t]) # <<>> /\ Head(Tail(proc[t])).op = "clear")
    <2>1. CASE Head(proc[t]).op = "sending"
      BY <2>1, AfterSending DEF Doing, Framed
    <2>2. CASE Head(proc[t]).op # "sending"
      BY <2>2, TailMoves DEF Fresh
    <2> QED BY <2>1, <2>2
  <1> QED BY <1>1, BooksQuiet DEF Done, Doing

\* The list of a thread that goes on with new steps begins with the first of them.
LEMMA BooksThen ==
  ASSUME Orderly, Books, NEW t \in Threads, NEW S, NEW steps \in Seq(S), steps # <<>>,
         Then(t, steps), UNCHANGED <<slot, owner>>, Downs, proc[t] # <<>>,
         Head(proc[t]).op # "clear", Head(steps).op # "clear"
  PROVE  Books'
  <1>1. PICK R : Tail(proc[t]) \in Seq(R)
    BY TailMoves
  <1>2. steps \in Seq(S \cup R) /\ Tail(proc[t]) \in Seq(S \cup R)
    BY <1>1, SeqGrows
  <1>3. Head(steps \o Tail(proc[t])) = Head(steps)
    BY <1>2
  <1> QED BY <1>3, BooksQuiet DEF Then, Doing

LEMMA PeerOwns ==
  ASSUME Books, NEW fd \in Fds \cup {None}, Peer(fd) # 0
  PROVE  fd \in Fds /\ owner[fd] = Peer(fd) /\ Peer(fd) \in Conns
  BY DEF Peer, Books, BooksType, Conns

LEMMA IdleBooks ==
  ASSUME Orderly, Books, UNCHANGED <<slot, owner, proc>>, Downs
  PROVE  Books'
  <1>1. "ipc" \in Threads /\ "ipc" \notin Slots
    BY WritesAssumption DEF Threads
  <1>2. proc' = [proc EXCEPT !["ipc"] = proc["ipc"]]
    BY DEF Orderly, Listed
  <1>3. Known' = Known
    <2>1. \A c \in down' \ down : c \in {d \in Conns : \E fd \in Fds : owner[fd] = d}
      BY DEF Downs, Books, BooksType, Conns
    <2> QED BY <2>1 DEF Known, Downs
  <1>4. BooksType'
    <2>1. \A c \in down' \ down : c \in Conns
      BY DEF Downs, Books, BooksType, Conns
    <2> QED BY <2>1 DEF Books, BooksType
  <1>5. Served' /\ Counted' /\ Opened' /\ OwnConn' /\ OwnFd' /\ Owned'
    BY <1>3 DEF Books, Served, Counted, Opened, OwnConn, OwnFd, Owned, Downs
  <1>6. Ending' /\ UpFd' /\ OpenFd'
    BY DEF Books, Ending, Doing, UpFd, OpenFd, Downs
  <1> QED BY <1>4, <1>5, <1>6 DEF Books

LEMMA WritingBooks ==
  ASSUME Orderly, BoundType, Books, Sends, NEW t \in Threads, Unlock(t) \/ Core(t) \/ Writing(t)
  PROVE  Books'
  <1>1. /\ UNCHANGED <<slot, owner, inherited>> /\ proc[t] # <<>>
        /\ Head(proc[t]).op \notin {"close", "clear"}
    BY WritingLeaves
  <1>2. Downs
    <2>1. CASE UNCHANGED down
      BY <1>1, <2>1, DownsSame
    <2>2. CASE SendFails(t)
      <3>1. down' = ShutDown(Peer(Head(proc[t]).fd))
        BY <2>2 DEF SendFails
      <3>2. Peer(Head(proc[t]).fd) # 0 => \E fd \in Fds : owner[fd] = Peer(Head(proc[t]).fd)
        <4>1. Head(proc[t]).fd \in Fds \cup {None}
          BY <2>2 DEF SendFails, Sends, SendsTo
        <4> QED BY <4>1, PeerOwns
      <3> QED BY <1>1, <3>1, <3>2 DEF Downs, ShutDown
    <2> QED BY <2>1, <2>2, WritingLeaves
  <1>3. CASE Done(t)
    BY <1>1, <1>2, <1>3, BooksDone
  <1>4. CASE Core(t) /\ ~Done(t)
    <2>1. Then(t, Holding(t, bound)) /\ bound \in Slots
      BY <1>4 DEF Core, BoundType
    <2>2. /\ Holding(t, bound) \in Seq({Do("write", bound), Do("unlock", bound)})
          /\ Holding(t, bound) # <<>> /\ Head(Holding(t, bound)).op \in Locked
      BY <2>1, HoldingApt
    <2> QED BY <1>1, <1>2, <2>1, <2>2, BooksThen DEF Locked
  <1>5. CASE Reply(t) /\ ~Done(t)
    <2> DEFINE s == At(t)
               c == slot[s].conn
               q == <<Send(s, SubSeq(NextUnits(c), 1, 1)), Send(s, SubSeq(NextUnits(c), 2, 2)),
                      Do("release", s)>>
    <2>1. Then(t, q)
      BY <1>5 DEF Reply
    <2>2. q \in Seq({q[1], q[2], q[3]}) /\ q # <<>> /\ Head(q).op # "clear"
      BY DEF Send
    <2> HIDE DEF q
    <2> QED BY <1>1, <1>2, <2>1, <2>2, BooksThen
  <1>6. CASE Flush(t) /\ ~Done(t)
    <2> DEFINE q == <<Send(At(t), tx[At(t)]), Do("empty", At(t))>>
    <2>1. Then(t, q)
      BY <1>6 DEF Flush
    <2>2. q \in Seq({q[1], q[2]}) /\ q # <<>> /\ Head(q).op # "clear"
      BY DEF Send
    <2> HIDE DEF q
    <2> QED BY <1>1, <1>2, <2>1, <2>2, BooksThen
  <1>7. CASE SendFails(t)
    <2>1. proc' = [proc EXCEPT ![t] = GivesUp(t)] /\ Doing(t, "sending")
      BY <1>7 DEF SendFails
    <2>2. ~(GivesUp(t) # <<>> /\ Head(GivesUp(t)).op = "clear")
      <3>1. CASE t \in Slots
        <4>1. Head(GivesUp(t)) = Do("release", t)
          BY <3>1, LeaveApt DEF GivesUp, Leave
        <4> QED BY <4>1 DEF Do
      <3>2. CASE t \notin Slots
        BY <2>1, <3>2, AfterSending DEF GivesUp, Framed
      <3> QED BY <3>1, <3>2
    <2>3. ~Doing(t, "clear")
      BY <1>1 DEF Doing
    <2>4. \A q : proc' = [proc EXCEPT ![t] = q] /\ ~(q # <<>> /\ Head(q).op = "clear") => Books'
      BY <1>1, <1>2, <2>3, BooksQuiet
    <2> QED BY <2>1, <2>2, <2>4
  <1>8. CASE UNCHANGED proc
    BY <1>1, <1>2, <1>8, IdleBooks
  <1>9. Write(t) \/ Parks(t) => Done(t) \/ UNCHANGED proc
    BY DEF Write, Parks
  <1>10. Unlock(t) \/ SendsAll(t) \/ Release(t) => Done(t)
    BY DEF Unlock, SendsAll, Release
  <1> QED BY <1>3, <1>4, <1>5, <1>6, <1>7, <1>8, <1>9, <1>10 DEF Writing, Sending

\* A thread without a step begins.
LEMMA BooksBegin ==
  ASSUME Orderly, Books, NEW t \in Threads, NEW q, Begin(t, q),
         UNCHANGED <<slot, owner, down, inherited>>,
         Fresh(q), t \in Slots => slot[t].fd # None
  PROVE  Books'
  BY BooksQuiet, DownsSame DEF Begin, Fresh, Doing

LEMMA CallersBooks ==
  ASSUME Orderly, Books, Ticks \/ Calls
  PROVE  Books'
  <1>1. PICK t \in {"ipc", "tick"} : Begin(t, <<Do("call", None)>> \o Flushes)
    BY DEF Ticks, Calls, TickPass
  <1>2. UNCHANGED <<slot, owner, down, inherited>>
    BY DEF Ticks, Calls, kernel, history
  <1>3. t \in Threads /\ t \notin Slots
    BY WritesAssumption DEF Threads
  <1> QED BY <1>1, <1>2, <1>3, FlushesApt, BooksBegin

LEMMA ShutBooks ==
  ASSUME Orderly, Books, AppLeaves \/ Watchdog, StageType
  PROVE  Books'
  <1>1. PICK fd \in Fds \cup {None} : Peer(fd) # 0 /\ down' = down \cup {Peer(fd)}
    BY DEF AppLeaves, Watchdog, StageType
  <1>2. UNCHANGED <<slot, owner, proc, inherited>>
    BY DEF AppLeaves, Watchdog, history
  <1>3. Downs
    BY <1>1, <1>2, PeerOwns DEF Downs
  <1> QED BY <1>2, <1>3, IdleBooks

LEMMA ServesBooks ==
  ASSUME Orderly, Books, NEW s \in Slots, Serves(s) \/ Ends(s)
  PROVE  Books'
  <1>1. s \in Threads /\ slot[s].fd # None /\ UNCHANGED <<slot, owner, down, inherited>>
    BY NoneApart DEF Serves, Ends, kernel, history
  <1>2. CASE Begin(s, <<Do("reply", s)>>)
    BY <1>1, <1>2, ReplyApt, BooksBegin
  <1>3. CASE Begin(s, <<Do("answer", s)>>)
    BY <1>1, <1>3, OneApt, BooksBegin
  <1>4. CASE Begin(s, Leave(s))
    BY <1>1, <1>4, LeaveApt, BooksBegin
  <1> QED BY <1>2, <1>3, <1>4 DEF Serves, Ends

LEMMA AnswersBooks ==
  ASSUME Orderly, Books, NEW s \in Slots, Attach(s) \/ Answer(s) \/ Detach(s)
  PROVE  Books'
  <1>1. /\ s \in Threads /\ proc[s] # <<>> /\ Head(proc[s]).op \notin {"close", "clear"} /\ Downs
        /\ UNCHANGED <<slot, owner>>
    BY NoneApart, DownsSame DEF Attach, Answer, Detach, kernel, history, Doing
  <1> DEFINE T == {Do("write", s), Do("unlock", s)} \cup
                  {Do("detach", s), Do("close", s), Do("clear", s)}
  <1>2. Holding(s, s) \in Seq(T) /\ Holding(s, s) # <<>> /\ Head(Holding(s, s)).op \in Locked
    BY HoldingApt
  <1>3. CASE Attach(s)
    <2> DEFINE rest == IF bound = None THEN <<>> ELSE Leave(s)
    <2>1. rest \in Seq(T)
      BY LeaveApt
    <2>2. Then(s, Holding(s, s) \o rest)
      BY <1>3 DEF Attach
    <2> HIDE DEF rest, T
    <2>3. /\ Holding(s, s) \o rest \in Seq(T) /\ Holding(s, s) \o rest # <<>>
          /\ Head(Holding(s, s) \o rest).op # "clear"
      BY <1>2, <2>1 DEF Locked
    <2> QED BY <1>1, <2>2, <2>3, BooksThen
  <1>4. CASE Answer(s)
    <2>1. Then(s, Holding(s, s))
      BY <1>4 DEF Answer
    <2> HIDE DEF T
    <2> QED BY <1>1, <1>2, <2>1, BooksThen DEF Locked
  <1>5. CASE Detach(s)
    BY <1>1, <1>5, BooksDone DEF Detach
  <1> QED BY <1>3, <1>4, <1>5

LEMMA ClosesBooks ==
  ASSUME Orderly, Books, NEW s \in Slots, Closes(s)
  PROVE  Books'
  <1> DEFINE c == slot[s].conn
             f == slot[s].fd
  <1>1. /\ proc[s] # <<>> /\ proc' = [proc EXCEPT ![s] = Tail(proc[s])] /\ UNCHANGED slot
        /\ owner' = [owner EXCEPT ![f] = 0] /\ down' = down \cup {c} /\ Doing(s, "close")
        /\ UNCHANGED inherited
    BY DEF Closes, Doing, Done, history
  <1>2. c # 0 /\ c \in Conns /\ c \in Known
    BY <1>1 DEF Books, Served, BooksType, Opened, Conns
  <1>3. \A fd \in Fds : owner'[fd] = IF fd = f THEN 0 ELSE owner[fd]
    BY <1>1 DEF Books, BooksType
  <1>4. f \in Fds => owner[f] = c
    <2>1. ~Doing(s, "clear")
      BY <1>1 DEF Doing
    <2> QED BY <2>1, WritesAssumption DEF Books, OpenFd
  <1>5. Known' = Known
    <2>1. Known' \subseteq Known
      BY <1>1, <1>2, <1>3 DEF Known, Conns
    <2>2. Known \subseteq Known'
      BY <1>1, <1>3, <1>4, <1>2 DEF Known, Conns
    <2> QED BY <2>1, <2>2
  <1>6. BooksType'
    <2>1. 0 \in 0..MaxConns
      BY WritesAssumption
    <2>2. owner' \in [Fds -> 0..MaxConns]
      BY <1>1, <2>1 DEF Books, BooksType
    <2>3. down' \subseteq Conns
      BY <1>1, <1>2 DEF Books, BooksType
    <2> QED BY <1>1, <2>2, <2>3 DEF Books, BooksType
  <1>7. \A r \in Slots : proc'[r] = IF r = s THEN Tail(proc[s]) ELSE proc[r]
    BY <1>1, NoneApart DEF Orderly, Listed
  <1>8. Served'
    BY <1>1, <1>2, <1>7 DEF Books, Served
  <1>9. \A fd \in Fds : owner'[fd] # c
    <2> SUFFICES ASSUME NEW fd \in Fds, fd # f, owner[fd] = c PROVE FALSE
      BY <1>2, <1>3
    <2>1. PICK r \in Slots : slot[r].conn = c /\ slot[r].fd = fd
      BY <1>2 DEF Books, Owned
    <2>2. r = s
      BY <1>2, <2>1 DEF Books, OwnConn
    <2> QED BY <2>1, <2>2
  <1>10. Ending'
    <2> SUFFICES ASSUME NEW r \in Slots, Doing(r, "clear")'
                 PROVE  slot[r].conn \in down' /\ \A fd \in Fds : owner'[fd] # slot[r].conn
      BY <1>1 DEF Ending
    <2>1. CASE r = s
      BY <1>1, <1>9, <2>1
    <2>2. CASE r # s
      <3>1. Doing(r, "clear")
        BY <1>7, <2>2 DEF Doing
      <3>2. slot[r].conn \in down /\ \A fd \in Fds : owner[fd] # slot[r].conn
        BY <3>1 DEF Books, Ending
      <3>3. slot[r].conn # 0
        BY <3>1 DEF Books, Served, Doing
      <3> QED BY <1>1, <1>3, <3>2, <3>3
    <2> QED BY <2>1, <2>2
  <1>11. Counted' /\ Opened' /\ OwnConn'
    BY <1>1, <1>5 DEF Books, Counted, Opened, OwnConn
  <1>12. OwnFd'
    <2> SUFFICES ASSUME NEW r \in Slots, slot[r].fd # None
                 PROVE  /\ slot[r].conn # 0
                        /\ owner'[slot[r].fd] \in {0, slot[r].conn} \cup inherited
      BY <1>1 DEF OwnFd
    <2>1. slot[r].fd \in Fds /\ slot[r].conn # 0
          /\ owner[slot[r].fd] \in {0, slot[r].conn} \cup inherited
      BY DEF Books, BooksType, OwnFd
    <2> QED BY <1>3, <2>1
  <1>13. OpenFd'
    <2> SUFFICES ASSUME NEW r \in Slots, slot[r].fd # None, ~Doing(r, "clear")'
                 PROVE  owner'[slot[r].fd] = slot[r].conn
      BY <1>1 DEF OpenFd
    <2>1. r # s
      <3>1. Tail(proc[s]) # <<>> /\ Head(Tail(proc[s])).op = "clear"
        BY <1>1, NoneApart, TailMoves DEF Doing
      <3> QED BY <1>7, <3>1 DEF Doing
    <2>2. ~Doing(r, "clear")
      BY <1>7, <2>1 DEF Doing
    <2>3. owner[slot[r].fd] = slot[r].conn /\ slot[r].fd \in Fds /\ slot[r].conn # 0
      BY <2>2 DEF Books, OpenFd, OwnFd, BooksType
    <2>4. slot[r].fd # f
      BY <1>4, <2>1, <2>3 DEF Books, OwnConn
    <2> QED BY <1>3, <2>3, <2>4
  <1>14. UpFd'
    BY <1>1 DEF Books, UpFd
  <1>15. Owned'
    BY <1>1, <1>3 DEF Books, Owned
  <1> QED BY <1>6, <1>8, <1>10, <1>11, <1>12, <1>13, <1>14, <1>15 DEF Books

LEMMA ClearsBooks ==
  ASSUME Orderly, Books, NEW s \in Slots, Clears(s)
  PROVE  Books'
  <1>1. /\ proc[s] # <<>> /\ Head(proc[s]).op = "clear"
        /\ proc' = [proc EXCEPT ![s] = Tail(proc[s])] /\ UNCHANGED <<owner, down, inherited>>
        /\ slot' = [slot EXCEPT ![s].fd = None]
    BY DEF Clears, Doing, Done, kernel, history
  <1>2. \A r \in Slots : /\ slot'[r].conn = slot[r].conn
                         /\ slot'[r].fd = IF r = s THEN None ELSE slot[r].fd
    BY <1>1 DEF Books, BooksType
  <1>3. Known' = Known
    BY <1>1 DEF Known
  <1>4. slot[s].conn \in down /\ \A f \in Fds : owner[f] # slot[s].conn
    BY <1>1 DEF Books, Ending, Doing
  <1>5. \A r \in Slots : proc'[r] = IF r = s THEN Tail(proc[s]) ELSE proc[r]
    BY <1>1, NoneApart DEF Orderly, Listed
  <1>6. BooksType'
    BY <1>1 DEF Books, BooksType
  <1>7. Served'
    BY <1>1, <1>2, <1>5 DEF Books, Served
  <1>8. Ending'
    BY <1>1, <1>2, <1>4, <1>5 DEF Books, Ending, Doing
  <1>9. Counted' /\ Opened' /\ OwnConn'
    BY <1>2, <1>3 DEF Books, Counted, Opened, OwnConn
  <1>10. OwnFd'
    BY <1>1, <1>2 DEF Books, OwnFd
  <1>11. UpFd'
    BY <1>1, <1>2, <1>4 DEF Books, UpFd
  <1>12. OpenFd'
    BY <1>1, <1>2, <1>5 DEF Books, OpenFd, Doing
  <1>13. Owned'
    BY <1>1, <1>2, <1>4 DEF Books, Owned
  <1> QED BY <1>6, <1>7, <1>8, <1>9, <1>10, <1>11, <1>12, <1>13 DEF Books

LEMMA AcceptedIs ==
  ASSUME Books, Accepted < MaxConns
  PROVE  /\ Known = 1..Accepted /\ Accepted + 1 \in Conns /\ Accepted + 1 \in 1..MaxConns
         /\ Accepted + 1 \notin Known /\ Accepted \in Nat
  <1>1. PICK k \in 0..MaxConns : Known = 1..k
    BY DEF Books, Counted
  <1>2. k \in Nat /\ MaxConns \in Nat
    BY <1>1, WritesAssumption
  <1>3. Cardinality(1..k) = k
    BY <1>2, FS_Interval
  <1>4. Accepted = k
    BY <1>1, <1>3 DEF Accepted, Known
  <1> QED BY <1>1, <1>2, <1>4 DEF Conns

\* A new connection gets a free slot and a free number, and is inherited if a write for the last
\* owner of one of them is on its way.
LEMMA AcceptsMakes ==
  ASSUME NEW s \in Slots, Accepts(s)
  PROVE  \E fd \in Fds :
           /\ owner[fd] = 0 /\ slot[s].fd = None
           /\ owner' = [owner EXCEPT ![fd] = Accepted + 1]
           /\ slot' = [slot EXCEPT ![s] = [fd |-> fd, conn |-> Accepted + 1]]
           /\ OnItsWay(s, fd) => Accepted + 1 \in inherited'
           /\ inherited \subseteq inherited' /\ inherited' \subseteq inherited \cup {Accepted + 1}
  <1>1. slot[s].fd = None
    BY DEF Accepts, IsFirst, Unused
  <1>2. PICK fd \in Fds :
          /\ IsFirst(fd, FdList, {f \in Fds : owner[f] = 0})
          /\ owner' = [owner EXCEPT ![fd] = Accepted + 1]
          /\ inherited' = IF OnItsWay(s, fd) THEN inherited \cup {Accepted + 1} ELSE inherited
          /\ slot' = [slot EXCEPT ![s] = [fd |-> fd, conn |-> Accepted + 1]]
    BY DEF Accepts
  <1>3. owner[fd] = 0
    BY <1>2 DEF IsFirst
  <1> QED BY <1>1, <1>2, <1>3

LEMMA AcceptsBooks ==
  ASSUME Orderly, Books, NEW s \in Slots, Accepts(s)
  PROVE  Books'
  <1> DEFINE k == Accepted + 1
  <1>1. PICK fd \in Fds :
          /\ owner[fd] = 0 /\ slot[s].fd = None
          /\ owner' = [owner EXCEPT ![fd] = k]
          /\ slot' = [slot EXCEPT ![s] = [fd |-> fd, conn |-> k]]
          /\ OnItsWay(s, fd) => k \in inherited'
          /\ inherited \subseteq inherited'
    BY AcceptsMakes
  <1>2. UNCHANGED down /\ Accepted < MaxConns
    BY DEF Accepts
  <1>3. /\ Known = 1..Accepted /\ k \in Conns /\ k \in 1..MaxConns /\ k \notin Known
        /\ Accepted \in Nat /\ k = Accepted + 1
    BY <1>2, AcceptedIs
  <1>4. PICK q : proc' = [proc EXCEPT ![s] = q] /\ ~(q # <<>> /\ Head(q).op = "clear")
    <2>1. Begin(s, <<Do("attach", s)>>) \/ Begin(s, Leave(s))
      BY DEF Accepts
    <2>2. CASE Begin(s, <<Do("attach", s)>>)
      BY <2>2, OneApt DEF Begin, Fresh
    <2>3. CASE Begin(s, Leave(s))
      BY <2>3, LeaveApt DEF Begin, Fresh
    <2> QED BY <2>1, <2>2, <2>3
  <1> HIDE DEF k
  <1>5. \A r \in Slots : proc'[r] = IF r = s THEN q ELSE proc[r]
    BY <1>4, NoneApart DEF Orderly, Listed
  <1>6. /\ \A r \in Slots : /\ slot'[r].fd = IF r = s THEN fd ELSE slot[r].fd
                            /\ slot'[r].conn = IF r = s THEN k ELSE slot[r].conn
        /\ \A f \in Fds : owner'[f] = IF f = fd THEN k ELSE owner[f]
    BY <1>1 DEF Books, BooksType
  <1>7. BooksType'
    <2>1. k \in 0..MaxConns
      BY <1>3, WritesAssumption
    <2>2. owner' \in [Fds -> 0..MaxConns]
      BY <1>1, <2>1 DEF Books, BooksType
    <2>3. slot' \in [Slots -> [fd : Fds \cup {None}, conn : 0..MaxConns]]
      BY <1>1, <2>1 DEF Books, BooksType
    <2> QED BY <1>2, <2>2, <2>3 DEF Books, BooksType
  <1>8. Known' = Known \cup {k}
    <2>1. 0 \notin Conns
      BY DEF Conns
    <2> QED BY <1>1, <1>2, <1>3, <1>6, <2>1 DEF Known
  <1>9. Counted'
    <2>1. Known \cup {k} = 1..k
      BY <1>3
    <2>2. k \in 0..MaxConns
      BY <1>3, WritesAssumption
    <2> QED BY <1>8, <2>1, <2>2 DEF Counted
  <1>10. \A r \in Slots : slot[r].fd = fd => k \in inherited'
    BY <1>1 DEF OnItsWay
  <1>11. Served'
    <2>1. k # 0
      BY <1>3
    <2> QED BY <1>5, <1>6, <2>1 DEF Books, Served
  <1>12. \A r \in Slots : slot[r].conn # k
    BY <1>3 DEF Books, Opened
  <1>13. Ending'
    <2> SUFFICES ASSUME NEW r \in Slots, Doing(r, "clear")'
                 PROVE  slot'[r].conn \in down /\ \A f \in Fds : owner'[f] # slot'[r].conn
      BY <1>2 DEF Ending
    <2>1. r # s /\ Doing(r, "clear")
      BY <1>4, <1>5 DEF Doing
    <2>2. slot[r].conn \in down /\ \A f \in Fds : owner[f] # slot[r].conn
      BY <2>1 DEF Books, Ending
    <2> QED BY <1>6, <1>12, <2>1, <2>2
  <1>14. Opened'
    BY <1>6, <1>8 DEF Books, Opened
  <1>15. OwnConn'
    BY <1>6, <1>12 DEF Books, OwnConn
  <1>16. OwnFd'
    <2> SUFFICES ASSUME NEW r \in Slots, slot'[r].fd # None
                 PROVE  /\ slot'[r].conn # 0
                        /\ owner'[slot'[r].fd] \in {0, slot'[r].conn} \cup inherited'
      BY DEF OwnFd
    <2>1. CASE r = s
      BY <1>3, <1>6, <2>1
    <2>2. CASE r # s
      <3>1. /\ slot[r].fd \in Fds /\ slot[r].conn # 0
            /\ owner[slot[r].fd] \in {0, slot[r].conn} \cup inherited
        BY <1>6, <2>2 DEF Books, BooksType, OwnFd
      <3> QED BY <1>1, <1>6, <1>10, <2>2, <3>1
    <2> QED BY <2>1, <2>2
  <1>17. OpenFd'
    <2> SUFFICES ASSUME NEW r \in Slots, slot'[r].fd # None, ~Doing(r, "clear")'
                 PROVE  owner'[slot'[r].fd] = slot'[r].conn
      BY DEF OpenFd
    <2>1. CASE r = s
      BY <1>6, <2>1
    <2>2. CASE r # s
      <3>1. /\ slot[r].fd \in Fds /\ slot[r].conn # 0 /\ ~Doing(r, "clear")
            /\ owner[slot[r].fd] = slot[r].conn
        <4>1. slot[r].fd # None /\ ~Doing(r, "clear")
          BY <1>5, <1>6, <2>2 DEF Doing
        <4> QED BY <4>1 DEF Books, BooksType, OpenFd, OwnFd
      <3>2. slot[r].fd # fd
        BY <1>1, <3>1
      <3> QED BY <1>6, <2>2, <3>1, <3>2
    <2> QED BY <2>1, <2>2
  <1>18. UpFd'
    <2> SUFFICES ASSUME NEW r \in Slots, slot'[r].conn \notin down \cup {0}
                 PROVE  slot'[r].fd # None
      BY <1>2 DEF UpFd
    <2>1. CASE r = s
      BY <1>6, <2>1, WritesAssumption
    <2>2. CASE r # s
      BY <1>6, <2>2 DEF Books, UpFd
    <2> QED BY <2>1, <2>2
  <1>19. Owned'
    <2> SUFFICES ASSUME NEW f \in Fds, owner'[f] # 0
                 PROVE  \E r \in Slots : slot'[r].conn = owner'[f] /\ slot'[r].fd = f
      BY DEF Owned
    <2>1. CASE f = fd
      BY <1>6, <2>1
    <2>2. CASE f # fd
      <3>1. PICK r \in Slots : slot[r].conn = owner[f] /\ slot[r].fd = f
        BY <1>6, <2>2 DEF Books, Owned
      <3>2. r # s
        BY <1>1, <3>1, WritesAssumption
      <3> QED BY <1>6, <2>2, <3>1, <3>2
    <2> QED BY <2>1, <2>2
  <1>20. BooksType' /\ Served' /\ Ending' /\ Counted' /\ Opened'
    BY <1>7, <1>9, <1>11, <1>13, <1>14
  <1> QED BY <1>15, <1>16, <1>17, <1>18, <1>19, <1>20 DEF Books

LEMMA StageInit == Init => StageType
  BY DEF Init, StageType

LEMMA StageStep ==
  ASSUME Orderly, Books, Sends, StageType, [Next]_vars
  PROVE  StageType'
  <1>1. ASSUME NEW t \in Threads, Reply(t) \/ Flush(t) PROVE StageType'
    <2>1. At(t) \in Slots /\ proc[t] # <<>>
      <3>1. PICK S : proc[t] \in Seq(S)
        BY DEF Orderly, Listed
      <3>2. proc[t] # <<>> /\ Head(proc[t]).op \in {"reply", "flush"}
        BY <1>1 DEF Reply, Flush, Doing
      <3>3. 1 \in 1 .. Len(proc[t]) /\ proc[t][1] = Head(proc[t]) /\ Apt(t, proc[t])
        BY <3>1, <3>2 DEF Orderly, Lists
      <3> QED BY <3>2, <3>3 DEF Apt, At
    <2>2. stage' = stage \/ stage' = slot[At(t)].fd
      BY <1>1 DEF Reply, Flush
    <2> QED BY <2>1, <2>2 DEF Books, BooksType, StageType
  <1>2. ASSUME NEW t \in Threads, SendsAll(t) PROVE StageType'
    <2>1. Doing(t, "sending") /\ stage' = Head(Tail(proc[t])).fd
      BY <1>2 DEF SendsAll
    <2> QED BY <2>1, AfterSending DEF Sends, SendsTo, StageType
  <1>3. ASSUME NEW t \in Threads,
               Unlock(t) \/ Core(t) \/ Write(t) \/ SendFails(t) \/ Release(t) \/ Parks(t)
        PROVE  StageType'
    BY <1>3 DEF Unlock, Core, Write, SendFails, Release, Parks, StageType
  <1>4. CASE Ticks \/ Calls \/ AppLeaves \/ Watchdog \/ UNCHANGED vars
    BY <1>4 DEF Ticks, Calls, AppLeaves, Watchdog, StageType, vars
  <1>5. ASSUME NEW s \in Slots, Accepts(s) \/ Serves(s) \/ Connection(s) PROVE StageType'
    BY <1>5 DEF Accepts, Serves, Connection, Attach, Answer, Ends, Detach, Closes, Clears,
                StageType
  <1> QED BY <1>1, <1>2, <1>3, <1>4, <1>5 DEF Next, Writing, Sending

LEMMA BooksStep ==
  ASSUME Orderly, BoundType, Books, Sends, StageType, [Next]_vars
  PROVE  Books'
  <1>1. CASE \E t \in Threads : Unlock(t) \/ Core(t) \/ Writing(t)
    BY <1>1, WritingBooks
  <1>2. CASE Ticks \/ Calls
    BY <1>2, CallersBooks
  <1>3. CASE AppLeaves \/ Watchdog
    BY <1>3, ShutBooks
  <1>4. CASE UNCHANGED vars
    BY <1>4, IdleBooks, DownsSame DEF vars, kernel, history
  <1>5. CASE \E s \in Slots : Accepts(s) \/ Serves(s) \/ Connection(s)
    BY <1>5, AcceptsBooks, ServesBooks, AnswersBooks, ClosesBooks, ClearsBooks DEF Connection
  <1> QED BY <1>1, <1>2, <1>3, <1>4, <1>5 DEF Next

-----------------------------------------------------------------------------
(* Sends on their way *)

LEMMA SendsInit == Init => Sends
  BY DEF Init, Sends, Doing

LEMMA NoneFd == None \notin Fds
  BY WritesAssumption

LEMMA OwnSends ==
  ASSUME Books, NEW s \in Slots
  PROVE  SendsTo(s, slot[s].fd)
  BY DEF Books, BooksType, OwnFd, SendsTo

\* A step of thread t that leaves slots and numbers alone.
LEMMA SendsQuiet ==
  ASSUME Orderly, Sends, NEW t \in Threads, NEW q, proc' = [proc EXCEPT ![t] = q],
         UNCHANGED <<slot, owner, inherited>>, down \subseteq down',
         q # <<>> /\ Head(q).op = "sending" => SendsTo(Head(q).slot, Head(q).fd)
  PROVE  Sends'
  <1>1. \A r \in Threads : proc'[r] = IF r = t THEN q ELSE proc[r]
    BY DEF Orderly, Listed
  <1>2. \A s, f : SendsTo(s, f) => SendsTo(s, f)'
    BY DEF SendsTo, Up
  <1> QED BY <1>1, <1>2 DEF Sends, Doing, At

\* The thread does not send next.
LEMMA SendsNot ==
  ASSUME Orderly, Sends, NEW t \in Threads, NEW q, proc' = [proc EXCEPT ![t] = q],
         UNCHANGED <<slot, owner, inherited>>, down \subseteq down', Unframed(q)
  PROVE  Sends'
  BY SendsQuiet DEF Unframed, Framed

LEMMA WritingSends ==
  ASSUME Orderly, BoundType, Books, Sends, NEW t \in Threads,
         Unlock(t) \/ Core(t) \/ Writing(t)
  PROVE  Sends'
  <1>1. UNCHANGED <<slot, owner, inherited>> /\ proc[t] # <<>> /\ down \subseteq down'
    <2>1. CASE UNCHANGED down
      BY <2>1, WritingLeaves
    <2>2. CASE SendFails(t)
      BY <2>2, WritingLeaves DEF SendFails, ShutDown
    <2> QED BY <2>1, <2>2, WritingLeaves
  <1>2. CASE Done(t) /\ Head(proc[t]).op # "sending"
    BY <1>1, <1>2, TailMoves, SendsNot DEF Done
  <1>3. CASE Core(t) /\ ~Done(t)
    <2>1. Then(t, Holding(t, bound)) /\ bound \in Slots
      BY <1>3 DEF Core, BoundType
    <2>2. /\ Holding(t, bound) \in Seq({Do("write", bound), Do("unlock", bound)})
          /\ Holding(t, bound) # <<>> /\ Head(Holding(t, bound)).op \in Locked
      BY <2>1, HoldingApt
    <2>3. PICK R : Tail(proc[t]) \in Seq(R)
      BY <1>1, TailMoves
    <2>4. /\ Holding(t, bound) \in Seq({Do("write", bound), Do("unlock", bound)} \cup R)
          /\ Tail(proc[t]) \in Seq({Do("write", bound), Do("unlock", bound)} \cup R)
      BY <2>2, <2>3, SeqGrows
    <2>5. Unframed(Holding(t, bound) \o Tail(proc[t]))
      <3>1. Head(Holding(t, bound) \o Tail(proc[t])) = Head(Holding(t, bound))
        BY <2>2, <2>4
      <3> QED BY <2>2, <3>1 DEF Unframed, Locked, Framed
    <2> QED BY <1>1, <2>1, <2>5, SendsNot DEF Then
  <1>4. ASSUME NEW u, NEW q, Then(t, <<Send(At(t), u)>> \o q), NEW S,
               q \in Seq(S), At(t) \in Slots
        PROVE  Sends'
    <2>1. PICK R : Tail(proc[t]) \in Seq(R)
      BY <1>1, TailMoves
    <2> DEFINE p == (<<Send(At(t), u)>> \o q) \o Tail(proc[t])
    <2>2. Head(p) = Send(At(t), u)
      <3>1. /\ <<Send(At(t), u)>> \in Seq({Send(At(t), u)} \cup R \cup S)
            /\ q \in Seq({Send(At(t), u)} \cup R \cup S)
            /\ Tail(proc[t]) \in Seq({Send(At(t), u)} \cup R \cup S)
        BY <1>4, <2>1, SeqGrows
      <3>2. <<Send(At(t), u)>> \o q # <<>> /\ Head(<<Send(At(t), u)>> \o q) = Send(At(t), u)
        BY <3>1, HeadOfJoin
      <3> QED BY <3>1, <3>2, HeadOfJoin
    <2> HIDE DEF p
    <2>3. Head(p).slot = At(t) /\ Head(p).fd = slot[At(t)].fd
      BY <2>2 DEF Send
    <2>4. SendsTo(Head(p).slot, Head(p).fd)
      BY <1>4, <2>3, OwnSends
    <2>5. proc' = [proc EXCEPT ![t] = p]
      BY <1>4 DEF Then, p
    <2> QED BY <1>1, <2>4, <2>5, SendsQuiet
  <1>5. CASE (Reply(t) \/ Flush(t)) /\ ~Done(t)
    <2>1. At(t) \in Slots
      <3>1. PICK S : proc[t] \in Seq(S)
        BY DEF Orderly, Listed
      <3>2. Head(proc[t]).op \in {"reply", "flush"}
        BY <1>5 DEF Reply, Flush, Doing
      <3>3. 1 \in 1 .. Len(proc[t]) /\ proc[t][1] = Head(proc[t]) /\ Apt(t, proc[t])
        BY <1>1, <3>1, <3>2 DEF Orderly, Lists
      <3> QED BY <3>2, <3>3 DEF Apt, At
    <2>2. CASE Flush(t)
      <3>1. Then(t, <<Send(At(t), tx[At(t)]), Do("empty", At(t))>>)
        BY <1>5, <2>2 DEF Flush
      <3>2. <<Send(At(t), tx[At(t)]), Do("empty", At(t))>>
             = <<Send(At(t), tx[At(t)])>> \o <<Do("empty", At(t))>>
        OBVIOUS
      <3>3. <<Do("empty", At(t))>> \in Seq({Do("empty", At(t))})
        OBVIOUS
      <3> QED BY <1>4, <2>1, <3>1, <3>2, <3>3
    <2>3. CASE Reply(t)
      <3> DEFINE c == slot[At(t)].conn
                 a == SubSeq(NextUnits(c), 1, 1)
                 b == Send(At(t), SubSeq(NextUnits(c), 2, 2))
                 d == Do("release", At(t))
      <3>1. Then(t, <<Send(At(t), a), b, d>>)
        BY <1>5, <2>3 DEF Reply
      <3> HIDE DEF a, b, d
      <3>2. <<Send(At(t), a), b, d>> = <<Send(At(t), a)>> \o <<b, d>>
        OBVIOUS
      <3>3. <<b, d>> \in Seq({b, d})
        OBVIOUS
      <3> QED BY <1>4, <2>1, <3>1, <3>2, <3>3
    <2> QED BY <1>5, <2>2, <2>3
  <1>6. CASE SendsAll(t)
    <2> DEFINE q == Tail(proc[t])
    <2>1. Doing(t, "sending") /\ proc' = [proc EXCEPT ![t] = q]
      BY <1>6 DEF SendsAll, Done
    <2>2. Head(q).op = "sending" =>
            Head(q).slot = At(t) /\ Head(q).fd = Head(proc[t]).fd
      BY <2>1, AfterSending
    <2>3. SendsTo(At(t), Head(proc[t]).fd)
      BY <2>1 DEF Sends
    <2>4. Head(q).op = "sending" => SendsTo(Head(q).slot, Head(q).fd)
      BY <2>2, <2>3
    <2> HIDE DEF q
    <2> QED BY <1>1, <2>1, <2>4, SendsQuiet
  <1>7. CASE SendFails(t)
    <2>1. proc' = [proc EXCEPT ![t] = GivesUp(t)] /\ Doing(t, "sending")
      BY <1>7 DEF SendFails
    <2>2. Head(GivesUp(t)).op # "sending"
      <3>1. CASE t \in Slots
        <4>1. Head(GivesUp(t)) = Do("release", t)
          BY <3>1, LeaveApt DEF GivesUp, Leave
        <4> QED BY <4>1 DEF Do
      <3>2. CASE t \notin Slots
        BY <2>1, <3>2, AfterSending DEF GivesUp
      <3> QED BY <3>1, <3>2
    <2> DEFINE q == GivesUp(t)
    <2> HIDE DEF q
    <2>3. proc' = [proc EXCEPT ![t] = q] /\ Head(q).op # "sending"
      BY <2>1, <2>2 DEF q
    <2> QED BY <1>1, <2>3, SendsQuiet
  <1>8. \/ Done(t) /\ Head(proc[t]).op # "sending"
        \/ Core(t) /\ ~Done(t)
        \/ (Reply(t) \/ Flush(t)) /\ ~Done(t)
        \/ SendsAll(t) \/ SendFails(t) \/ UNCHANGED proc
    BY DEF Unlock, Core, Writing, Write, Reply, Flush, Parks, Sending, Release, Doing
  <1>9. CASE UNCHANGED proc
    BY <1>1, <1>9 DEF Sends, SendsTo, Doing, At, Up
  <1> QED BY <1>2, <1>3, <1>5, <1>6, <1>7, <1>8, <1>9

LEMMA OthersSends ==
  ASSUME Orderly, Books, Sends, StageType,
         \/ Ticks \/ Calls \/ AppLeaves \/ Watchdog \/ UNCHANGED vars
         \/ \E s \in Slots : Accepts(s) \/ Serves(s) \/ Connection(s)
  PROVE  Sends'
  <1>1. CASE Ticks \/ Calls
    <2>1. PICK t \in {"ipc", "tick"} : Begin(t, <<Do("call", None)>> \o Flushes)
      BY <1>1 DEF Ticks, Calls, TickPass
    <2>2. UNCHANGED <<slot, owner, down, inherited>> /\ t \in Threads
      BY <1>1 DEF Ticks, Calls, kernel, history, Threads
    <2>3. Unframed(<<Do("call", None)>> \o Flushes)
      BY FlushesApt DEF Fresh, Unframed
    <2> QED BY <2>1, <2>2, <2>3, SendsNot DEF Begin
  <1>2. CASE AppLeaves \/ Watchdog \/ UNCHANGED vars
    <2>1. UNCHANGED <<slot, owner, proc, inherited>> /\ down \subseteq down'
      BY <1>2 DEF AppLeaves, Watchdog, vars, kernel, history
    <2> QED BY <2>1 DEF Sends, SendsTo, Doing, At, Up
  <1>3. ASSUME NEW s \in Slots, Serves(s) \/ Ends(s) PROVE Sends'
    <2>1. s \in Threads /\ UNCHANGED <<slot, owner, down, inherited>>
      BY <1>3, NoneApart DEF Serves, Ends, kernel, history
    <2>2. \/ Begin(s, <<Do("reply", s)>>) \/ Begin(s, <<Do("answer", s)>>)
          \/ Begin(s, Leave(s))
      BY <1>3 DEF Serves, Ends
    <2>3. Unframed(<<Do("reply", s)>>) /\ Unframed(<<Do("answer", s)>>) /\ Unframed(Leave(s))
      BY ReplyApt, OneApt, LeaveApt DEF Fresh, Unframed
    <2> QED BY <2>1, <2>2, <2>3, SendsNot DEF Begin
  <1>4. ASSUME NEW s \in Slots, Attach(s) \/ Answer(s) PROVE Sends'
    <2>1. s \in Threads /\ UNCHANGED <<slot, owner, down, inherited>> /\ proc[s] # <<>>
      BY <1>4, NoneApart DEF Attach, Answer, kernel, history, Doing
    <2> DEFINE T == {Do("write", s), Do("unlock", s)} \cup
                    {Do("detach", s), Do("close", s), Do("clear", s)}
               rest == IF Answer(s) \/ bound = None THEN <<>> ELSE Leave(s)
    <2>2. Holding(s, s) \in Seq(T) /\ Holding(s, s) # <<>> /\ Head(Holding(s, s)).op \in Locked
      BY HoldingApt
    <2>3. rest \in Seq(T)
      <3>1. Leave(s) \in Seq({Do("detach", s), Do("close", s), Do("clear", s)})
        BY LeaveApt
      <3>2. Leave(s) \in Seq(T)
        BY <3>1, SeqGrows
      <3>3. <<>> \in Seq(T)
        OBVIOUS
      <3> QED BY <3>2, <3>3
    <2>4. PICK R : Tail(proc[s]) \in Seq(R)
      BY <2>1, TailMoves
    <2>5. /\ Holding(s, s) \in Seq(T \cup R) /\ rest \in Seq(T \cup R)
          /\ Tail(proc[s]) \in Seq(T \cup R)
      BY <2>2, <2>3, <2>4, SeqGrows
    <2>6. Then(s, Holding(s, s) \o rest)
      <3>1. CASE Attach(s) /\ ~Answer(s)
        BY <3>1 DEF Attach
      <3>2. CASE Answer(s)
        <4>1. Holding(s, s) \o <<>> = Holding(s, s)
          BY <2>2
        <4> QED BY <3>2, <4>1 DEF Answer
      <3> QED BY <1>4, <3>1, <3>2
    <2> HIDE DEF rest, T
    <2>7. Head((Holding(s, s) \o rest) \o Tail(proc[s])) = Head(Holding(s, s))
      <3>1. /\ Holding(s, s) \o rest # <<>> /\ Holding(s, s) \o rest \in Seq(T \cup R)
            /\ Head(Holding(s, s) \o rest) = Head(Holding(s, s))
        BY <2>2, <2>5, HeadOfJoin
      <3> QED BY <2>5, <3>1, HeadOfJoin
    <2>8. Unframed((Holding(s, s) \o rest) \o Tail(proc[s]))
      BY <2>2, <2>7 DEF Unframed, Locked, Framed
    <2> QED BY <2>1, <2>6, <2>8, SendsNot DEF Then
  <1>5. ASSUME NEW s \in Slots, Detach(s) PROVE Sends'
    <2>1. /\ s \in Threads /\ UNCHANGED <<slot, owner, down, inherited>> /\ Done(s)
          /\ proc[s] # <<>> /\ Head(proc[s]).op # "sending"
      BY <1>5, NoneApart DEF Detach, kernel, history, Doing
    <2> QED BY <2>1, TailMoves, SendsNot DEF Done
  <1>6. ASSUME NEW s \in Slots, Closes(s) \/ Clears(s) PROVE Sends'
    <2>1. /\ s \in Threads /\ proc' = [proc EXCEPT ![s] = Tail(proc[s])]
          /\ proc[s] # <<>> /\ Head(proc[s]).op # "sending"
      BY <1>6, NoneApart DEF Closes, Clears, Doing, Done
    <2>2. Unframed(Tail(proc[s]))
      BY <2>1, TailMoves
    <2>3. \A r \in Threads : proc'[r] = IF r = s THEN Tail(proc[s]) ELSE proc[r]
      BY <2>1 DEF Orderly, Listed
    <2>4. ASSUME NEW r \in Slots, NEW f, SendsTo(r, f) PROVE SendsTo(r, f)'
      <3>1. CASE Closes(s)
        <4>1. /\ UNCHANGED <<slot, inherited>> /\ down \subseteq down'
              /\ f \in Fds => owner'[f] = 0 \/ owner'[f] = owner[f]
          BY <3>1 DEF Closes, history, Books, BooksType
        <4> QED BY <2>4, <4>1 DEF SendsTo, Up
      <3>2. CASE Clears(s)
        <4>1. /\ slot' = [slot EXCEPT ![s].fd = None] /\ UNCHANGED <<owner, down, inherited>>
              /\ slot[s].conn \in down
          BY <3>2 DEF Clears, kernel, history, Books, Ending
        <4>2. slot'[r].conn = slot[r].conn /\ (r # s => slot'[r].fd = slot[r].fd)
          BY <4>1 DEF Books, BooksType
        <4> QED BY <2>4, <4>1, <4>2 DEF SendsTo, Up
      <3> QED BY <1>6, <3>1, <3>2
    <2>5. \A r \in Threads : Doing(r, "sending") => At(r) \in Slots
      BY AfterSending
    <2> SUFFICES ASSUME NEW r \in Threads, Doing(r, "sending")'
                 PROVE  SendsTo(At(r), Head(proc[r]).fd)'
      BY DEF Sends
    <2>6. r # s
      BY <2>2, <2>3 DEF Doing, Unframed, Framed
    <2>7. proc'[r] = proc[r] /\ Doing(r, "sending")
      BY <2>3, <2>6 DEF Doing
    <2> QED BY <2>4, <2>5, <2>7 DEF Sends, At
  <1>7. ASSUME NEW s \in Slots, Accepts(s) PROVE Sends'
    <2>1. PICK fd \in Fds :
            /\ owner[fd] = 0 /\ slot[s].fd = None
            /\ owner' = [owner EXCEPT ![fd] = Accepted + 1]
            /\ slot' = [slot EXCEPT ![s] = [fd |-> fd, conn |-> Accepted + 1]]
            /\ OnItsWay(s, fd) => Accepted + 1 \in inherited'
            /\ inherited \subseteq inherited'
      BY <1>7, AcceptsMakes
    <2>2. PICK q : proc' = [proc EXCEPT ![s] = q] /\ Unframed(q)
      <3>1. Begin(s, <<Do("attach", s)>>) \/ Begin(s, Leave(s))
        BY <1>7 DEF Accepts
      <3>2. Unframed(<<Do("attach", s)>>) /\ Unframed(Leave(s))
        BY OneApt, LeaveApt DEF Fresh, Unframed
      <3> QED BY <3>1, <3>2 DEF Begin
    <2>3. \A r \in Threads : proc'[r] = IF r = s THEN q ELSE proc[r]
      BY <2>2 DEF Orderly, Listed
    <2>4. UNCHANGED down
      BY <1>7 DEF Accepts
    <2> SUFFICES ASSUME NEW r \in Threads, Doing(r, "sending")'
                 PROVE  SendsTo(At(r), Head(proc[r]).fd)'
      BY DEF Sends
    <2>5. r # s
      BY <2>2, <2>3 DEF Doing, Unframed, Framed
    <2>6. proc'[r] = proc[r] /\ Doing(r, "sending")
      BY <2>3, <2>5 DEF Doing
    <2>7. At(r) \in Slots /\ frame[At(r)] = r
      BY <2>6, AfterSending
    <2>8. /\ \A y \in Slots : y # s => slot'[y] = slot[y]
          /\ slot'[s] = [fd |-> fd, conn |-> Accepted + 1]
          /\ \A g \in Fds : g # fd => owner'[g] = owner[g]
          /\ owner'[fd] = Accepted + 1
      BY <2>1 DEF Books, BooksType
    <2>9. ASSUME NEW z \in Slots, NEW f, SendsTo(z, f),
                 (z = s \/ f = fd) => Accepted + 1 \in inherited'
          PROVE  SendsTo(z, f)'
      <3>1. CASE z # s
        <4>1. f \in Fds => owner'[f] = owner[f] \/ owner'[f] \in inherited'
          BY <2>8, <2>9
        <4>2. slot'[z] = slot[z]
          BY <2>8, <3>1
        <4>3. f \in Fds \cup {None}
              /\ (f # None => owner'[f] \in {0, slot'[z].conn} \cup inherited')
          BY <2>1, <2>9, <4>1, <4>2 DEF SendsTo
        <4>4. Up(z)' => f = slot'[z].fd
          BY <2>1, <2>4, <2>9, <4>2 DEF SendsTo, Up
        <4> QED BY <4>3, <4>4 DEF SendsTo
      <3>2. CASE z = s
        <4>1. ASSUME f \in Fds, owner[f] = slot[s].conn, slot[s].conn # 0 PROVE FALSE
          <5>1. PICK y \in Slots : slot[y].conn = owner[f] /\ slot[y].fd = f
            BY <4>1 DEF Books, Owned
          <5>2. y = s
            BY <4>1, <5>1 DEF Books, OwnConn
          <5> QED BY <2>1, <4>1, <5>1, <5>2, NoneFd
        <4>2. f \in Fds => owner[f] \in {0} \cup inherited
          BY <2>9, <3>2, <4>1, NoneFd DEF SendsTo
        <4>3. f \in Fds => owner'[f] \in {0} \cup inherited'
          BY <2>1, <2>8, <2>9, <3>2, <4>2
        <4>4. ~Up(s)'
          BY <2>8, <2>9, <3>2 DEF Up
        <4> QED BY <2>9, <3>2, <4>3, <4>4 DEF SendsTo
      <3> QED BY <3>1, <3>2
    <2>10. (At(r) = s \/ Head(proc[r]).fd = fd) => Accepted + 1 \in inherited'
      BY <2>1, <2>6, <2>7, NoneApart DEF OnItsWay
    <2>11. SendsTo(At(r), Head(proc[r]).fd)
      BY <2>6 DEF Sends
    <2> QED BY <2>6, <2>7, <2>9, <2>10, <2>11 DEF At
  <1> QED BY <1>1, <1>2, <1>3, <1>4, <1>5, <1>6, <1>7 DEF Connection

LEMMA SendsStep ==
  ASSUME Orderly, BoundType, Books, Sends, StageType, [Next]_vars
  PROVE  Sends'
  BY WritingSends, OthersSends DEF Next

-----------------------------------------------------------------------------
(* Units in a row: headers and payloads of frames for one connection, each payload right behind
   its header; a header without its payload is the last unit, or the payload is one of L. *)

HeadOf(u) == [u EXCEPT !.part = "head"]
BodyOf(u) == [u EXCEPT !.part = "body"]
Own(c, u) == \A i \in 1 .. Len(u) : u[i].conn = c
Headed(u) == \A i \in 1 .. Len(u) : u[i].part = "body" => i > 1 /\ u[i - 1] = HeadOf(u[i])
Followed(L, u) ==
  \A i \in 1 .. Len(u) : u[i].part = "head" /\ i < Len(u) =>
    u[i + 1] = BodyOf(u[i]) \/ BodyOf(u[i]) \in L
Once(u) == \A i, j \in 1 .. Len(u) : u[i] = u[j] => i = j
Good(c, L, u) == Own(c, u) /\ Headed(u) /\ Followed(L, u) /\ Once(u)
Closed(L, u) ==
  \A i \in 1 .. Len(u) : i = Len(u) /\ u[i].part = "head" => BodyOf(u[i]) \in L
Whole(c, L, u) == Good(c, L, u) /\ Closed(L, u)
Apart(u, v) == \A i \in 1 .. Len(u), j \in 1 .. Len(v) : u[i] # v[j]
Below(k, u) == \A i \in 1 .. Len(u) : u[i].n <= k

LEMMA JoinLen ==
  ASSUME NEW S, NEW u \in Seq(S), NEW v \in Seq(S)
  PROVE  /\ u \o v \in Seq(S) /\ Len(u \o v) = Len(u) + Len(v)
         /\ Len(u) \in Nat /\ Len(v) \in Nat
         /\ \A i \in 1 .. Len(u) : (u \o v)[i] = u[i]
         /\ \A i \in 1 .. Len(v) : (u \o v)[Len(u) + i] = v[i]
  OBVIOUS

LEMMA JoinThree ==
  ASSUME NEW S, NEW u \in Seq(S), NEW v \in Seq(S), NEW w \in Seq(S)
  PROVE  u \o (v \o w) = (u \o v) \o w /\ u \o v \in Seq(S)
  OBVIOUS

LEMMA JoinAt ==
  ASSUME NEW S, NEW u \in Seq(S), NEW v \in Seq(S), NEW i \in 1 .. Len(u \o v)
  PROVE  \/ i \in 1 .. Len(u) /\ (u \o v)[i] = u[i]
         \/ \E j \in 1 .. Len(v) : i = Len(u) + j /\ (u \o v)[i] = v[j]
  <1>1. CASE i <= Len(u)
    BY <1>1, JoinLen
  <1>2. CASE i > Len(u)
    <2>1. PICK j \in 1 .. Len(v) : i = Len(u) + j
      <3>1. i - Len(u) \in 1 .. Len(v) /\ i = Len(u) + (i - Len(u))
        BY <1>2, JoinLen
      <3> QED BY <3>1
    <2> QED BY <2>1, JoinLen
  <1> QED BY <1>1, <1>2, JoinLen

LEMMA JoinApart ==
  ASSUME NEW S, NEW u \in Seq(S), NEW v \in Seq(S), NEW w, Apart(u, w), Apart(v, w)
  PROVE  Apart(u \o v, w) /\ Apart(w, u \o v)
  BY JoinAt DEF Apart

LEMMA JoinBelow ==
  ASSUME NEW S, NEW u \in Seq(S), NEW v \in Seq(S), NEW k, Below(k, u), Below(k, v)
  PROVE  Below(k, u \o v)
  BY JoinAt DEF Below

LEMMA ApartTurns ==
  ASSUME NEW u, NEW v, Apart(u, v)
  PROVE  Apart(v, u)
  BY DEF Apart

LEMMA BelowMore ==
  ASSUME NEW k \in Nat, NEW m \in Nat, k <= m, NEW u \in Seq(UnitsOf), Below(k, u)
  PROVE  Below(m, u)
  <1> SUFFICES ASSUME NEW i \in 1 .. Len(u) PROVE u[i].n <= m
    BY DEF Below
  <1>1. u[i] \in UnitsOf
    OBVIOUS
  <1>2. u[i].n \in Nat
    BY <1>1 DEF UnitsOf
  <1>3. u[i].n <= k
    BY DEF Below
  <1> QED BY <1>2, <1>3

\* More may be lost later.
LEMMA GoodMore ==
  ASSUME NEW c, NEW L, NEW M, L \subseteq M, NEW u
  PROVE  (Good(c, L, u) => Good(c, M, u)) /\ (Whole(c, L, u) => Whole(c, M, u))
  <1>1. Followed(L, u) => Followed(M, u)
    BY DEF Followed
  <1>2. Closed(L, u) => Closed(M, u)
    BY DEF Closed
  <1> QED BY <1>1, <1>2 DEF Good, Whole

LEMMA GoodPrefix ==
  ASSUME NEW c, NEW L, NEW S, NEW u \in Seq(S), NEW v \in Seq(S), Good(c, L, u),
         Len(v) <= Len(u), \A i \in 1 .. Len(v) : v[i] = u[i]
  PROVE  Good(c, L, v)
  <1>1. \A i \in 1 .. Len(v) : i \in 1 .. Len(u)
    OBVIOUS
  <1>2. Own(c, v) /\ Once(v)
    BY <1>1 DEF Good, Own, Once
  <1>3. Headed(v)
    <2> SUFFICES ASSUME NEW i \in 1 .. Len(v), v[i].part = "body"
                 PROVE  i > 1 /\ v[i - 1] = HeadOf(v[i])
      BY DEF Headed
    <2>1. i > 1 /\ u[i - 1] = HeadOf(u[i])
      BY <1>1 DEF Good, Headed
    <2>2. i - 1 \in 1 .. Len(v)
      BY <2>1
    <2> QED BY <2>1, <2>2
  <1>4. Followed(L, v)
    <2> SUFFICES ASSUME NEW i \in 1 .. Len(v), v[i].part = "head", i < Len(v)
                 PROVE  v[i + 1] = BodyOf(v[i]) \/ BodyOf(v[i]) \in L
      BY DEF Followed
    <2>1. i \in 1 .. Len(u) /\ i < Len(u) /\ i + 1 \in 1 .. Len(v)
      OBVIOUS
    <2>2. u[i + 1] = BodyOf(u[i]) \/ BodyOf(u[i]) \in L
      BY <2>1 DEF Good, Followed
    <2> QED BY <2>1, <2>2
  <1> QED BY <1>2, <1>3, <1>4 DEF Good

LEMMA GoodHead ==
  ASSUME NEW c, NEW L, NEW S, NEW u \in Seq(S), NEW v \in Seq(S), Good(c, L, u \o v)
  PROVE  Good(c, L, u)
  <1> DEFINE w == u \o v
  <1>1. w \in Seq(S) /\ Len(u) <= Len(w) /\ \A i \in 1 .. Len(u) : u[i] = w[i]
    BY JoinLen
  <1> HIDE DEF w
  <1>2. Good(c, L, w)
    BY DEF w
  <1> QED BY <1>1, <1>2, GoodPrefix

LEMMA PartIs ==
  ASSUME NEW S, NEW v \in Seq(S), NEW k \in 0 .. Len(v)
  PROVE  /\ SubSeq(v, 1, k) \in Seq(S) /\ Len(SubSeq(v, 1, k)) = k
         /\ \A i \in 1 .. k : SubSeq(v, 1, k)[i] = v[i]
  OBVIOUS

LEMMA GoodPart ==
  ASSUME NEW c, NEW L, NEW S, NEW u \in Seq(S), NEW v \in Seq(S), Good(c, L, u \o v),
         NEW k \in 0 .. Len(v)
  PROVE  Good(c, L, u \o SubSeq(v, 1, k)) /\ u \o SubSeq(v, 1, k) \in Seq(S)
  <1> DEFINE w == SubSeq(v, 1, k)
  <1>1. w \in Seq(S) /\ Len(w) = k /\ \A i \in 1 .. k : w[i] = v[i]
    OBVIOUS
  <1> HIDE DEF w
  <1>2. /\ u \o w \in Seq(S) /\ u \o v \in Seq(S) /\ Len(u \o w) <= Len(u \o v)
    BY <1>1, JoinLen
  <1>3. ASSUME NEW i \in 1 .. Len(u \o w) PROVE (u \o w)[i] = (u \o v)[i]
    <2>1. CASE i \in 1 .. Len(u) /\ (u \o w)[i] = u[i]
      BY <2>1, JoinLen
    <2>2. CASE \E j \in 1 .. Len(w) : i = Len(u) + j /\ (u \o w)[i] = w[j]
      <3>1. PICK j \in 1 .. Len(w) : i = Len(u) + j /\ (u \o w)[i] = w[j]
        BY <2>2
      <3>2. j \in 1 .. Len(v) /\ w[j] = v[j]
        BY <1>1
      <3> QED BY <3>1, <3>2, JoinLen
    <2>3. \/ i \in 1 .. Len(u) /\ (u \o w)[i] = u[i]
          \/ \E j \in 1 .. Len(w) : i = Len(u) + j /\ (u \o w)[i] = w[j]
      BY <1>1, JoinAt
    <2> QED BY <2>1, <2>2, <2>3
  <1>4. Good(c, L, u \o w)
    BY <1>2, <1>3, GoodPrefix
  <1> QED BY <1>2, <1>4 DEF w

LEMMA SeqEqual ==
  ASSUME NEW S, NEW u \in Seq(S), NEW v \in Seq(S), Len(u) = Len(v),
         \A i \in 1 .. Len(u) : u[i] = v[i]
  PROVE  u = v
  OBVIOUS

LEMMA OneEqual ==
  ASSUME NEW S, NEW u \in Seq(S), NEW a \in S, Len(u) = 1, u[1] = a
  PROVE  u = <<a>>
  <1> DEFINE v == <<a>>
  <1>1. v \in Seq(S) /\ Len(v) = 1 /\ v[1] = a
    OBVIOUS
  <1> HIDE DEF v
  <1>2. \A i \in 1 .. Len(u) : u[i] = v[i]
    BY <1>1
  <1>3. u = v
    BY <1>1, <1>2, SeqEqual
  <1> QED BY <1>3 DEF v

LEMMA TwoJoined ==
  ASSUME NEW a, NEW b
  PROVE  <<a>> \o <<b>> = <<a, b>>
  <1> DEFINE u == <<a>> \o <<b>>
             v == <<a, b>>
  <1>1. u \in Seq({a, b}) /\ Len(u) = 2 /\ u[1] = a /\ u[2] = b
    OBVIOUS
  <1>2. v \in Seq({a, b}) /\ Len(v) = 2 /\ v[1] = a /\ v[2] = b
    OBVIOUS
  <1> HIDE DEF u, v
  <1>3. \A i \in 1 .. Len(u) : i = 1 \/ i = 2
    BY <1>1
  <1>4. \A i \in 1 .. Len(u) : u[i] = v[i]
    BY <1>1, <1>2, <1>3
  <1>5. u = v
    BY <1>1, <1>2, <1>4, SeqEqual
  <1> QED BY <1>5 DEF u, v

LEMMA TwoHalves ==
  ASSUME NEW S, NEW a \in S, NEW b \in S
  PROVE  /\ SubSeq(<<a, b>>, 1, 1) = <<a>> /\ SubSeq(<<a, b>>, 2, 2) = <<b>>
         /\ <<a>> \o <<b>> = <<a, b>>
  <1> DEFINE u == <<a, b>>
             p == SubSeq(u, 1, 1)
             q == SubSeq(u, 2, 2)
  <1>1. u \in Seq(S) /\ Len(u) = 2 /\ u[1] = a /\ u[2] = b
    OBVIOUS
  <1> HIDE DEF u
  <1>2. /\ p \in Seq(S) /\ Len(p) = 1 /\ p[1] = a
        /\ q \in Seq(S) /\ Len(q) = 1 /\ q[1] = b
    BY <1>1
  <1> HIDE DEF p, q
  <1>3. p = <<a>> /\ q = <<b>>
    BY <1>2, OneEqual
  <1> QED BY <1>3, TwoJoined DEF u, p, q

LEMMA GoodJoin ==
  ASSUME NEW c, NEW L, NEW S, NEW u \in Seq(S), NEW v \in Seq(S), Whole(c, L, u),
         Good(c, L, v), Apart(u, v)
  PROVE  Good(c, L, u \o v)
  <1> DEFINE r == u \o v
             m == Len(u)
  <1>1. /\ r \in Seq(S) /\ Len(r) = m + Len(v) /\ m \in Nat /\ Len(v) \in Nat
        /\ \A i \in 1 .. m : r[i] = u[i]
        /\ \A i \in 1 .. Len(v) : r[m + i] = v[i]
    BY JoinLen
  <1>2. ASSUME NEW i \in 1 .. Len(r)
        PROVE  (i \in 1 .. m /\ r[i] = u[i]) \/ \E j \in 1 .. Len(v) : i = m + j /\ r[i] = v[j]
    BY JoinAt
  <1> HIDE DEF r, m
  <1>3. Own(c, r)
    <2>1. Own(c, u) /\ Own(c, v)
      BY DEF Whole, Good
    <2> QED BY <1>2, <2>1 DEF Own, m
  <1>4. ASSUME NEW i \in 1 .. Len(r), r[i].part = "body"
        PROVE  i > 1 /\ r[i - 1] = HeadOf(r[i])
    <2>1. CASE i \in 1 .. m /\ r[i] = u[i]
      <3>1. i > 1 /\ u[i - 1] = HeadOf(u[i])
        BY <1>4, <2>1 DEF Whole, Good, Headed, m
      <3>2. i - 1 \in 1 .. m
        BY <1>1, <2>1, <3>1
      <3> QED BY <1>1, <2>1, <3>1, <3>2
    <2>2. CASE \E j \in 1 .. Len(v) : i = m + j /\ r[i] = v[j]
      <3>1. PICK j \in 1 .. Len(v) : i = m + j /\ r[i] = v[j]
        BY <2>2
      <3>2. j > 1 /\ v[j - 1] = HeadOf(v[j])
        BY <1>4, <3>1 DEF Good, Headed
      <3>3. j - 1 \in 1 .. Len(v) /\ i - 1 = m + (j - 1)
        BY <1>1, <3>1, <3>2
      <3>4. r[i - 1] = v[j - 1]
        BY <1>1, <3>3
      <3> QED BY <1>1, <3>1, <3>2, <3>4
    <2> QED BY <1>2, <2>1, <2>2
  <1>5. ASSUME NEW i \in 1 .. Len(r), r[i].part = "head", i < Len(r)
        PROVE  r[i + 1] = BodyOf(r[i]) \/ BodyOf(r[i]) \in L
    <2>1. CASE i \in 1 .. m /\ r[i] = u[i]
      <3>1. CASE i < m
        <4>1. u[i + 1] = BodyOf(u[i]) \/ BodyOf(u[i]) \in L
          BY <1>5, <2>1, <3>1 DEF Whole, Good, Followed, m
        <4>2. i + 1 \in 1 .. m
          BY <1>1, <2>1, <3>1
        <4> QED BY <1>1, <2>1, <4>1, <4>2
      <3>2. CASE i = m
        BY <1>5, <2>1, <3>2 DEF Whole, Closed, m
      <3> QED BY <1>1, <2>1, <3>1, <3>2
    <2>2. CASE \E j \in 1 .. Len(v) : i = m + j /\ r[i] = v[j]
      <3>1. PICK j \in 1 .. Len(v) : i = m + j /\ r[i] = v[j]
        BY <2>2
      <3>2. j < Len(v)
        BY <1>1, <1>5, <3>1
      <3>3. v[j + 1] = BodyOf(v[j]) \/ BodyOf(v[j]) \in L
        BY <1>5, <3>1, <3>2 DEF Good, Followed
      <3>4. j + 1 \in 1 .. Len(v) /\ i + 1 = m + (j + 1)
        BY <1>1, <3>1, <3>2
      <3>5. r[i + 1] = v[j + 1]
        BY <1>1, <3>4
      <3> QED BY <3>1, <3>3, <3>5
    <2> QED BY <1>2, <2>1, <2>2
  <1>6. ASSUME NEW i \in 1 .. Len(r), NEW j \in 1 .. Len(r), r[i] = r[j] PROVE i = j
    <2>1. (i \in 1 .. m /\ r[i] = u[i]) \/ \E k \in 1 .. Len(v) : i = m + k /\ r[i] = v[k]
      BY <1>2
    <2>2. (j \in 1 .. m /\ r[j] = u[j]) \/ \E k \in 1 .. Len(v) : j = m + k /\ r[j] = v[k]
      BY <1>2
    <2>3. Once(u) /\ Once(v)
      BY DEF Whole, Good
    <2> QED BY <1>6, <2>1, <2>2, <2>3 DEF Once, Apart, m
  <1>7. Headed(r) /\ Followed(L, r) /\ Once(r)
    BY <1>4, <1>5, <1>6 DEF Headed, Followed, Once
  <1> QED BY <1>3, <1>7 DEF Good, r

LEMMA WholeJoin ==
  ASSUME NEW c, NEW L, NEW S, NEW u \in Seq(S), NEW v \in Seq(S), Whole(c, L, u),
         Whole(c, L, v), Apart(u, v)
  PROVE  Whole(c, L, u \o v)
  <1> DEFINE r == u \o v
  <1>1. Good(c, L, r)
    BY GoodJoin DEF Whole
  <1>2. r \in Seq(S) /\ Len(r) = Len(u) + Len(v) /\ Len(u) \in Nat /\ Len(v) \in Nat
    BY JoinLen
  <1>3. ASSUME NEW i \in 1 .. Len(r)
        PROVE  \/ i \in 1 .. Len(u) /\ r[i] = u[i]
               \/ \E j \in 1 .. Len(v) : i = Len(u) + j /\ r[i] = v[j]
    BY JoinAt
  <1> HIDE DEF r
  <1>4. ASSUME NEW i \in 1 .. Len(r), i = Len(r), r[i].part = "head" PROVE BodyOf(r[i]) \in L
    <2>1. CASE i \in 1 .. Len(u) /\ r[i] = u[i]
      <3>1. i = Len(u)
        BY <1>2, <1>4, <2>1
      <3> QED BY <1>4, <2>1, <3>1 DEF Whole, Closed
    <2>2. CASE \E j \in 1 .. Len(v) : i = Len(u) + j /\ r[i] = v[j]
      <3>1. PICK j \in 1 .. Len(v) : i = Len(u) + j /\ r[i] = v[j]
        BY <2>2
      <3>2. j = Len(v)
        BY <1>2, <1>4, <3>1
      <3> QED BY <1>4, <3>1, <3>2 DEF Whole, Closed
    <2> QED BY <1>3, <2>1, <2>2
  <1> QED BY <1>1, <1>4 DEF Whole, Closed, r

LEMMA NothingWhole ==
  ASSUME NEW c, NEW L, NEW k
  PROVE  /\ <<>> \in Seq(UnitsOf) /\ Whole(c, L, <<>>) /\ Below(k, <<>>)
         /\ \A u : Apart(u, <<>>) /\ Apart(<<>>, u)
  <1>1. Len(<<>>) = 0 /\ 1 .. 0 = {}
    OBVIOUS
  <1> QED BY <1>1 DEF Whole, Good, Own, Headed, Followed, Once, Closed, Below, Apart

\* The units of the frame made next, and the first of them alone when the other one is lost.
LEMMA UnitsWhole ==
  ASSUME NEW c \in Conns, NEW k \in Nat, NEW L
  PROVE  LET U == Units(c, k + 1) IN
           /\ U \in Seq(UnitsOf) /\ Len(U) = 2 /\ Whole(c, L, U) /\ Below(k + 1, U)
           /\ SubSeq(U, 1, 1) \in Seq(UnitsOf) /\ SubSeq(U, 2, 2) \in Seq(UnitsOf)
           /\ SubSeq(U, 1, 1) \o SubSeq(U, 2, 2) = U /\ Below(k + 1, SubSeq(U, 1, 1))
           /\ ToSet(U) \ ToSet(SubSeq(U, 1, 1)) \subseteq L => Whole(c, L, SubSeq(U, 1, 1))
  <1> DEFINE a == [conn |-> c, n |-> k + 1, part |-> "head"]
             b == [conn |-> c, n |-> k + 1, part |-> "body"]
             u == <<a, b>>
             w == <<a>>
  <1>1. Units(c, k + 1) = u /\ k + 1 \in Nat
    BY DEF Units
  <1>2. /\ a \in UnitsOf /\ b \in UnitsOf /\ a # b /\ a.conn = c /\ b.conn = c
        /\ a.n = k + 1 /\ b.n = k + 1 /\ a.part = "head" /\ b.part = "body"
        /\ a = HeadOf(b) /\ b = BodyOf(a)
    BY <1>1 DEF UnitsOf, HeadOf, BodyOf
  <1> HIDE DEF a, b
  <1>3. u \in Seq(UnitsOf) /\ Len(u) = 2 /\ u[1] = a /\ u[2] = b
    BY <1>2
  <1>4. SubSeq(u, 1, 1) = w /\ SubSeq(u, 2, 2) = <<b>> /\ w \o <<b>> = u
    BY <1>2, TwoHalves
  <1>5. w \in Seq(UnitsOf) /\ <<b>> \in Seq(UnitsOf) /\ Len(w) = 1 /\ w[1] = a
    BY <1>2
  <1>6. b \in ToSet(u) /\ b \notin ToSet(w)
    <2>1. ToSet(u) = {u[i] : i \in 1 .. 2} /\ ToSet(w) = {w[i] : i \in 1 .. 1}
      BY <1>3, <1>5 DEF ToSet
    <2> QED BY <1>2, <1>3, <1>5, <2>1
  <1> HIDE DEF u, w
  <1>7. Whole(c, L, u)
    <2>1. \A i \in 1 .. Len(u) : i = 1 \/ i = 2
      BY <1>3
    <2>2. Own(c, u) /\ Once(u) /\ Closed(L, u)
      BY <1>2, <1>3, <2>1 DEF Own, Once, Closed
    <2>3. Headed(u)
      BY <1>2, <1>3, <2>1 DEF Headed
    <2>4. Followed(L, u)
      BY <1>2, <1>3, <2>1 DEF Followed
    <2> QED BY <2>2, <2>3, <2>4 DEF Whole, Good
  <1>8. ASSUME ToSet(u) \ ToSet(w) \subseteq L PROVE Whole(c, L, w)
    <2>1. \A i \in 1 .. Len(w) : i = 1 /\ w[i] = a
      BY <1>5
    <2>2. Own(c, w) /\ Once(w) /\ Headed(w) /\ Followed(L, w)
      BY <1>2, <1>5, <2>1 DEF Own, Once, Headed, Followed
    <2>3. Closed(L, w)
      BY <1>2, <1>6, <1>8, <2>1 DEF Closed
    <2> QED BY <2>2, <2>3 DEF Whole, Good
  <1>9. Below(k + 1, u) /\ Below(k + 1, w)
    BY <1>2, <1>3, <1>5 DEF Below
  <1> QED BY <1>1, <1>3, <1>4, <1>5, <1>7, <1>8, <1>9

\* What a queue takes of a frame; the rest is lost.
Fits(c, L, m, u) ==
  /\ u \in Seq(UnitsOf) /\ Whole(c, L, u) /\ Below(m, u)
  /\ \A j \in 1 .. Len(u) : u[j].n = m

LEMMA TakenWhole ==
  ASSUME NEW c \in Conns, NEW k \in Nat, NEW L, NEW s, NEW U, U = Units(c, k + 1),
         NEW u, u \in Taken(s, U), ToSet(U) \ ToSet(u) \subseteq L
  PROVE  Fits(c, L, k + 1, u)
  <1>1. /\ U \in Seq(UnitsOf) /\ Len(U) = 2 /\ Whole(c, L, U) /\ Below(k + 1, U)
        /\ SubSeq(U, 1, 1) \in Seq(UnitsOf) /\ Below(k + 1, SubSeq(U, 1, 1))
        /\ ToSet(U) \ ToSet(SubSeq(U, 1, 1)) \subseteq L => Whole(c, L, SubSeq(U, 1, 1))
    BY UnitsWhole
  <1>2. \A i \in 1 .. 2 : U[i].n = k + 1
    BY DEF Units
  <1>3. PICK j \in 0 .. Len(U) : u = SubSeq(U, 1, j)
    BY DEF Taken
  <1>4. CASE j = 0
    <2>1. u = <<>>
      BY <1>1, <1>3, <1>4
    <2>2. \A i \in 1 .. Len(<<>>) : FALSE
      OBVIOUS
    <2> QED BY <2>1, <2>2, NothingWhole DEF Fits
  <1>5. CASE j = 1
    <2>1. u = SubSeq(U, 1, 1) /\ Len(u) = 1 /\ u[1] = U[1]
      BY <1>1, <1>3, <1>5
    <2> QED BY <1>1, <1>2, <2>1 DEF Fits
  <1>6. CASE j = 2
    <2>1. u = SubSeq(U, 1, 2)
      BY <1>3, <1>6
    <2>2. u \in Seq(UnitsOf) /\ Len(u) = 2 /\ \A i \in 1 .. 2 : u[i] = U[i]
      <3>1. U \in Seq(UnitsOf) /\ Len(U) = 2
        BY <1>1
      <3>2. 2 \in 0 .. 2
        OBVIOUS
      <3>3. 2 \in 0 .. Len(U)
        BY <3>1, <3>2, Zenon
      <3> QED BY <2>1, <3>1, <3>3, PartIs
    <2>3. u = U
      BY <1>1, <2>2, SeqEqual
    <2> QED BY <1>1, <1>2, <2>3 DEF Fits
  <1> QED BY <1>1, <1>3, <1>4, <1>5, <1>6

\* The frame made next has no unit in common with those made before it.
LEMMA UnitsApart ==
  ASSUME NEW k \in Nat, NEW u \in Seq(UnitsOf), Below(k, u),
         NEW v, \A j \in 1 .. Len(v) : v[j].n = k + 1
  PROVE  Apart(u, v) /\ Apart(v, u)
  <1>1. \A i \in 1 .. Len(u) : u[i].n \in Nat /\ u[i].n <= k
    <2>1. \A i \in 1 .. Len(u) : u[i] \in UnitsOf
      OBVIOUS
    <2> QED BY <2>1 DEF UnitsOf, Below
  <1>2. ASSUME NEW i \in 1 .. Len(u), NEW j \in 1 .. Len(v) PROVE u[i] # v[j]
    <2>1. u[i].n \in Nat /\ u[i].n <= k /\ v[j].n = k + 1
      BY <1>1
    <2> QED BY <2>1
  <1>3. Apart(u, v)
    BY <1>2 DEF Apart
  <1> QED BY <1>3, ApartTurns

-----------------------------------------------------------------------------
(* What is on the wire of a connection, what a thread is about to put there and what is
   queued: for a connection that is up these three, in a row, are whole frames. *)

Later(q) == Head(Tail(q))
Rest(q) == IF Later(q).op = "sending" THEN Head(q).units \o Later(q).units ELSE Head(q).units

Quiet(c, L, W, T) == Whole(c, L, W) /\ Apart(W, T)
Answering(c, L, k, W, R, T) ==
  R \in Seq(UnitsOf) /\ Whole(c, L, W \o R) /\ Below(k, R) /\ Apart(W \o R, T)
UnitsTyped(q) ==
  /\ Head(q).units \in Seq(UnitsOf)
  /\ Later(q).op = "sending" => Later(q).units \in Seq(UnitsOf)

\* Thread t holds the frame lock of a slot and has the list q, or None does.
Phase(t, q, c, L, k, W, T) ==
  \/ t = None /\ Quiet(c, L, W, T)
  \/ t \in Threads /\ Head(q).op = "release" /\ Quiet(c, L, W, T)
  \/ t \in Threads /\ Head(q).op = "empty" /\ Whole(c, L, W)
  \/ t \in Threads \ Slots /\ Head(q).op = "sending" /\ Quiet(c, L, W, T) /\ Head(q).units = T
  \/ t \in Slots /\ Head(q).op = "sending" /\ UnitsTyped(q) /\ Answering(c, L, k, W, Rest(q), T)

Line(t, q, c, L, k, W, T) ==
  /\ T \in Seq(UnitsOf) /\ Whole(c, L, T) /\ Below(k, T) /\ Below(k, W)
  /\ Phase(t, q, c, L, k, W, T)

Aligned(s) ==
  Up(s) => Line(frame[s], proc[frame[s]], slot[s].conn, lost[slot[s].conn],
                Len(made[slot[s].conn]), wire[slot[s].conn], tx[s])

StreamsType ==
  /\ wire = [c \in Conns |-> wire[c]] /\ made \in [Conns -> Seq({"core", "self"})]
  /\ tx = [s \in Slots |-> tx[s]] /\ lost = [c \in Conns |-> lost[c]]
WiresGood == \A c \in Conns \ inherited : wire[c] \in Seq(UnitsOf) /\ Good(c, lost[c], wire[c])
Unheard == \A c \in Conns : c \notin Known => wire[c] = <<>>
AllAligned == \A s \in Slots : Aligned(s)
Streams == StreamsType /\ WiresGood /\ Unheard /\ AllAligned

\* Nothing that was lost comes back, and no connection becomes clean again.
Loses == /\ \A c \in Conns : lost[c] \subseteq lost'[c]
         /\ inherited \subseteq inherited' /\ down \subseteq down'

LEMMA StreamsInit == Init => Streams
  <1> SUFFICES ASSUME Init PROVE Streams
    OBVIOUS
  <1>1. StreamsType
    BY NothingWhole DEF Init, StreamsType
  <1>2. WiresGood /\ Unheard
    BY NothingWhole DEF Init, WiresGood, Unheard, Whole
  <1>3. AllAligned
    BY DEF Init, AllAligned, Aligned, Up
  <1> QED BY <1>1, <1>2, <1>3 DEF Streams

LEMMA GoodIsWhole == Streams => WholeFrames
  <1> SUFFICES ASSUME Streams, NEW c \in Conns \ inherited
               PROVE  /\ IsInjective(wire[c])
                      /\ \A i \in DOMAIN wire[c] : LET u == wire[c][i] IN
                           /\ u.conn = c
                           /\ u.part = "body" => i > 1 /\ wire[c][i - 1] = [u EXCEPT !.part = "head"]
                           /\ u.part = "head" /\ i < Len(wire[c]) =>
                                LET payload == [u EXCEPT !.part = "body"] IN
                                  wire[c][i + 1] = payload \/ payload \in lost[c]
    BY DEF WholeFrames
  <1>1. /\ Good(c, lost[c], wire[c]) /\ wire[c] \in Seq(UnitsOf)
        /\ DOMAIN wire[c] = 1 .. Len(wire[c])
    BY DEF Streams, WiresGood
  <1>2. IsInjective(wire[c])
    BY <1>1 DEF Good, Once, IsInjective
  <1>3. ASSUME NEW i \in 1 .. Len(wire[c])
        PROVE  /\ wire[c][i].conn = c
               /\ wire[c][i].part = "body" => i > 1 /\ wire[c][i - 1] = HeadOf(wire[c][i])
               /\ wire[c][i].part = "head" /\ i < Len(wire[c]) =>
                    wire[c][i + 1] = BodyOf(wire[c][i]) \/ BodyOf(wire[c][i]) \in lost[c]
    BY <1>1 DEF Good, Own, Headed, Followed
  <1> QED BY <1>1, <1>2, <1>3 DEF HeadOf, BodyOf

-----------------------------------------------------------------------------
(* Slots a step has nothing to do with *)

LEMMA LineGrows ==
  ASSUME NEW t, NEW q, NEW p, t \in Threads => p = q, NEW c, NEW k \in Nat, NEW m \in Nat, k <= m,
         NEW L, NEW M, L \subseteq M,
         NEW W \in Seq(UnitsOf), NEW T, Line(t, q, c, L, k, W, T)
  PROVE  Line(t, p, c, M, m, W, T)
  <1>1. T \in Seq(UnitsOf) /\ Below(m, T) /\ Below(m, W) /\ Whole(c, M, T)
    BY BelowMore, GoodMore DEF Line
  <1>2. \A w : Whole(c, L, w) => Whole(c, M, w)
    BY GoodMore
  <1>3. CASE t \in Threads
    <2>1. Answering(c, L, k, W, Rest(q), T) => Answering(c, M, m, W, Rest(q), T)
      BY <1>2, BelowMore DEF Answering
    <2>2. Quiet(c, L, W, T) => Quiet(c, M, W, T)
      BY <1>2 DEF Quiet
    <2> QED BY <1>1, <1>2, <1>3, <2>1, <2>2 DEF Line, Phase
  <1>4. CASE t \notin Threads
    <2>1. t = None /\ Quiet(c, L, W, T)
      BY <1>4, NoneApart DEF Line, Phase
    <2>2. Quiet(c, M, W, T)
      BY <1>2, <2>1 DEF Quiet
    <2> QED BY <1>1, <2>1, <2>2 DEF Line, Phase
  <1> QED BY <1>3, <1>4

LEMMA AlignedStays ==
  ASSUME StreamsType, StreamsType', WiresGood, BooksType, NEW s \in Slots, Aligned(s), Loses,
         tx'[s] = tx[s], frame'[s] = frame[s], slot'[s].conn = slot[s].conn,
         Up(s) => /\ wire'[slot[s].conn] = wire[slot[s].conn]
                  /\ Len(made'[slot[s].conn]) >= Len(made[slot[s].conn]),
         frame[s] \in Threads => proc'[frame[s]] = proc[frame[s]]
  PROVE  Aligned(s)'
  <1> SUFFICES ASSUME Up(s)'
               PROVE  Line(frame'[s], proc'[frame'[s]], slot'[s].conn, lost'[slot'[s].conn],
                           Len(made'[slot'[s].conn]), wire'[slot'[s].conn], tx'[s])
    BY DEF Aligned
  <1> DEFINE c == slot[s].conn
             k == Len(made[c])
             m == Len(made'[c])
  <1>1. Up(s)
    BY DEF Up, Loses
  <1>2. c \in Conns /\ c \notin inherited
    BY <1>1 DEF BooksType, Up, Conns
  <1>3. /\ k \in Nat /\ m \in Nat /\ k <= m /\ wire[c] \in Seq(UnitsOf) /\ wire'[c] = wire[c]
        /\ lost[c] \subseteq lost'[c]
    BY <1>1, <1>2 DEF StreamsType, WiresGood, Loses
  <1>4. Line(frame[s], proc[frame[s]], c, lost[c], k, wire[c], tx[s])
    BY <1>1 DEF Aligned
  <1> HIDE DEF k, m
  <1>5. Line(frame[s], proc'[frame[s]], c, lost'[c], m, wire[c], tx[s])
    BY <1>3, <1>4, LineGrows
  <1> QED BY <1>3, <1>5 DEF m

\* A step that writes nothing, takes no frame lock and gives none back.
LEMMA StreamsStay ==
  ASSUME Streams, Books, UNCHANGED <<wire, made, tx, frame, lost, inherited>>,
         \A s \in Slots : slot'[s].conn = slot[s].conn,
         down \subseteq down', Known \subseteq Known',
         \A s \in Slots : frame[s] \in Threads => proc'[frame[s]] = proc[frame[s]]
  PROVE  Streams'
  <1>1. StreamsType'
    BY DEF Streams, StreamsType
  <1>2. WiresGood' /\ Unheard'
    BY DEF Streams, WiresGood, Unheard
  <1>3. ASSUME NEW s \in Slots PROVE Aligned(s)'
    <2>1. Up(s) => slot[s].conn \in Conns
      BY DEF Books, BooksType, Up, Conns
    <2>2. Up(s) => Len(made'[slot[s].conn]) >= Len(made[slot[s].conn])
      BY <2>1 DEF Streams, StreamsType
    <2>3. Loses
      BY DEF Loses
    <2> QED BY <1>1, <2>2, <2>3, AlignedStays DEF Streams, AllAligned, Books
  <1> QED BY <1>1, <1>2, <1>3 DEF Streams, AllAligned

\* Thread t, which holds no frame lock, goes on with the list q.
LEMMA StreamsStep ==
  ASSUME Orderly, Streams, Books, UNCHANGED <<wire, made, tx, frame, lost, inherited>>,
         \A s \in Slots : slot'[s].conn = slot[s].conn,
         down \subseteq down', Known \subseteq Known',
         NEW t \in Threads, NEW q, proc' = [proc EXCEPT ![t] = q],
         proc[t] = <<>> \/ Head(proc[t]).op \notin Framed
  PROVE  Streams'
  <1>1. \A r \in Threads : r # t => proc'[r] = proc[r]
    BY DEF Orderly, Listed
  <1>2. \A s \in Slots : frame[s] # t
    BY DEF Orderly, HolderSends
  <1> QED BY <1>1, <1>2, StreamsStay

LEMMA KnownStays ==
  ASSUME Books, UNCHANGED owner, down \subseteq down'
  PROVE  Known \subseteq Known'
  BY DEF Known

LEMMA ClosesKnown ==
  ASSUME Books, NEW s \in Slots, Closes(s)
  PROVE  Known \subseteq Known'
  <1> DEFINE f == slot[s].fd
  <1>1. /\ owner' = [owner EXCEPT ![f] = 0] /\ down' = down \cup {slot[s].conn}
        /\ ~Doing(s, "clear")
    BY DEF Closes, Doing
  <1>2. f \in Fds => owner[f] = slot[s].conn
    BY <1>1, NoneFd DEF Books, OpenFd
  <1>3. \A fd \in Fds : owner'[fd] = IF fd = f THEN 0 ELSE owner[fd]
    BY <1>1 DEF Books, BooksType
  <1>4. 0 \notin Conns
    BY DEF Conns
  <1> QED BY <1>1, <1>2, <1>3, <1>4 DEF Known

LEMMA ConnectionKeepsConns ==
  ASSUME Books, NEW s \in Slots, Serves(s) \/ Connection(s)
  PROVE  (\A r \in Slots : slot'[r].conn = slot[r].conn) /\ Known \subseteq Known'
  <1>1. \A r \in Slots : slot'[r].conn = slot[r].conn
    <2>1. CASE Clears(s)
      <3>1. slot' = [slot EXCEPT ![s].fd = None]
        BY <2>1 DEF Clears
      <3> QED BY <3>1 DEF Books, BooksType
    <2>2. CASE ~Clears(s)
      BY <2>2 DEF Serves, Connection, Attach, Answer, Ends, Detach, Closes
    <2> QED BY <2>1, <2>2
  <1>2. Known \subseteq Known'
    <2>1. CASE Closes(s)
      BY <2>1, ClosesKnown
    <2>2. CASE ~Closes(s)
      <3>1. UNCHANGED <<owner, down>>
        BY <2>2 DEF Serves, Connection, Attach, Answer, Ends, Detach, Clears, kernel
      <3> QED BY <3>1, KnownStays
    <2> QED BY <2>1, <2>2
  <1> QED BY <1>1, <1>2

LEMMA ConnectionStreams ==
  ASSUME Orderly, Books, Streams, NEW s \in Slots, Serves(s) \/ Connection(s)
  PROVE  Streams'
  <1>1. UNCHANGED <<wire, made, tx, frame, lost, inherited>> /\ down \subseteq down' /\ s \in Threads
    BY NoneApart DEF Serves, Connection, Attach, Answer, Ends, Detach, Closes, Clears, kernel,
                     history
  <1>2. PICK q : proc' = [proc EXCEPT ![s] = q]
    BY DEF Serves, Connection, Attach, Answer, Ends, Detach, Closes, Clears, Begin, Done, Then
  <1>3. proc[s] = <<>> \/ Head(proc[s]).op \notin Framed
    BY DEF Serves, Connection, Attach, Answer, Ends, Detach, Closes, Clears, Begin, Doing, Framed
  <1> QED BY <1>1, <1>2, <1>3, ConnectionKeepsConns, StreamsStep

LEMMA CallersStreams ==
  ASSUME Orderly, Books, Streams,
         Ticks \/ Calls \/ \E t \in Threads : Unlock(t) \/ Core(t)
  PROVE  Streams'
  <1>1. UNCHANGED <<wire, made, tx, frame, slot, owner, down, lost, inherited>>
    BY DEF Ticks, Calls, Unlock, Core, kernel, history
  <1>2. PICK t, q :
        /\ t \in Threads /\ proc' = [proc EXCEPT ![t] = q]
        /\ proc[t] = <<>> \/ Head(proc[t]).op \notin Framed
    BY DEF Ticks, Calls, Unlock, Core, Begin, Done, Then, Doing, Threads, Framed
  <1> QED BY <1>1, <1>2, KnownStays, StreamsStep

LEMMA ShutStreams ==
  ASSUME Orderly, Books, Streams,
         AppLeaves \/ Watchdog \/ UNCHANGED vars \/ \E t \in Threads : Parks(t)
  PROVE  Streams'
  <1>1. /\ UNCHANGED <<wire, made, tx, frame, slot, owner, proc, lost, inherited>>
        /\ down \subseteq down'
    BY DEF AppLeaves, Watchdog, Parks, vars, kernel, history
  <1> QED BY <1>1, KnownStays, StreamsStay

\* A new connection has a slot with nothing queued and nothing on its wire.
LEMMA AcceptsStreams ==
  ASSUME Orderly, Books, Streams, NEW s \in Slots, Accepts(s)
  PROVE  Streams'
  <1> DEFINE k == Accepted + 1
  <1>1. PICK fd \in Fds :
          /\ owner[fd] = 0
          /\ owner' = [owner EXCEPT ![fd] = k]
          /\ slot' = [slot EXCEPT ![s] = [fd |-> fd, conn |-> k]]
          /\ OnItsWay(s, fd) => k \in inherited'
          /\ inherited \subseteq inherited'
    BY AcceptsMakes
  <1>2. UNCHANGED <<down, wire, made, frame, lost>> /\ tx' = [tx EXCEPT ![s] = <<>>]
        /\ Accepted < MaxConns
    BY DEF Accepts
  <1>3. k \in Conns /\ k \notin Known
    BY <1>2, AcceptedIs
  <1> HIDE DEF k
  <1>4. frame[s] = None \/ k \in inherited'
    BY <1>1 DEF OnItsWay
  <1>5. \A r \in Threads : r # s => proc'[r] = proc[r]
    <2>1. PICK q : proc' = [proc EXCEPT ![s] = q]
      BY DEF Accepts, Begin
    <2> QED BY <2>1 DEF Orderly, Listed
  <1>6. Known \subseteq Known'
    <2>1. \A f \in Fds : owner'[f] = owner[f] \/ owner[f] = 0
      BY <1>1 DEF Books, BooksType
    <2>2. 0 \notin Conns
      BY DEF Conns
    <2> QED BY <1>2, <2>1, <2>2 DEF Known
  <1>7. StreamsType'
    BY <1>2 DEF Streams, StreamsType
  <1>8. WiresGood' /\ Unheard'
    BY <1>1, <1>2, <1>6 DEF Streams, WiresGood, Unheard
  <1>9. Loses
    BY <1>1, <1>2 DEF Loses
  <1>10. ASSUME NEW r \in Slots PROVE Aligned(r)'
    <2>1. CASE r = s
      <3>1. slot'[s].conn = k /\ tx'[s] = <<>> /\ wire'[k] = <<>>
        BY <1>1, <1>2, <1>3 DEF Books, BooksType, Streams, StreamsType, Unheard
      <3>2. Up(s)' => frame'[s] = None
        BY <1>2, <1>4, <3>1 DEF Up
      <3> DEFINE q == proc'[frame'[s]]
                 m == Len(made'[k])
                 L == lost'[k]
      <3> HIDE DEF q, m, L
      <3>3. Line(None, q, k, L, m, <<>>, <<>>)
        BY NothingWhole DEF Line, Phase, Quiet
      <3> QED BY <2>1, <3>1, <3>2, <3>3 DEF Aligned, q, m, L
    <2>2. CASE r # s
      <3>1. slot'[r] = slot[r] /\ tx'[r] = tx[r]
        BY <1>1, <1>2, <2>2 DEF Books, BooksType, Streams, StreamsType
      <3>2. frame[r] # s
        BY NoneApart DEF Orderly, HolderSends, Accepts, Begin
      <3>3. Up(r) => Len(made'[slot[r].conn]) >= Len(made[slot[r].conn])
        <4>1. Up(r) => slot[r].conn \in Conns
          BY DEF Books, BooksType, Up, Conns
        <4> QED BY <1>2, <4>1 DEF Streams, StreamsType
      <3>4. frame[r] \in Threads => proc'[frame[r]] = proc[frame[r]]
        BY <1>5, <3>2
      <3>5. Aligned(r) /\ StreamsType /\ WiresGood /\ BooksType
        BY DEF Streams, AllAligned, Books
      <3> QED BY <1>2, <1>7, <1>9, <3>1, <3>3, <3>4, <3>5, AlignedStays
    <2> QED BY <2>1, <2>2
  <1> QED BY <1>7, <1>8, <1>10 DEF Streams, AllAligned

-----------------------------------------------------------------------------
(* Writing *)

\* Thread t, at slot s, leaves the other slots' lines as they are.
LEMMA AllAlignedBut ==
  ASSUME Orderly, Books, Streams, StreamsType', NEW t \in Threads, NEW q,
         proc' = [proc EXCEPT ![t] = q], UNCHANGED slot, Loses, NEW s \in Slots,
         \A r \in Slots : frame[r] = t => r = s,
         \A r \in Slots \ {s} :
           /\ tx'[r] = tx[r] /\ frame'[r] = frame[r]
           /\ Up(r) => wire'[slot[r].conn] = wire[slot[r].conn],
         \A c \in Conns : Len(made'[c]) >= Len(made[c]),
         Aligned(s)'
  PROVE  AllAligned'
  <1>1. \A r \in Threads : r # t => proc'[r] = proc[r]
    BY DEF Orderly, Listed
  <1> SUFFICES ASSUME NEW r \in Slots, r # s PROVE Aligned(r)'
    BY DEF AllAligned
  <1>2. frame[r] # t
    OBVIOUS
  <1>3. Up(r) => slot[r].conn \in Conns
    BY DEF Books, BooksType, Up, Conns
  <1>4. Aligned(r) /\ StreamsType /\ WiresGood /\ BooksType
    BY DEF Streams, AllAligned, Books
  <1>5. frame[r] \in Threads => proc'[frame[r]] = proc[frame[r]]
    BY <1>1, <1>2
  <1>6. Up(r) => /\ wire'[slot[r].conn] = wire[slot[r].conn]
                 /\ Len(made'[slot[r].conn]) >= Len(made[slot[r].conn])
    BY <1>3
  <1> QED BY <1>4, <1>5, <1>6, AlignedStays

\* Frames are counted as they are made.
LEMMA MakesMore ==
  ASSUME StreamsType, NEW c, NEW by \in {"core", "self"}, Make(c, by)
  PROVE  /\ made' \in [Conns -> Seq({"core", "self"})]
         /\ \A d \in Conns : Len(made[d]) \in Nat /\ Len(made'[d]) >= Len(made[d])
         /\ c \in Conns => Len(made'[c]) = Len(made[c]) + 1
  <1>1. \A d \in Conns : /\ made'[d] = IF d = c THEN Append(made[d], by) ELSE made[d]
                         /\ made[d] \in Seq({"core", "self"})
    BY DEF Make, StreamsType
  <1>2. made' = [d \in Conns |-> made'[d]]
    BY DEF Make, StreamsType
  <1>3. \A d \in Conns : Append(made[d], by) \in Seq({"core", "self"})
                         /\ Len(Append(made[d], by)) = Len(made[d]) + 1 /\ Len(made[d]) \in Nat
    BY <1>1
  <1> QED BY <1>1, <1>2, <1>3

\* Who a list says is written to.
LEMMA WritesAt ==
  ASSUME Orderly, NEW t \in Threads, proc[t] # <<>>,
         Head(proc[t]).op \in {"write", "reply", "flush"}
  PROVE  At(t) \in Slots /\ (Head(proc[t]).op = "reply" => t \in Slots /\ At(t) = t)
         /\ (Head(proc[t]).op = "flush" => t \notin Slots)
  <1>1. PICK S : proc[t] \in Seq(S)
    BY DEF Orderly, Listed
  <1>2. 1 \in 1 .. Len(proc[t]) /\ proc[t][1] = Head(proc[t]) /\ Apt(t, proc[t])
    BY <1>1 DEF Orderly, Lists
  <1> QED BY <1>2 DEF Apt, At

LEMMA SameList ==
  ASSUME Listed, NEW t \in Threads, UNCHANGED proc
  PROVE  proc' = [proc EXCEPT ![t] = proc[t]]
  BY DEF Listed

\* What a queue did not take is lost.
LEMMA LosesMore ==
  ASSUME StreamsType, NEW c, NEW X, lost' = [lost EXCEPT ![c] = @ \cup X],
         UNCHANGED <<down, inherited>>
  PROVE  /\ Loses /\ lost' = [d \in Conns |-> lost'[d]]
         /\ c \in Conns => lost'[c] = lost[c] \cup X
  BY DEF StreamsType, Loses

LEMMA WriteStreams ==
  ASSUME Orderly, Books, Streams, NEW t \in Threads, Write(t), NEW s \in Slots, s = At(t)
  PROVE  Streams'
  <1> DEFINE c == slot[s].conn
             k == Len(made[c])
             U == NextUnits(c)
  <1>1. /\ proc[t] # <<>> /\ Head(proc[t]).op = "write" /\ frame[s] = None
        /\ UNCHANGED <<frame, slot, owner, down, wire, inherited>>
    BY DEF Write, Doing, FrameFree, kernel
  <1>2. PICK q : proc' = [proc EXCEPT ![t] = q]
    BY SameList DEF Write, Done, Orderly
  <1>3. CASE UNCHANGED <<tx, made, lost>>
    BY <1>1, <1>2, <1>3, KnownStays, StreamsStep DEF Framed
  <1>4. ASSUME NEW u \in Taken(s, U), tx' = [tx EXCEPT ![s] = Queued(s, u)], Make(c, "core"),
               lost' = [lost EXCEPT ![c] = @ \cup (ToSet(U) \ ToSet(u))]
        PROVE  Streams'
    <2>1. /\ made' \in [Conns -> Seq({"core", "self"})]
          /\ \A d \in Conns : Len(made[d]) \in Nat /\ Len(made'[d]) >= Len(made[d])
          /\ c \in Conns => Len(made'[c]) = k + 1
      BY <1>4, MakesMore DEF Streams
    <2>2. /\ Loses /\ lost' = [d \in Conns |-> lost'[d]]
          /\ c \in Conns => lost'[c] = lost[c] \cup (ToSet(U) \ ToSet(u))
      <3> DEFINE X == ToSet(U) \ ToSet(u)
      <3>1. lost' = [lost EXCEPT ![c] = @ \cup X]
        BY <1>4
      <3> HIDE DEF X, c
      <3>2. /\ Loses /\ lost' = [d \in Conns |-> lost'[d]]
            /\ c \in Conns => lost'[c] = lost[c] \cup X
        BY <1>1, <3>1, LosesMore DEF Streams
      <3> QED BY <3>2 DEF X
    <2>3. StreamsType'
      BY <1>1, <1>4, <2>1, <2>2 DEF Streams, StreamsType
    <2>4. WiresGood' /\ Unheard'
      <3>1. \A d \in Conns : Good(d, lost[d], wire[d]) => Good(d, lost'[d], wire[d])
        BY <2>2, GoodMore DEF Loses
      <3> QED BY <1>1, <3>1 DEF Streams, WiresGood, Unheard, Known
    <2>5. tx'[s] = tx[s] \o u /\ \A r \in Slots \ {s} : tx'[r] = tx[r]
      BY <1>4 DEF Streams, StreamsType, Queued
    <2>6. ASSUME Up(s)
          PROVE  Line(None, proc'[frame'[s]], c, lost'[c], k + 1, wire[c], tx'[s])
      <3>1. c \in Conns /\ k \in Nat /\ k + 1 \in Nat /\ wire[c] \in Seq(UnitsOf)
        BY <2>1, <2>6 DEF Books, BooksType, Up, Conns, Streams, WiresGood
      <3>2. Line(None, proc[None], c, lost[c], k, wire[c], tx[s])
        BY <1>1, <2>6 DEF Streams, AllAligned, Aligned
      <3>3. lost[c] \subseteq lost'[c] /\ ToSet(U) \ ToSet(u) \subseteq lost'[c]
        BY <2>2, <3>1
      <3> DEFINE W == wire[c]
                 T == tx[s]
                 L == lost[c]
                 M == lost'[c]
      <3>4. U = Units(c, k + 1)
        BY DEF NextUnits
      <3> HIDE DEF W, T, U, c, k, L, M
      <3>5. /\ T \in Seq(UnitsOf) /\ Whole(c, L, T) /\ Below(k, T) /\ Below(k, W)
            /\ Whole(c, L, W) /\ Apart(W, T)
        BY <3>2, NoneApart DEF Line, Phase, Quiet, W, T, L
      <3>6. W \in Seq(UnitsOf) /\ L \subseteq M /\ ToSet(U) \ ToSet(u) \subseteq M
        BY <3>1, <3>3 DEF W, L, M
      <3>7. Whole(c, M, T) /\ Whole(c, M, W)
        BY <3>5, <3>6, GoodMore
      <3>8. /\ u \in Seq(UnitsOf) /\ Whole(c, M, u) /\ Below(k + 1, u)
            /\ \A j \in 1 .. Len(u) : u[j].n = k + 1
        <4>1. u \in Taken(s, U)
          OBVIOUS
        <4>2. Fits(c, M, k + 1, u)
          BY <3>1, <3>4, <3>6, <4>1, TakenWhole
        <4> QED BY <4>2 DEF Fits
      <3>9. Apart(T, u) /\ Apart(W, u)
        BY <3>1, <3>5, <3>6, <3>8, UnitsApart
      <3>10. T \o u \in Seq(UnitsOf) /\ Whole(c, M, T \o u)
        BY <3>5, <3>7, <3>8, <3>9, WholeJoin
      <3>11. Below(k + 1, T) /\ Below(k + 1, W)
        BY <3>1, <3>5, <3>6, BelowMore
      <3>12. Below(k + 1, T \o u)
        BY <3>5, <3>8, <3>11, JoinBelow
      <3>13. Apart(T, W) /\ Apart(u, W)
        BY <3>5, <3>9, ApartTurns
      <3>14. Apart(W, T \o u)
        BY <3>5, <3>8, <3>13, JoinApart
      <3>15. Line(None, proc'[frame'[s]], c, M, k + 1, W, T \o u)
        BY <3>7, <3>10, <3>11, <3>12, <3>14 DEF Line, Phase, Quiet
      <3> QED BY <2>5, <3>15 DEF W, T, M
    <2>7. Aligned(s)'
      <3>1. Up(s)' => Up(s) /\ Len(made'[c]) = k + 1
        BY <1>1, <2>1 DEF Up, Books, BooksType, Conns
      <3>2. frame'[s] = None /\ slot'[s].conn = c /\ wire'[c] = wire[c]
        BY <1>1
      <3> DEFINE p == proc'[frame'[s]]
      <3> HIDE DEF c, k, p
      <3> SUFFICES ASSUME Up(s)'
                   PROVE  Line(frame'[s], p, slot'[s].conn, lost'[slot'[s].conn],
                               Len(made'[slot'[s].conn]), wire'[slot'[s].conn], tx'[s])
        BY DEF Aligned, p
      <3> QED BY <2>6, <3>1, <3>2 DEF p
    <2>8. \A r \in Slots : frame[r] # t
      BY <1>1 DEF Orderly, HolderSends, Framed
    <2> QED BY <1>1, <1>2, <2>1, <2>2, <2>3, <2>4, <2>5, <2>7, <2>8, AllAlignedBut
            DEF Streams
  <1>5. \/ UNCHANGED <<tx, made, lost>>
        \/ \E u \in Taken(s, U) :
             /\ tx' = [tx EXCEPT ![s] = Queued(s, u)] /\ Make(c, "core")
             /\ lost' = [lost EXCEPT ![c] = @ \cup (ToSet(U) \ ToSet(u))]
    BY DEF Write
  <1> QED BY <1>3, <1>4, <1>5

\* The first steps of a list that was put in front of another.
LEMMA HeadsOf ==
  ASSUME NEW a, NEW b, NEW S, NEW q \in Seq(S)
  PROVE  Head(<<a, b>> \o q) = a /\ Later(<<a, b>> \o q) = b
  <1> DEFINE T == {a, b} \cup S
             p == <<a, b>>
             r == p \o q
  <1>1. p \in Seq(T) /\ Len(p) = 2 /\ p[1] = a /\ p[2] = b /\ q \in Seq(T)
    OBVIOUS
  <1> HIDE DEF p, T
  <1>2. r \in Seq(T) /\ Len(r) >= 2 /\ r[1] = a /\ r[2] = b
    <2>1. 1 \in 1 .. Len(p) /\ 2 \in 1 .. Len(p)
      BY <1>1
    <2>2. /\ r \in Seq(T) /\ Len(r) = Len(p) + Len(q) /\ Len(q) \in Nat
          /\ \A i \in 1 .. Len(p) : r[i] = p[i]
      BY <1>1, JoinLen
    <2> QED BY <1>1, <2>1, <2>2
  <1> HIDE DEF r
  <1>3. Head(r) = a /\ Head(Tail(r)) = b
    BY <1>2, HeadOfTail
  <1> QED BY <1>3 DEF r, p, Later

LEMMA HeadsOfThree ==
  ASSUME NEW a, NEW b, NEW d, NEW S, NEW q \in Seq(S)
  PROVE  Head(<<a, b, d>> \o q) = a /\ Later(<<a, b, d>> \o q) = b
  <1> DEFINE T == {a, b, d} \cup S
             p == <<a, b, d>>
             r == p \o q
  <1>1. p \in Seq(T) /\ Len(p) = 3 /\ p[1] = a /\ p[2] = b /\ q \in Seq(T)
    OBVIOUS
  <1> HIDE DEF p, T
  <1>2. r \in Seq(T) /\ Len(r) >= 2 /\ r[1] = a /\ r[2] = b
    BY <1>1, JoinLen
  <1> HIDE DEF r
  <1>3. Head(r) = a /\ Head(Tail(r)) = b
    BY <1>2, HeadOfTail
  <1> QED BY <1>3 DEF r, p, Later

LEMMA ReplyStreams ==
  ASSUME Orderly, Books, Streams, NEW t \in Threads, Reply(t)
  PROVE  Streams'
  <1> DEFINE c == slot[t].conn
             k == Len(made[c])
             U == NextUnits(c)
             a == Send(t, SubSeq(U, 1, 1))
             b == Send(t, SubSeq(U, 2, 2))
             d == Do("release", t)
             q == <<a, b, d>> \o Tail(proc[t])
  <1>1. /\ proc[t] # <<>> /\ Head(proc[t]).op = "reply" /\ frame[At(t)] = None
        /\ UNCHANGED <<slot, owner, down, wire, tx, lost, inherited>>
    BY DEF Reply, Doing, FrameFree, kernel
  <1>2. t \in Slots /\ At(t) = t
    BY <1>1, WritesAt
  <1>3. CASE Done(t) /\ UNCHANGED <<frame, made>>
    BY <1>1, <1>3, KnownStays, StreamsStep DEF Done, Framed
  <1>4. CASE /\ proc' = [proc EXCEPT ![t] = q] /\ frame' = [frame EXCEPT ![t] = t]
             /\ Make(c, "self")
    <2>1. /\ made' \in [Conns -> Seq({"core", "self"})]
          /\ \A e \in Conns : Len(made[e]) \in Nat /\ Len(made'[e]) >= Len(made[e])
          /\ c \in Conns => Len(made'[c]) = k + 1
      BY <1>4, MakesMore DEF Streams
    <2>2. StreamsType'
      BY <1>1, <2>1 DEF Streams, StreamsType
    <2>3. WiresGood' /\ Unheard'
      BY <1>1 DEF Streams, WiresGood, Unheard, Known
    <2>4. frame'[t] = t /\ \A r \in Slots \ {t} : frame'[r] = frame[r]
      BY <1>2, <1>4 DEF Orderly, FrameType
    <2>5. PICK S : Tail(proc[t]) \in Seq(S)
      BY <1>1, TailMoves
    <2>6. Head(q) = a /\ Later(q) = b
      <3> HIDE DEF a, b, d
      <3> DEFINE z == Tail(proc[t])
      <3>1. z \in Seq(S)
        BY <2>5
      <3> HIDE DEF z
      <3>2. Head(<<a, b, d>> \o z) = a /\ Later(<<a, b, d>> \o z) = b
        BY <3>1, HeadsOfThree
      <3> QED BY <3>2 DEF z
    <2>7. /\ a.op = "sending" /\ a.units = SubSeq(U, 1, 1)
          /\ b.op = "sending" /\ b.units = SubSeq(U, 2, 2)
      BY DEF Send
    <2>8. proc'[t] = q
      BY <1>4 DEF Orderly, Listed
    <2> HIDE DEF a, b, d, q
    <2>9. ASSUME Up(t) PROVE Line(t, q, c, lost[c], k + 1, wire[c], tx[t])
      <3>1. c \in Conns /\ k \in Nat /\ k + 1 \in Nat /\ wire[c] \in Seq(UnitsOf)
        BY <1>2, <2>1, <2>9 DEF Books, BooksType, Up, Conns, Streams, WiresGood
      <3>2. Line(None, proc[None], c, lost[c], k, wire[c], tx[t])
        BY <1>1, <1>2, <2>9 DEF Streams, AllAligned, Aligned
      <3> DEFINE W == wire[c]
                 T == tx[t]
                 L == lost[c]
      <3>4. U = Units(c, k + 1) /\ \A j \in 1 .. Len(U) : U[j].n = k + 1
        BY DEF NextUnits, Units
      <3> HIDE DEF W, T, U, c, k, L
      <3>3. /\ T \in Seq(UnitsOf) /\ Whole(c, L, T) /\ Below(k, T) /\ Below(k, W)
            /\ Whole(c, L, W) /\ Apart(W, T)
        BY <3>2, NoneApart DEF Line, Phase, Quiet, W, T, L
      <3>5. /\ U \in Seq(UnitsOf) /\ Whole(c, L, U) /\ Below(k + 1, U)
            /\ SubSeq(U, 1, 1) \in Seq(UnitsOf) /\ SubSeq(U, 2, 2) \in Seq(UnitsOf)
            /\ SubSeq(U, 1, 1) \o SubSeq(U, 2, 2) = U
        BY <3>1, <3>4, UnitsWhole
      <3>6. Apart(U, T) /\ Apart(W, U)
        BY <3>1, <3>3, <3>4, UnitsApart DEF W
      <3>7. W \in Seq(UnitsOf) /\ Whole(c, L, W \o U)
        <4>1. W \in Seq(UnitsOf)
          BY <3>1 DEF W
        <4> QED BY <3>3, <3>5, <3>6, <4>1, WholeJoin
      <3>8. Below(k + 1, T) /\ Below(k + 1, W)
        BY <3>1, <3>3, <3>7, BelowMore
      <3>9. Apart(W \o U, T)
        BY <3>3, <3>5, <3>6, <3>7, JoinApart
      <3>10. Rest(q) = U
        BY <2>6, <2>7, <3>5 DEF Rest
      <3>11. UnitsTyped(q) /\ Head(q).op = "sending"
        BY <2>6, <2>7, <3>5 DEF UnitsTyped
      <3>12. Answering(c, L, k + 1, W, Rest(q), T)
        BY <3>5, <3>7, <3>9, <3>10 DEF Answering
      <3>13. Line(t, q, c, L, k + 1, W, T)
        BY <1>2, <3>3, <3>8, <3>11, <3>12 DEF Line, Phase
      <3> QED BY <3>13 DEF W, T, L
    <2>10. Aligned(t)'
      <3>1. Up(t)' => Up(t) /\ Len(made'[c]) = k + 1
        BY <1>1, <1>2, <2>1 DEF Up, Books, BooksType, Conns
      <3>2. slot'[t].conn = c /\ wire'[c] = wire[c] /\ tx'[t] = tx[t] /\ lost'[c] = lost[c]
        BY <1>1
      <3> HIDE DEF c, k
      <3> SUFFICES ASSUME Up(t)'
                   PROVE  Line(frame'[t], proc'[frame'[t]], slot'[t].conn, lost'[slot'[t].conn],
                               Len(made'[slot'[t].conn]), wire'[slot'[t].conn], tx'[t])
        BY DEF Aligned
      <3> QED BY <2>4, <2>8, <2>9, <3>1, <3>2
    <2>11. \A r \in Slots : frame[r] # t
      BY <1>1 DEF Orderly, HolderSends, Framed
    <2>12. Loses
      BY <1>1 DEF Loses
    <2> QED BY <1>1, <1>2, <1>4, <2>1, <2>2, <2>3, <2>4, <2>10, <2>11, <2>12, AllAlignedBut
            DEF Streams
  <1> QED BY <1>2, <1>3, <1>4 DEF Reply, Then

LEMMA FlushStreams ==
  ASSUME Orderly, Books, Streams, NEW t \in Threads, Flush(t), NEW s \in Slots, s = At(t)
  PROVE  Streams'
  <1> DEFINE c == slot[s].conn
             k == Len(made[c])
             a == Send(s, tx[s])
             b == Do("empty", s)
             q == <<a, b>> \o Tail(proc[t])
  <1>1. /\ proc[t] # <<>> /\ Head(proc[t]).op = "flush"
        /\ UNCHANGED <<slot, owner, down, wire, tx, made, lost, inherited>>
    BY DEF Flush, Doing, kernel, history
  <1>2. t \notin Slots
    BY <1>1, WritesAt
  <1>3. CASE Done(t) /\ UNCHANGED frame
    BY <1>1, <1>3, KnownStays, StreamsStep DEF Done, Framed
  <1>4. CASE /\ proc' = [proc EXCEPT ![t] = q] /\ frame' = [frame EXCEPT ![s] = t]
             /\ frame[s] = None
    <2>2. StreamsType'
      BY <1>1 DEF Streams, StreamsType
    <2>3. WiresGood' /\ Unheard'
      BY <1>1 DEF Streams, WiresGood, Unheard, Known
    <2>4. frame'[s] = t /\ \A r \in Slots \ {s} : frame'[r] = frame[r]
      BY <1>4 DEF Orderly, FrameType
    <2>5. PICK S : Tail(proc[t]) \in Seq(S)
      BY <1>1, TailMoves
    <2>6. Head(q) = a
      <3> HIDE DEF a, b
      <3> QED BY <2>5, HeadsOf
    <2>7. a.op = "sending" /\ a.units = tx[s]
      BY DEF Send
    <2>8. proc'[t] = q
      BY <1>4 DEF Orderly, Listed
    <2> HIDE DEF a, b, q
    <2>9. ASSUME Up(s) PROVE Line(t, q, c, lost[c], k, wire[c], tx[s])
      <3>1. Line(None, proc[None], c, lost[c], k, wire[c], tx[s])
        BY <1>4, <2>9 DEF Streams, AllAligned, Aligned
      <3> HIDE DEF c, k
      <3> QED BY <1>2, <2>6, <2>7, <3>1, NoneApart DEF Line, Phase
    <2>10. Aligned(s)'
      <3> SUFFICES ASSUME Up(s)'
                   PROVE  Line(frame'[s], proc'[frame'[s]], slot'[s].conn, lost'[slot'[s].conn],
                               Len(made'[slot'[s].conn]), wire'[slot'[s].conn], tx'[s])
        BY DEF Aligned
      <3>1. Up(s)
        BY <1>1 DEF Up
      <3> QED BY <1>1, <2>4, <2>8, <2>9, <3>1
    <2>11. \A r \in Slots : frame[r] # t
      BY <1>1 DEF Orderly, HolderSends, Framed
    <2>12. \A e \in Conns : Len(made'[e]) >= Len(made[e])
      BY <1>1 DEF Streams, StreamsType
    <2>13. Loses
      BY <1>1 DEF Loses
    <2> QED BY <1>1, <1>4, <2>2, <2>3, <2>4, <2>10, <2>11, <2>12, <2>13, AllAlignedBut
            DEF Streams
  <1> QED BY <1>3, <1>4 DEF Flush, Then, FrameFree

LEMMA ReleaseStreams ==
  ASSUME Orderly, Books, Streams, NEW t \in Threads, Release(t), NEW s \in Slots, s = At(t)
  PROVE  Streams'
  <1> DEFINE c == slot[s].conn
             k == Len(made[c])
  <1>1. /\ proc[t] # <<>> /\ Head(proc[t]).op \in {"release", "empty"}
        /\ frame' = [frame EXCEPT ![s] = None] /\ proc' = [proc EXCEPT ![t] = Tail(proc[t])]
        /\ tx' = IF Head(proc[t]).op = "empty" THEN [tx EXCEPT ![s] = <<>>] ELSE tx
        /\ UNCHANGED <<slot, owner, down, wire, made, lost, inherited>>
    BY DEF Release, Doing, Done, kernel, history
  <1>2. frame[s] = t
    BY <1>1 DEF Orderly, SenderHolds, Framed, At
  <1>3. StreamsType'
    BY <1>1 DEF Streams, StreamsType
  <1>4. WiresGood' /\ Unheard'
    BY <1>1 DEF Streams, WiresGood, Unheard, Known
  <1>5. frame'[s] = None /\ \A r \in Slots \ {s} : frame'[r] = frame[r] /\ tx'[r] = tx[r]
    BY <1>1 DEF Orderly, FrameType, Streams, StreamsType
  <1>6. tx'[s] = IF Head(proc[t]).op = "empty" THEN <<>> ELSE tx[s]
    BY <1>1 DEF Streams, StreamsType
  <1>7. ASSUME Up(s), NEW q PROVE Line(None, q, c, lost[c], k, wire[c], tx'[s])
    <2>1. Line(t, proc[t], c, lost[c], k, wire[c], tx[s])
      BY <1>2, <1>7 DEF Streams, AllAligned, Aligned
    <2> DEFINE W == wire[c]
               T == tx[s]
    <2> HIDE DEF c, k, W, T
    <2>2. CASE Head(proc[t]).op = "empty"
      <3>1. Whole(c, lost[c], W) /\ Below(k, W)
        BY <2>1, <2>2, NoneApart DEF Line, Phase, W, T
      <3>2. tx'[s] = <<>>
        BY <1>6, <2>2
      <3> QED BY <3>1, <3>2, NothingWhole DEF Line, Phase, Quiet, W
    <2>3. CASE Head(proc[t]).op # "empty"
      <3>1. Head(proc[t]).op = "release" /\ tx'[s] = tx[s]
        BY <1>1, <1>6, <2>3
      <3> QED BY <2>1, <3>1, NoneApart DEF Line, Phase
    <2> QED BY <2>2, <2>3
  <1>8. Aligned(s)'
    <2> SUFFICES ASSUME Up(s)'
                 PROVE  Line(frame'[s], proc'[frame'[s]], slot'[s].conn, lost'[slot'[s].conn],
                             Len(made'[slot'[s].conn]), wire'[slot'[s].conn], tx'[s])
      BY DEF Aligned
    <2>1. Up(s)
      BY <1>1 DEF Up
    <2> QED BY <1>1, <1>5, <1>7, <2>1
  <1>9. \A r \in Slots : frame[r] = t => r = s
    BY DEF Orderly, HolderSends, At
  <1>10. \A e \in Conns : Len(made'[e]) >= Len(made[e])
    BY <1>1 DEF Streams, StreamsType
  <1>11. Loses
    BY <1>1 DEF Loses
  <1> QED BY <1>1, <1>3, <1>4, <1>5, <1>8, <1>9, <1>10, <1>11, AllAlignedBut DEF Streams

\* A send puts what it does on the wire of the slot's own connection, or on that of one that
\* has inherited its number.
LEMMA SendsToOwn ==
  ASSUME Books, Sends, NEW t \in Threads, Doing(t, "sending"), NEW s \in Slots, s = At(t)
  PROVE  LET d == Peer(Head(proc[t]).fd) IN
           /\ Up(s) => d = slot[s].conn /\ d \in Conns
           /\ d \notin down \cup inherited \cup {0} => Up(s)
           /\ \A r \in Slots : Up(r) /\ d = slot[r].conn => r = s
           /\ d # 0 => d \in Conns /\ d \in Known
  <1> DEFINE f == Head(proc[t]).fd
             d == Peer(f)
             c == slot[s].conn
  <1>1. SendsTo(s, f)
    BY DEF Sends
  <1> HIDE DEF f
  <1>2. d = (IF f = None THEN 0 ELSE owner[f]) /\ f \in Fds \cup {None}
    BY <1>1 DEF Peer, SendsTo
  <1>3. Up(s) => d = c /\ d \in Conns
    <2> SUFFICES ASSUME Up(s) PROVE d = c /\ d \in Conns
      OBVIOUS
    <2>1. slot[s].fd # None /\ slot[s].fd \in Fds /\ owner[slot[s].fd] = slot[s].conn
      BY UpOwns
    <2>2. f = slot[s].fd
      BY <1>1 DEF SendsTo
    <2>3. c # 0 /\ c \in 0..MaxConns
      BY DEF Up, Books, BooksType
    <2>4. c \in Conns
      BY <2>3, WritesAssumption DEF Conns
    <2> QED BY <1>2, <2>1, <2>2, <2>4
  <1>4. d # 0 => f \in Fds /\ d = owner[f] /\ d \in {c} \cup inherited
    BY <1>1, <1>2 DEF SendsTo
  <1>5. d # 0 => d \in Conns /\ d \in Known
    <2>1. d # 0 => d \in 0..MaxConns
      BY <1>4 DEF Books, BooksType
    <2>2. d # 0 => d \in Conns
      BY <2>1, WritesAssumption DEF Conns
    <2> QED BY <1>4, <2>2 DEF Known
  <1>6. d \notin down \cup inherited \cup {0} => Up(s)
    BY <1>4 DEF Up
  <1>7. \A r \in Slots : Up(r) /\ d = slot[r].conn => r = s
    BY <1>4 DEF Up, Books, OwnConn
  <1> HIDE DEF d
  <1> QED BY <1>3, <1>5, <1>6, <1>7 DEF d, f

\* The second send of a frame is the last.
LEMMA SecondLast ==
  ASSUME Orderly, NEW t \in Threads, Doing(t, "sending"), Later(proc[t]).op = "sending"
  PROVE  Later(Tail(proc[t])).op = "release"
  <1>1. PICK S : proc[t] \in Seq(S) /\ Tail(proc[t]) \in Seq(S)
    BY TailMoves DEF Doing
  <1>2. Tail(proc[t]) # <<>>
    BY AfterSending
  <1>3. Len(proc[t]) >= 2 /\ proc[t][2] = Later(proc[t])
    <2>1. Len(Tail(proc[t])) >= 1 /\ Len(Tail(proc[t])) = Len(proc[t]) - 1 /\ Len(proc[t]) \in Nat
      BY <1>1, <1>2
    <2> QED BY <1>1, <2>1, HeadOfTail DEF Later
  <1>4. 2 \in 1 .. Len(proc[t]) /\ Apt(t, proc[t])
    BY <1>1, <1>3 DEF Orderly, Lists
  <1>5. 3 <= Len(proc[t]) /\ proc[t][3].op = "release"
    <2>1. 2 + 1 <= Len(proc[t]) /\ proc[t][2 + 1].op = "release"
      BY <1>3, <1>4 DEF Apt
    <2> QED BY <2>1
  <1>6. Len(Tail(proc[t])) >= 2 /\ Tail(proc[t])[2] = proc[t][3]
    BY <1>1, <1>5
  <1> QED BY <1>1, <1>5, <1>6, HeadOfTail DEF Later

\* What is on its way, as a whole.
LEMMA OnItsWayGood ==
  ASSUME NEW t, NEW q, Head(q).op = "sending", NEW c, NEW L, NEW k,
         NEW W \in Seq(UnitsOf), NEW T, Line(t, q, c, L, k, W, T), t \in Threads
  PROVE  /\ Head(q).units \in Seq(UnitsOf) /\ Good(c, L, W \o Head(q).units)
         /\ Below(k, Head(q).units)
  <1> DEFINE h == Head(q).units
             l == Later(q).units
  <1>1. CASE t \in Slots
    <2>1. UnitsTyped(q) /\ Answering(c, L, k, W, Rest(q), T)
      BY <1>1, NoneApart DEF Line, Phase
    <2>2. CASE Later(q).op # "sending"
      BY <2>1, <2>2 DEF Rest, UnitsTyped, Answering, Whole
    <2>3. CASE Later(q).op = "sending"
      <3>1. h \in Seq(UnitsOf) /\ l \in Seq(UnitsOf) /\ Rest(q) = h \o l
        BY <2>1, <2>3 DEF Rest, UnitsTyped
      <3>2. Good(c, L, W \o (h \o l)) /\ Below(k, h \o l)
        BY <2>1, <3>1 DEF Answering, Whole
      <3> HIDE DEF h, l
      <3>3. W \o (h \o l) = (W \o h) \o l /\ W \o h \in Seq(UnitsOf)
        BY <3>1, JoinThree
      <3>4. Good(c, L, W \o h)
        BY <3>1, <3>2, <3>3, GoodHead
      <3>5. Below(k, h)
        <4>1. \A i \in 1 .. Len(h) : i \in 1 .. Len(h \o l) /\ (h \o l)[i] = h[i]
          BY <3>1, JoinLen
        <4> QED BY <3>2, <4>1 DEF Below
      <3> QED BY <3>1, <3>4, <3>5 DEF h
    <2> QED BY <2>2, <2>3
  <1>2. CASE t \notin Slots
    <2>1. h = T /\ Whole(c, L, W) /\ Apart(W, T) /\ T \in Seq(UnitsOf) /\ Good(c, L, T) /\ Below(k, T)
      BY <1>2, NoneApart DEF Line, Phase, Quiet, Whole
    <2>2. Good(c, L, W \o T)
      BY <2>1, GoodJoin
    <2> QED BY <2>1, <2>2
  <1> QED BY <1>1, <1>2

\* The line after a send that went through; p is what is left to do.
LEMMA LineAfter ==
  ASSUME NEW t \in Threads, NEW q, Head(q).op = "sending", NEW c, NEW L, NEW k,
         NEW W \in Seq(UnitsOf), NEW T, Line(t, q, c, L, k, W, T),
         NEW p, p = Tail(q), Head(p).op \in Framed,
         t \notin Slots => Head(p).op = "empty", t \in Slots => Head(p).op # "empty",
         Head(p).op = "sending" => Later(p).op = "release"
  PROVE  Line(t, p, c, L, k, W \o Head(q).units, T)
  <1> DEFINE h == Head(q).units
             V == W \o h
  <1>1. h \in Seq(UnitsOf) /\ Good(c, L, V) /\ Below(k, h) /\ V \in Seq(UnitsOf)
    BY OnItsWayGood
  <1>2. T \in Seq(UnitsOf) /\ Whole(c, L, T) /\ Below(k, T) /\ Below(k, W)
    BY DEF Line
  <1>3. Below(k, V)
    BY <1>1, <1>2, JoinBelow
  <1>4. Later(q) = Head(p)
    BY DEF Later
  <1>5. CASE t \in Slots
    <2>1. UnitsTyped(q) /\ Answering(c, L, k, W, Rest(q), T)
      BY <1>5, NoneApart DEF Line, Phase
    <2>2. CASE Head(p).op = "sending"
      <3> DEFINE l == Head(p).units
      <3>1. Rest(q) = h \o l /\ l \in Seq(UnitsOf)
        BY <1>4, <2>1, <2>2 DEF Rest, UnitsTyped
      <3>2. Rest(p) = l
        BY <2>2 DEF Rest
      <3>3. UnitsTyped(p)
        BY <2>2, <3>1 DEF UnitsTyped
      <3>4. Whole(c, L, W \o (h \o l)) /\ Below(k, h \o l) /\ Apart(W \o (h \o l), T)
        BY <2>1, <3>1 DEF Answering
      <3> HIDE DEF h, l
      <3>5. W \o (h \o l) = V \o l
        BY <1>1, <3>1, JoinThree
      <3>6. Below(k, l)
        <4>1. \A i \in 1 .. Len(l) : Len(h) + i \in 1 .. Len(h \o l) /\ (h \o l)[Len(h) + i] = l[i]
          BY <1>1, <3>1, JoinLen
        <4> QED BY <3>4, <4>1 DEF Below
      <3> HIDE DEF V
      <3>7. Answering(c, L, k, V, Rest(p), T)
        BY <3>1, <3>2, <3>4, <3>5, <3>6 DEF Answering
      <3>8. Line(t, p, c, L, k, V, T)
        BY <1>2, <1>3, <1>5, <2>2, <3>3, <3>7 DEF Line, Phase
      <3> QED BY <3>8 DEF V, h
    <2>3. CASE Head(p).op # "sending"
      <3>1. Head(p).op = "release"
        BY <1>5, <2>3 DEF Framed
      <3>2. Rest(q) = h
        BY <1>4, <2>3 DEF Rest
      <3>3. Quiet(c, L, V, T)
        BY <2>1, <3>2 DEF Answering, Quiet
      <3> HIDE DEF V, h
      <3>4. Line(t, p, c, L, k, V, T)
        BY <1>2, <1>3, <3>1, <3>3 DEF Line, Phase
      <3> QED BY <3>4 DEF V, h
    <2> QED BY <2>2, <2>3
  <1>6. CASE t \notin Slots
    <2>1. h = T /\ Whole(c, L, W) /\ Apart(W, T)
      BY <1>6, NoneApart DEF Line, Phase, Quiet
    <2>2. Whole(c, L, V)
      BY <1>2, <2>1, WholeJoin
    <2> HIDE DEF V, h
    <2>3. Line(t, p, c, L, k, V, T)
      BY <1>2, <1>3, <1>6, <2>2 DEF Line, Phase
    <2> QED BY <2>3 DEF V, h
  <1> QED BY <1>5, <1>6

\* After a send of thread t, with the list q left to do and the wire of the slot's connection w.
LEMMA SendsAllOwn ==
  ASSUME Orderly, Books, Sends, Streams, NEW t \in Threads, SendsAll(t),
         NEW s \in Slots, s = At(t), Up(s)
  PROVE  Streams'
  <1> DEFINE c == slot[s].conn
             k == Len(made[c])
             q == proc[t]
             p == Tail(q)
             h == Head(q).units
  <1>1. /\ Doing(t, "sending") /\ q # <<>> /\ Head(q).op = "sending"
        /\ proc' = [proc EXCEPT ![t] = p]
        /\ UNCHANGED <<lock, frame, slot, tx, bound, owner, down, made, lost, inherited>>
    BY DEF SendsAll, Doing, Done, history
  <1>2. Up(s) /\ wire' = [wire EXCEPT ![c] = @ \o h]
    <2>1. LET d == Peer(Head(proc[t]).fd) IN
            d # 0 /\ d \notin down /\ wire' = [wire EXCEPT ![d] = @ \o Head(proc[t]).units]
      BY DEF SendsAll
    <2> QED BY <1>1, <2>1, SendsToOwn
  <1>3. c \in Conns /\ k \in Nat /\ wire[c] \in Seq(UnitsOf)
    BY <1>2 DEF Books, BooksType, Up, Conns, Streams, StreamsType, WiresGood
  <1>4. frame[s] = t /\ \A r \in Slots : frame[r] = t => r = s
    BY <1>1, AfterSending
  <1>5. Line(t, q, c, lost[c], k, wire[c], tx[s])
    BY <1>2, <1>4 DEF Streams, AllAligned, Aligned
  <1>6. /\ Head(p).op \in Framed /\ (t \notin Slots => Head(p).op = "empty")
        /\ Head(p).op = "sending" => Later(p).op = "release"
    BY <1>1, AfterSending, SecondLast DEF Later
  <1>7. t \in Slots => Head(p).op # "empty"
    <2>1. PICK S : p \in Seq(S) /\ Apt(t, p)
      BY <1>1, TailMoves
    <2>2. p # <<>>
      BY <1>1, AfterSending
    <2>3. 1 \in 1 .. Len(p) /\ p[1] = Head(p)
      BY <2>1, <2>2
    <2> QED BY <2>1, <2>3 DEF Apt
  <1>8. wire'[c] = wire[c] \o h /\ \A d \in Conns : d # c => wire'[d] = wire[d]
    BY <1>2, <1>3 DEF Streams, StreamsType
  <1>9. h \in Seq(UnitsOf) /\ Good(c, lost[c], wire[c] \o h) /\ wire[c] \o h \in Seq(UnitsOf)
    <2>1. h \in Seq(UnitsOf) /\ Good(c, lost[c], wire[c] \o h)
      BY <1>1, <1>3, <1>5, OnItsWayGood
    <2> HIDE DEF h, c
    <2> QED BY <1>3, <2>1
  <1>10. Line(t, p, c, lost[c], k, wire'[c], tx[s])
    <2> DEFINE W == wire[c]
               T == tx[s]
               L == lost[c]
    <2> HIDE DEF c, k, q, p, h, W, T, L
    <2>1. W \in Seq(UnitsOf) /\ Line(t, q, c, L, k, W, T) /\ p = Tail(q)
      BY <1>3, <1>5 DEF W, T, p, L
    <2>2. Line(t, p, c, L, k, W \o Head(q).units, T)
      BY <1>1, <1>6, <1>7, <2>1, LineAfter
    <2> QED BY <1>8, <2>2 DEF W, T, h, L
  <1>11. StreamsType'
    <2>1. wire' = [d \in Conns |-> wire'[d]]
      <3> HIDE DEF c, h
      <3> QED BY <1>2 DEF Streams, StreamsType
    <2> QED BY <1>1, <2>1 DEF Streams, StreamsType
  <1>12. WiresGood'
    <2> HIDE DEF c, h
    <2> QED BY <1>1, <1>8, <1>9 DEF Streams, WiresGood
  <1>13. Unheard'
    <2>1. c \in Known
      BY <1>3 DEF Books, Opened, Conns
    <2> HIDE DEF c, h
    <2> QED BY <1>1, <1>8, <2>1 DEF Streams, Unheard, Known
  <1>14. proc'[t] = p
    BY <1>1 DEF Orderly, Listed
  <1>15. Aligned(s)'
    <2> SUFFICES Line(frame'[s], proc'[frame'[s]], slot'[s].conn, lost'[slot'[s].conn],
                      Len(made'[slot'[s].conn]), wire'[slot'[s].conn], tx'[s])
      BY DEF Aligned
    <2> QED BY <1>1, <1>4, <1>10, <1>14
  <1>16. \A r \in Slots \ {s} : Up(r) => wire'[slot[r].conn] = wire[slot[r].conn]
    <2>1. \A r \in Slots \ {s} : Up(r) => slot[r].conn \in Conns /\ slot[r].conn # c
      BY <1>2 DEF Books, BooksType, OwnConn, Up, Conns
    <2> QED BY <1>8, <2>1
  <1>17. \A e \in Conns : Len(made'[e]) >= Len(made[e])
    BY <1>1 DEF Streams, StreamsType
  <1>18. AllAligned'
    <2>1. Loses
      BY <1>1 DEF Loses
    <2> HIDE DEF c, k, p, q, h
    <2> QED BY <1>1, <1>4, <1>11, <1>15, <1>16, <1>17, <2>1, AllAlignedBut
  <1> QED BY <1>11, <1>12, <1>13, <1>18 DEF Streams

\* A send to a connection that is not the slot's own changes no line.
LEMMA SendsAllOther ==
  ASSUME Orderly, Books, Sends, Streams, NEW t \in Threads, SendsAll(t),
         NEW s \in Slots, s = At(t), ~Up(s)
  PROVE  Streams'
  <1> DEFINE d == Peer(Head(proc[t]).fd)
             h == Head(proc[t]).units
  <1>1. /\ Doing(t, "sending") /\ proc' = [proc EXCEPT ![t] = Tail(proc[t])]
        /\ UNCHANGED <<lock, frame, slot, tx, bound, owner, down, made, lost, inherited>>
        /\ d # 0 /\ d \notin down /\ wire' = [wire EXCEPT ![d] = @ \o h]
    BY DEF SendsAll, Doing, Done, history
  <1>2. /\ d \in inherited /\ d \in Conns /\ d \in Known
        /\ \A r \in Slots : Up(r) => slot[r].conn # d
    <2>1. /\ d \notin down \cup inherited \cup {0} => Up(s)
          /\ \A r \in Slots : Up(r) /\ d = slot[r].conn => r = s
          /\ d # 0 => d \in Conns /\ d \in Known
      BY <1>1, SendsToOwn
    <2> QED BY <1>1, <2>1
  <1> HIDE DEF d, h
  <1>3. /\ \A e \in Conns : e # d => wire'[e] = wire[e]
        /\ wire' = [e \in Conns |-> wire'[e]]
    BY <1>1 DEF Streams, StreamsType
  <1>4. StreamsType'
    BY <1>1, <1>3 DEF Streams, StreamsType
  <1>5. WiresGood'
    BY <1>1, <1>2, <1>3 DEF Streams, WiresGood
  <1>6. Unheard'
    BY <1>1, <1>2, <1>3 DEF Streams, Unheard, Known
  <1>7. Aligned(s)'
    BY <1>1 DEF Aligned, Up
  <1>8. \A r \in Slots : frame[r] = t => r = s
    BY <1>1, AfterSending
  <1>9. \A r \in Slots \ {s} : Up(r) => wire'[slot[r].conn] = wire[slot[r].conn]
    <2>1. \A r \in Slots : Up(r) => slot[r].conn \in Conns
      BY DEF Books, BooksType, Up, Conns
    <2> QED BY <1>2, <1>3, <2>1
  <1>10. \A e \in Conns : Len(made'[e]) >= Len(made[e])
    BY <1>1 DEF Streams, StreamsType
  <1>11. Loses
    BY <1>1 DEF Loses
  <1>12. AllAligned'
    BY <1>1, <1>4, <1>7, <1>8, <1>9, <1>10, <1>11, AllAlignedBut
  <1> QED BY <1>4, <1>5, <1>6, <1>12 DEF Streams

\* What a failed send leaves on the wire ends it.
LEMMA SendFailsStreams ==
  ASSUME Orderly, Books, Sends, Streams, NEW t \in Threads, SendFails(t),
         NEW s \in Slots, s = At(t)
  PROVE  Streams'
  <1> DEFINE q == proc[t]
             h == Head(q).units
             d == Peer(Head(q).fd)
  <1>1. /\ Doing(t, "sending") /\ q # <<>> /\ Head(q).op = "sending"
        /\ proc' = [proc EXCEPT ![t] = GivesUp(t)] /\ down' = ShutDown(d)
        /\ UNCHANGED <<lock, frame, slot, tx, bound, owner, made, lost, inherited>>
    BY DEF SendFails, Doing, history
  <1>2. PICK m \in 0 .. (Len(h) - 1) :
          /\ m > 0 => d # 0 /\ d \notin down
          /\ wire' = IF m = 0 THEN wire ELSE [wire EXCEPT ![d] = @ \o SubSeq(h, 1, m)]
    BY DEF SendFails
  <1>3. /\ Up(s) => d = slot[s].conn /\ d \in Conns
        /\ d \notin down \cup inherited \cup {0} => Up(s)
        /\ \A r \in Slots : Up(r) /\ d = slot[r].conn => r = s
        /\ d # 0 => d \in Conns /\ d \in Known
    BY <1>1, SendsToOwn
  <1>4. frame[s] = t /\ \A r \in Slots : frame[r] = t => r = s
    BY <1>1, AfterSending
  <1>5. m > 0 /\ d \notin inherited =>
          /\ Good(d, lost[d], wire[d] \o SubSeq(h, 1, m))
          /\ wire[d] \o SubSeq(h, 1, m) \in Seq(UnitsOf)
    <2> SUFFICES ASSUME m > 0, d \notin inherited
                 PROVE  /\ Good(d, lost[d], wire[d] \o SubSeq(h, 1, m))
                        /\ wire[d] \o SubSeq(h, 1, m) \in Seq(UnitsOf)
      OBVIOUS
    <2>1. Up(s) /\ d = slot[s].conn /\ d \in Conns
      <3> HIDE DEF d
      <3> QED BY <1>2, <1>3
    <2>2. wire[d] \in Seq(UnitsOf)
      <3> HIDE DEF d
      <3> QED BY <2>1 DEF Streams, WiresGood
    <2>3. Line(t, q, d, lost[d], Len(made[d]), wire[d], tx[s])
      <3> HIDE DEF d
      <3> QED BY <1>4, <2>1 DEF Streams, AllAligned, Aligned
    <2> HIDE DEF d, q
    <2>4. h \in Seq(UnitsOf) /\ Good(d, lost[d], wire[d] \o h)
      BY <1>1, <2>2, <2>3, OnItsWayGood
    <2> HIDE DEF h
    <2>5. m \in 0 .. Len(h)
      BY <2>4
    <2> QED BY <2>2, <2>4, <2>5, GoodPart
  <1> HIDE DEF d, h, q
  <1>6. down \subseteq down' /\ ~Up(s)'
    BY <1>1, <1>3 DEF ShutDown, Up
  <1>7. /\ \A e \in Conns : m = 0 \/ e # d => wire'[e] = wire[e]
        /\ m > 0 => wire'[d] = wire[d] \o SubSeq(h, 1, m)
        /\ wire' = [e \in Conns |-> wire'[e]]
    <2>1. CASE m = 0
      <3>1. wire' = wire
        BY <1>2, <2>1
      <3> QED BY <2>1, <3>1 DEF Streams, StreamsType
    <2>2. CASE m > 0
      <3> DEFINE x == SubSeq(h, 1, m)
      <3>1. m # 0 /\ d \in Conns
        BY <1>2, <1>3, <2>2
      <3>2. wire' = [wire EXCEPT ![d] = @ \o x]
        BY <1>2, <3>1
      <3> HIDE DEF x
      <3>3. /\ \A e \in Conns : e # d => wire'[e] = wire[e]
            /\ wire'[d] = wire[d] \o x /\ wire' = [e \in Conns |-> wire'[e]]
        BY <3>1, <3>2 DEF Streams, StreamsType
      <3> QED BY <2>2, <3>1, <3>3 DEF x
    <2>3. m = 0 \/ m > 0
      BY <1>2
    <2> QED BY <2>1, <2>2, <2>3
  <1>8. StreamsType'
    BY <1>1, <1>7 DEF Streams, StreamsType
  <1>9. WiresGood'
    <2> SUFFICES ASSUME NEW e \in Conns \ inherited
                 PROVE  wire'[e] \in Seq(UnitsOf) /\ Good(e, lost[e], wire'[e])
      BY <1>1 DEF WiresGood
    <2>1. CASE m > 0 /\ e = d
      BY <1>5, <1>7, <2>1
    <2>2. CASE ~(m > 0 /\ e = d)
      <3>1. m = 0 \/ e # d
        BY <1>2, <2>2
      <3>2. wire'[e] = wire[e]
        BY <1>7, <3>1
      <3> QED BY <3>2 DEF Streams, WiresGood
    <2> QED BY <2>1, <2>2
  <1>10. Unheard'
    <2>1. m > 0 => d \in Known
      BY <1>2, <1>3
    <2>2. Known \subseteq Known'
      BY <1>1, <1>6, KnownStays
    <2> SUFFICES ASSUME NEW e \in Conns, e \notin Known' PROVE wire'[e] = <<>>
      BY DEF Unheard
    <2>3. wire[e] = <<>> /\ (m = 0 \/ e # d)
      BY <1>2, <2>1, <2>2 DEF Streams, Unheard
    <2> QED BY <1>7, <2>3
  <1>11. Aligned(s)'
    BY <1>6 DEF Aligned
  <1>12. \A r \in Slots \ {s} : Up(r) => wire'[slot[r].conn] = wire[slot[r].conn]
    <2>1. \A r \in Slots : Up(r) => slot[r].conn \in Conns
      BY DEF Books, BooksType, Up, Conns
    <2> QED BY <1>3, <1>7, <2>1
  <1>13. \A e \in Conns : Len(made'[e]) >= Len(made[e])
    BY <1>1 DEF Streams, StreamsType
  <1>14. Loses
    BY <1>1, <1>6 DEF Loses
  <1>15. AllAligned'
    <2>1. PICK g : proc' = [proc EXCEPT ![t] = g]
      BY <1>1
    <2>2. \A r \in Slots \ {s} : tx'[r] = tx[r] /\ frame'[r] = frame[r]
      BY <1>1
    <2> QED BY <1>1, <1>4, <1>8, <1>11, <1>12, <1>13, <1>14, <2>1, <2>2, AllAlignedBut
  <1> QED BY <1>8, <1>9, <1>10, <1>15 DEF Streams

\* Who writes does so to one of the slots.
LEMMA WritingAt ==
  ASSUME Orderly, NEW t \in Threads, Writing(t), ~Reply(t), ~Parks(t)
  PROVE  At(t) \in Slots
  <1>1. proc[t] # <<>>
    BY WritingLeaves
  <1>2. Head(proc[t]).op \in {"write", "flush"} => At(t) \in Slots
    BY <1>1, WritesAt
  <1>3. Head(proc[t]).op \in Framed => At(t) \in Slots
    BY <1>1 DEF Orderly, SenderHolds, At
  <1>4. Head(proc[t]).op \in {"write", "flush"} \cup Framed
    <2>1. SendsAll(t) \/ SendFails(t) => Doing(t, "sending")
      BY Zenon DEF SendsAll, SendFails
    <2> QED BY <2>1 DEF Writing, Sending, Write, Flush, Release, Doing, Framed
  <1> QED BY <1>2, <1>3, <1>4

LEMMA StreamsNext ==
  ASSUME Orderly, Books, Sends, Streams, [Next]_vars
  PROVE  Streams'
  <1>1. ASSUME NEW t \in Threads, Writing(t) PROVE Streams'
    <2>1. CASE Parks(t)
      BY <2>1, ShutStreams
    <2>2. ~Reply(t) /\ ~Parks(t) => At(t) \in Slots
      BY <1>1, WritingAt
    <2> QED BY <1>1, <2>1, <2>2, WriteStreams, ReplyStreams, FlushStreams, SendsAllOwn,
               SendsAllOther, SendFailsStreams, ReleaseStreams DEF Writing, Sending
  <1>2. CASE Ticks \/ Calls \/ \E t \in Threads : Unlock(t) \/ Core(t)
    BY <1>2, CallersStreams
  <1>3. CASE AppLeaves \/ Watchdog \/ UNCHANGED vars
    BY <1>3, ShutStreams
  <1>4. CASE \E s \in Slots : Accepts(s) \/ Serves(s) \/ Connection(s)
    BY <1>4, AcceptsStreams, ConnectionStreams
  <1> QED BY <1>1, <1>2, <1>3, <1>4 DEF Next

(* Every connection receives whole frames made for it, each once, for any number of slots,
   connections, frames and queue lengths (net_socket.c:590-602): the halves of frames from pings,
   messages, uploads and a stop never mix, and a header goes without its payload only at the end
   or when the payload found the queue full (681-686).  A connection that was given a slot or a
   number under a write for its last owner is left out (788-795): TLC shows what it may get. *)
THEOREM FramesAreWhole == Spec => []WholeFrames
  <1> DEFINE Inv == Orderly /\ BoundType /\ StageType /\ Books /\ Sends /\ Streams
  <1>1. Init => Inv
    BY OrderlyInit, BoundInit, StageInit, BooksInit, SendsInit, StreamsInit
  <1>2. Inv /\ [Next]_vars => Inv'
    BY OrderlyStep, BoundStep, StageStep, BooksStep, SendsStep, StreamsNext
  <1>3. Inv => WholeFrames
    BY GoodIsWhole
  <1> QED BY <1>1, <1>2, <1>3, PTL DEF Spec

-----------------------------------------------------------------------------
(* What the core said: for a connection that is up, its frames are all on the wire or queued,
   in the order they were made in, and what a thread answers itself is none of them. *)

HasBut(c, L, C, R) == \A n \in C : ToSet(Units(c, n)) \subseteq ToSet(R) \cup L
Tells(c, L, C, R) == HasBut(c, L, C, R) /\ InOrder(C, R)
Silent(C, R) == \A i \in 1 .. Len(R) : R[i].n \notin C

Speech(t, q, c, L, C, W, T) ==
  \/ t = None /\ Tells(c, L, C, W \o T)
  \/ t \in Threads /\ Head(q).op = "release" /\ Tells(c, L, C, W \o T)
  \/ t \in Threads /\ Head(q).op = "empty" /\ Tells(c, L, C, W)
  \/ /\ t \in Threads /\ Head(q).op = "sending" /\ Tells(c, L, C, W \o T)
     /\ t \in Slots => Silent(C, Rest(q))

Heard(s) ==
  Up(s) => Speech(frame[s], proc[frame[s]], slot[s].conn, lost[slot[s].conn],
                  Said(slot[s].conn), wire[slot[s].conn], tx[s])

Unmade == \A c \in Conns : c \notin Known => made[c] = <<>>
AllHeard == \A s \in Slots : Heard(s)
Speeches == Unmade /\ AllHeard

LEMMA SpeechesInit == Init => Speeches
  BY DEF Init, Speeches, Unmade, AllHeard, Heard, Up

LEMMA SpeechIsWhole ==
  ASSUME Orderly, Books, Streams, Speeches
  PROVE  NothingLost
  <1> SUFFICES ASSUME NEW c \in Conns \ (down \cup inherited), NEW s \in Slots, slot[s].conn = c
               PROVE  Tells(c, lost[c], Said(c), wire[c] \o Unsent(s))
    BY DEF NothingLost, InSlot, Tells, HasBut, HasAll
  <1>1. Up(s)
    BY DEF Up, Conns
  <1>2. Speech(frame[s], proc[frame[s]], c, lost[c], Said(c), wire[c], tx[s])
    BY <1>1 DEF Speeches, AllHeard, Heard
  <1>3. wire[c] \o <<>> = wire[c]
    BY DEF Streams, WiresGood
  <1>4. CASE \E t \in Threads : Doing(t, "empty") /\ At(t) = s
    <2>1. PICK t \in Threads : Doing(t, "empty") /\ At(t) = s
      BY <1>4
    <2>2. frame[s] = t /\ Head(proc[t]).op = "empty"
      BY <2>1 DEF Orderly, SenderHolds, Doing, At, Framed
    <2>3. Tells(c, lost[c], Said(c), wire[c])
      BY <1>2, <2>2, NoneApart DEF Speech
    <2> QED BY <1>3, <1>4, <2>3 DEF Unsent
  <1>5. CASE ~\E t \in Threads : Doing(t, "empty") /\ At(t) = s
    <2>1. frame[s] \in Threads =>
            proc[frame[s]] # <<>> /\ Head(proc[frame[s]]).slot = s
      BY DEF Orderly, HolderSends
    <2>2. ~(frame[s] \in Threads /\ Head(proc[frame[s]]).op = "empty")
      BY <1>5, <2>1 DEF Doing, At
    <2>3. Tells(c, lost[c], Said(c), wire[c] \o tx[s])
      BY <1>2, <2>2 DEF Speech
    <2> QED BY <1>5, <2>3 DEF Unsent
  <1> QED BY <1>4, <1>5

-----------------------------------------------------------------------------
(* Rows of units and the frames in them *)

LEMMA RowHas ==
  ASSUME NEW S, NEW u \in Seq(S)
  PROVE  \A x : x \in ToSet(u) <=> \E i \in 1 .. Len(u) : u[i] = x
  BY DEF ToSet

LEMMA JoinHas ==
  ASSUME NEW S, NEW u \in Seq(S), NEW v \in Seq(S)
  PROVE  ToSet(u \o v) = ToSet(u) \cup ToSet(v)
  <1> DEFINE r == u \o v
  <1>1. r \in Seq(S)
    BY JoinLen
  <1>2. ToSet(u) \cup ToSet(v) \subseteq ToSet(r)
    <2> SUFFICES ASSUME NEW x, x \in ToSet(u) \/ x \in ToSet(v) PROVE x \in ToSet(r)
      OBVIOUS
    <2>1. CASE x \in ToSet(u)
      <3>1. PICK i \in 1 .. Len(u) : u[i] = x
        BY <2>1, RowHas
      <3>2. i \in 1 .. Len(r) /\ r[i] = x
        BY <3>1, JoinLen
      <3> HIDE DEF r
      <3> QED BY <1>1, <3>2, RowHas
    <2>2. CASE x \in ToSet(v)
      <3>1. PICK i \in 1 .. Len(v) : v[i] = x
        BY <2>2, RowHas
      <3>2. Len(u) + i \in 1 .. Len(r) /\ r[Len(u) + i] = x
        BY <3>1, JoinLen
      <3> HIDE DEF r
      <3> QED BY <1>1, <3>2, RowHas
    <2> QED BY <2>1, <2>2
  <1>3. ToSet(r) \subseteq ToSet(u) \cup ToSet(v)
    <2> SUFFICES ASSUME NEW x \in ToSet(r) PROVE x \in ToSet(u) \/ x \in ToSet(v)
      OBVIOUS
    <2> HIDE DEF r
    <2>1. PICK i \in 1 .. Len(r) : r[i] = x
      BY <1>1, RowHas
    <2>2. \/ i \in 1 .. Len(u) /\ r[i] = u[i]
          \/ \E j \in 1 .. Len(v) : i = Len(u) + j /\ r[i] = v[j]
      BY JoinAt DEF r
    <2> QED BY <2>1, <2>2, RowHas
  <1> QED BY <1>2, <1>3

\* A row in order stays so when silent units come in the middle, or the next frame at the end.
LEMMA OrderJoin ==
  ASSUME NEW C, NEW S, NEW u \in Seq(S), NEW v \in Seq(S), InOrder(C, u), InOrder(C, v),
         \A i \in 1 .. Len(u), j \in 1 .. Len(v) :
           u[i].n \in C /\ v[j].n \in C => Before(u[i], v[j])
  PROVE  InOrder(C, u \o v)
  <1> DEFINE r == u \o v
  <1>1. /\ r \in Seq(S) /\ DOMAIN r = 1 .. Len(r) /\ DOMAIN u = 1 .. Len(u)
        /\ DOMAIN v = 1 .. Len(v) /\ Len(u) \in Nat /\ Len(v) \in Nat
    BY JoinLen
  <1>2. ASSUME NEW i \in 1 .. Len(r)
        PROVE  \/ i \in 1 .. Len(u) /\ r[i] = u[i]
               \/ \E j \in 1 .. Len(v) : i = Len(u) + j /\ r[i] = v[j]
    BY JoinAt
  <1> HIDE DEF r
  <1> SUFFICES ASSUME NEW i \in 1 .. Len(r), NEW j \in 1 .. Len(r), i < j,
                      r[i].n \in C, r[j].n \in C
               PROVE  Before(r[i], r[j])
    BY <1>1 DEF InOrder, r
  <1>3. CASE i \in 1 .. Len(u) /\ r[i] = u[i]
    <2>1. CASE j \in 1 .. Len(u) /\ r[j] = u[j]
      BY <1>1, <1>3, <2>1 DEF InOrder
    <2>2. CASE \E k \in 1 .. Len(v) : j = Len(u) + k /\ r[j] = v[k]
      BY <1>3, <2>2
    <2> QED BY <1>2, <2>1, <2>2
  <1>4. CASE \E k \in 1 .. Len(v) : i = Len(u) + k /\ r[i] = v[k]
    <2>1. PICK k \in 1 .. Len(v) : i = Len(u) + k /\ r[i] = v[k]
      BY <1>4
    <2>2. \E m \in 1 .. Len(v) : j = Len(u) + m /\ r[j] = v[m]
      <3>1. ~(j \in 1 .. Len(u))
        BY <1>1, <2>1
      <3>2. \/ j \in 1 .. Len(u) /\ r[j] = u[j]
            \/ \E m \in 1 .. Len(v) : j = Len(u) + m /\ r[j] = v[m]
        BY <1>2
      <3> QED BY <3>1, <3>2
    <2>3. PICK m \in 1 .. Len(v) : j = Len(u) + m /\ r[j] = v[m]
      BY <2>2
    <2>4. k < m
      BY <1>1, <2>1, <2>3
    <2> QED BY <1>1, <2>1, <2>3, <2>4 DEF InOrder
  <1> QED BY <1>2, <1>3, <1>4

LEMMA OrderParts ==
  ASSUME NEW C, NEW S, NEW u \in Seq(S), NEW v \in Seq(S), InOrder(C, u \o v)
  PROVE  /\ InOrder(C, u) /\ InOrder(C, v)
         /\ \A i \in 1 .. Len(u), j \in 1 .. Len(v) :
              u[i].n \in C /\ v[j].n \in C => Before(u[i], v[j])
  <1> DEFINE r == u \o v
             m == Len(u)
  <1>1. /\ Len(r) = m + Len(v) /\ DOMAIN r = 1 .. Len(r) /\ DOMAIN u = 1 .. m
        /\ DOMAIN v = 1 .. Len(v) /\ m \in Nat /\ Len(v) \in Nat
        /\ \A i \in 1 .. m : r[i] = u[i]
        /\ \A i \in 1 .. Len(v) : r[m + i] = v[i]
    BY JoinLen
  <1>2. InOrder(C, r)
    OBVIOUS
  <1> HIDE DEF r, m
  <1>3. \A i, j \in 1 .. Len(r) : i < j /\ r[i].n \in C /\ r[j].n \in C => Before(r[i], r[j])
    BY <1>1, <1>2 DEF InOrder
  <1>4. InOrder(C, u)
    BY <1>1, <1>3 DEF InOrder
  <1>5. ASSUME NEW i \in 1 .. Len(v), NEW j \in 1 .. Len(v), i < j, v[i].n \in C, v[j].n \in C
        PROVE  Before(v[i], v[j])
    <2>1. m + i \in 1 .. Len(r) /\ m + j \in 1 .. Len(r) /\ m + i < m + j
      BY <1>1, <1>5
    <2> QED BY <1>1, <1>3, <1>5, <2>1
  <1>6. ASSUME NEW i \in 1 .. m, NEW j \in 1 .. Len(v), u[i].n \in C, v[j].n \in C
        PROVE  Before(u[i], v[j])
    <2>1. i \in 1 .. Len(r) /\ m + j \in 1 .. Len(r) /\ i < m + j
      BY <1>1
    <2> QED BY <1>1, <1>3, <1>6, <2>1
  <1>7. InOrder(C, v)
    BY <1>1, <1>5 DEF InOrder
  <1> QED BY <1>4, <1>6, <1>7 DEF m

LEMMA SilentOrder ==
  ASSUME NEW C, NEW S, NEW v \in Seq(S), Silent(C, v)
  PROVE  InOrder(C, v)
  <1>1. DOMAIN v = 1 .. Len(v)
    OBVIOUS
  <1> QED BY <1>1 DEF Silent, InOrder

\* Silent units between what was said and what is queued.
LEMMA TellsBetween ==
  ASSUME NEW c, NEW L, NEW C,
         NEW W \in Seq(UnitsOf), NEW h \in Seq(UnitsOf), NEW T \in Seq(UnitsOf),
         Tells(c, L, C, W \o T), Silent(C, h)
  PROVE  Tells(c, L, C, (W \o h) \o T)
  <1>1. W \o h \in Seq(UnitsOf) /\ W \o T \in Seq(UnitsOf)
    BY JoinLen
  <1>2. HasBut(c, L, C, (W \o h) \o T)
    <2>1. ToSet((W \o h) \o T) = (ToSet(W) \cup ToSet(h)) \cup ToSet(T)
      <3> DEFINE V == W \o h
      <3>1. ToSet(V) = ToSet(W) \cup ToSet(h)
        BY JoinHas
      <3>2. V \in Seq(UnitsOf)
        BY <1>1
      <3> HIDE DEF V
      <3>3. ToSet(V \o T) = ToSet(V) \cup ToSet(T)
        BY <3>2, JoinHas
      <3> QED BY <3>1, <3>3 DEF V
    <2>2. ToSet(W \o T) = ToSet(W) \cup ToSet(T)
      BY JoinHas
    <2> QED BY <2>1, <2>2 DEF Tells, HasBut
  <1>3. /\ InOrder(C, W) /\ InOrder(C, T)
        /\ \A i \in 1 .. Len(W), j \in 1 .. Len(T) :
             W[i].n \in C /\ T[j].n \in C => Before(W[i], T[j])
    BY OrderParts DEF Tells
  <1>4. InOrder(C, W \o h)
    <2>1. InOrder(C, h)
      BY SilentOrder
    <2>2. \A i \in 1 .. Len(W), j \in 1 .. Len(h) :
            W[i].n \in C /\ h[j].n \in C => Before(W[i], h[j])
      BY DEF Silent
    <2> QED BY <1>3, <2>1, <2>2, OrderJoin
  <1>5. ASSUME NEW i \in 1 .. Len(W \o h), NEW j \in 1 .. Len(T),
               (W \o h)[i].n \in C, T[j].n \in C
        PROVE  Before((W \o h)[i], T[j])
    <2>1. \/ i \in 1 .. Len(W) /\ (W \o h)[i] = W[i]
          \/ \E k \in 1 .. Len(h) : i = Len(W) + k /\ (W \o h)[i] = h[k]
      BY JoinAt
    <2> QED BY <1>3, <1>5, <2>1 DEF Silent
  <1>6. InOrder(C, (W \o h) \o T)
    BY <1>1, <1>3, <1>4, <1>5, OrderJoin
  <1> QED BY <1>2, <1>6 DEF Tells

\* What the queue takes of the next frame, behind everything said so far.
LEMMA TellsNext ==
  ASSUME NEW c \in Conns, NEW k \in Nat, NEW L, NEW M, L \subseteq M, NEW C,
         NEW R \in Seq(UnitsOf), Below(k, R), k + 1 \notin C, Tells(c, L, C, R), NEW s,
         NEW U, U = Units(c, k + 1), NEW u, u \in Taken(s, U), ToSet(U) \ ToSet(u) \subseteq M
  PROVE  Tells(c, M, C \cup {k + 1}, R \o u)
  <1> DEFINE D == C \cup {k + 1}
  <1>1. Fits(c, M, k + 1, u)
    BY TakenWhole
  <1>2. u \in Seq(UnitsOf) /\ \A j \in 1 .. Len(u) : u[j].n = k + 1
    BY <1>1 DEF Fits
  <1>3. ToSet(R \o u) = ToSet(R) \cup ToSet(u)
    BY <1>2, JoinHas
  <1>4. HasBut(c, M, D, R \o u)
    <2> SUFFICES ASSUME NEW n \in D
                 PROVE  ToSet(Units(c, n)) \subseteq ToSet(R \o u) \cup M
      BY DEF HasBut
    <2>1. CASE n \in C
      <3>1. ToSet(Units(c, n)) \subseteq ToSet(R) \cup L
        BY <2>1 DEF Tells, HasBut
      <3> QED BY <1>3, <3>1
    <2>2. CASE n = k + 1
      BY <1>3, <2>2
    <2> QED BY <2>1, <2>2
  <1>5. \A i \in 1 .. Len(R) : R[i].n \in Nat /\ R[i].n <= k
    <2>1. \A i \in 1 .. Len(R) : R[i] \in UnitsOf
      OBVIOUS
    <2> QED BY <2>1 DEF UnitsOf, Below
  <1>6. InOrder(D, R)
    <2>1. DOMAIN R = 1 .. Len(R)
      OBVIOUS
    <2>2. \A i \in 1 .. Len(R) : R[i].n \in D => R[i].n \in C
      BY <1>5
    <2> QED BY <2>1, <2>2 DEF InOrder, Tells
  <1>7. InOrder(D, u)
    <2>1. /\ U \in Seq(UnitsOf) /\ Len(U) = 2
      BY UnitsWhole
    <2>2. PICK j \in 0 .. Len(U) : u = SubSeq(U, 1, j)
      BY DEF Taken
    <2>3. Len(u) = j /\ \A i \in 1 .. j : u[i] = U[i]
      BY <2>1, <2>2, PartIs
    <2>4. DOMAIN u = 1 .. j
      BY <1>2, <2>3
    <2>5. Before(U[1], U[2])
      BY DEF Units, Before
    <2> SUFFICES ASSUME NEW i \in 1 .. j, NEW m \in 1 .. j, i < m PROVE Before(u[i], u[m])
      BY <2>4 DEF InOrder
    <2>6. i = 1 /\ m = 2
      <3>1. j \in 0 .. 2
        BY <2>1, <2>2
      <3> QED BY <3>1
    <2> QED BY <2>3, <2>5, <2>6
  <1>8. \A i \in 1 .. Len(R), j \in 1 .. Len(u) : Before(R[i], u[j])
    BY <1>2, <1>5 DEF Before
  <1> HIDE DEF D
  <1>9. InOrder(D, R \o u)
    BY <1>2, <1>6, <1>7, <1>8, OrderJoin
  <1> QED BY <1>4, <1>9 DEF Tells, D

-----------------------------------------------------------------------------
(* Slots a step has nothing to do with *)

LEMMA SpeechStays ==
  ASSUME NEW t, NEW q, NEW p, t \in Threads => p = q, NEW c, NEW L, NEW C, NEW W,
         NEW T, Speech(t, q, c, L, C, W, T)
  PROVE  Speech(t, p, c, L, C, W, T)
  BY NoneApart DEF Speech

LEMMA HeardStays ==
  ASSUME NEW s \in Slots, Heard(s),
         tx'[s] = tx[s], frame'[s] = frame[s], slot'[s].conn = slot[s].conn,
         down \subseteq down', inherited \subseteq inherited',
         Up(s) => /\ wire'[slot[s].conn] = wire[slot[s].conn]
                  /\ made'[slot[s].conn] = made[slot[s].conn]
                  /\ lost'[slot[s].conn] = lost[slot[s].conn],
         frame[s] \in Threads => proc'[frame[s]] = proc[frame[s]]
  PROVE  Heard(s)'
  <1> SUFFICES ASSUME Up(s)'
               PROVE  Speech(frame'[s], proc'[frame'[s]], slot'[s].conn, lost'[slot'[s].conn],
                             Said(slot[s].conn)', wire'[slot'[s].conn], tx'[s])
    BY DEF Heard
  <1>1. Up(s)
    BY DEF Up
  <1>2. Speech(frame[s], proc[frame[s]], slot[s].conn, lost[slot[s].conn],
               Said(slot[s].conn), wire[slot[s].conn], tx[s])
    BY <1>1 DEF Heard
  <1>3. Said(slot[s].conn)' = Said(slot[s].conn)
    BY <1>1 DEF Said
  <1>4. Speech(frame[s], proc'[frame[s]], slot[s].conn, lost[slot[s].conn],
               Said(slot[s].conn), wire[slot[s].conn], tx[s])
    BY <1>2, SpeechStays
  <1> QED BY <1>1, <1>3, <1>4

LEMMA SpeechesStay ==
  ASSUME Speeches, UNCHANGED <<wire, made, tx, frame, lost, inherited>>,
         \A s \in Slots : slot'[s].conn = slot[s].conn,
         down \subseteq down', Known \subseteq Known',
         \A s \in Slots : frame[s] \in Threads => proc'[frame[s]] = proc[frame[s]]
  PROVE  Speeches'
  <1>1. Unmade'
    BY DEF Speeches, Unmade
  <1>2. ASSUME NEW s \in Slots PROVE Heard(s)'
    BY HeardStays DEF Speeches, AllHeard
  <1> QED BY <1>1, <1>2 DEF Speeches, AllHeard

LEMMA SpeechesStep ==
  ASSUME Orderly, Speeches, UNCHANGED <<wire, made, tx, frame, lost, inherited>>,
         \A s \in Slots : slot'[s].conn = slot[s].conn,
         down \subseteq down', Known \subseteq Known',
         NEW t \in Threads, NEW q, proc' = [proc EXCEPT ![t] = q],
         proc[t] = <<>> \/ Head(proc[t]).op \notin Framed
  PROVE  Speeches'
  <1>1. \A r \in Threads : r # t => proc'[r] = proc[r]
    BY DEF Orderly, Listed
  <1>2. \A s \in Slots : frame[s] # t
    BY DEF Orderly, HolderSends
  <1> QED BY <1>1, <1>2, SpeechesStay

\* Thread t, at slot s, leaves what the other slots' connections are told as it is.
LEMMA AllHeardBut ==
  ASSUME Orderly, Speeches, NEW t \in Threads, NEW q,
         proc' = [proc EXCEPT ![t] = q], UNCHANGED <<slot, inherited>>, down \subseteq down',
         NEW s \in Slots, \A r \in Slots : frame[r] = t => r = s,
         \A r \in Slots \ {s} :
           /\ tx'[r] = tx[r] /\ frame'[r] = frame[r]
           /\ Up(r) => /\ wire'[slot[r].conn] = wire[slot[r].conn]
                       /\ made'[slot[r].conn] = made[slot[r].conn]
                       /\ lost'[slot[r].conn] = lost[slot[r].conn],
         Heard(s)'
  PROVE  AllHeard'
  <1>1. \A r \in Threads : r # t => proc'[r] = proc[r]
    BY DEF Orderly, Listed
  <1> SUFFICES ASSUME NEW r \in Slots, r # s PROVE Heard(r)'
    BY DEF AllHeard
  <1>2. frame[r] \in Threads => proc'[frame[r]] = proc[frame[r]]
    BY <1>1
  <1> QED BY <1>2, HeardStays DEF Speeches, AllHeard

\* What a slot's line is while nobody has its frame lock.
LEMMA FreeLine ==
  ASSUME Books, Streams, NEW s \in Slots, Up(s), frame[s] = None
  PROVE  LET c == slot[s].conn IN
           /\ c \in Conns /\ Len(made[c]) \in Nat /\ wire[c] \in Seq(UnitsOf)
           /\ tx[s] \in Seq(UnitsOf) /\ Below(Len(made[c]), tx[s]) /\ Below(Len(made[c]), wire[c])
  <1>1. slot[s].conn \in Conns
    BY DEF Books, BooksType, Up, Conns
  <1> DEFINE c == slot[s].conn
  <1>2. Line(None, proc[None], c, lost[c], Len(made[c]), wire[c], tx[s])
    BY DEF Streams, AllAligned, Aligned
  <1>3. Len(made[c]) \in Nat /\ wire[c] \in Seq(UnitsOf)
    BY <1>1 DEF Streams, StreamsType, WiresGood, Up
  <1>4. tx[s] \in Seq(UnitsOf) /\ Below(Len(made[c]), tx[s]) /\ Below(Len(made[c]), wire[c])
    BY <1>2 DEF Line
  <1> QED BY <1>1, <1>3, <1>4

\* What is said grows by the frames of the core.
LEMMA MakesSaid ==
  ASSUME StreamsType, NEW c \in Conns, NEW by \in {"core", "self"}, Make(c, by)
  PROVE  /\ Said(c)' = Said(c) \cup (IF by = "core" THEN {Len(made[c]) + 1} ELSE {})
         /\ Len(made[c]) + 1 \notin Said(c)
         /\ \A d \in Conns \ {c} : made'[d] = made[d]
  <1> DEFINE u == made[c]
             v == Append(u, by)
             k == Len(u)
  <1>1. made'[c] = v /\ u \in Seq({"core", "self"}) /\ \A d \in Conns \ {c} : made'[d] = made[d]
    BY DEF Make, StreamsType
  <1>2. k \in Nat /\ DOMAIN u = 1 .. k /\ DOMAIN v = 1 .. (k + 1)
    BY <1>1
  <1>3. v[k + 1] = by /\ \A i \in 1 .. k : v[i] = u[i]
    BY <1>1
  <1>4. Said(c)' = {n \in DOMAIN v : v[n] = "core"}
    BY <1>1 DEF Said
  <1>5. Said(c) = {n \in DOMAIN u : u[n] = "core"}
    BY DEF Said
  <1> HIDE DEF u, v, k
  <1>6. Said(c)' = Said(c) \cup (IF by = "core" THEN {k + 1} ELSE {})
    <2>1. \A n : n \in 1 .. (k + 1) <=> n \in 1 .. k \/ n = k + 1
      BY <1>2
    <2> QED BY <1>2, <1>3, <1>4, <1>5, <2>1
  <1>7. k + 1 \notin Said(c)
    BY <1>2, <1>5
  <1> QED BY <1>1, <1>6, <1>7 DEF k, u

LEMMA MakesUnmade ==
  ASSUME Streams, Speeches, Books, NEW s \in Slots, NEW by \in {"core", "self"},
         Make(slot[s].conn, by), Known \subseteq Known'
  PROVE  Unmade'
  <1> DEFINE c == slot[s].conn
  <1>1. \A d \in Conns : d # c => made'[d] = made[d]
    BY DEF Make, Streams, StreamsType
  <1>2. c # 0 => c \in Known
    BY DEF Books, Opened
  <1>3. 0 \notin Conns
    BY DEF Conns
  <1> HIDE DEF c
  <1> QED BY <1>1, <1>2, <1>3 DEF Speeches, Unmade

LEMMA WriteSpeech ==
  ASSUME Orderly, Books, Streams, Speeches, NEW t \in Threads, Write(t),
         NEW s \in Slots, s = At(t)
  PROVE  Speeches'
  <1> DEFINE c == slot[s].conn
             k == Len(made[c])
             U == NextUnits(c)
  <1>1. /\ proc[t] # <<>> /\ Head(proc[t]).op = "write" /\ frame[s] = None
        /\ UNCHANGED <<frame, slot, owner, down, wire, inherited>>
    BY DEF Write, Doing, FrameFree, kernel
  <1>2. PICK q : proc' = [proc EXCEPT ![t] = q]
    BY SameList DEF Write, Done, Orderly
  <1>3. CASE UNCHANGED <<tx, made, lost>>
    BY <1>1, <1>2, <1>3, KnownStays, SpeechesStep DEF Framed
  <1>4. ASSUME NEW u \in Taken(s, U), tx' = [tx EXCEPT ![s] = Queued(s, u)], Make(c, "core"),
               lost' = [lost EXCEPT ![c] = @ \cup (ToSet(U) \ ToSet(u))]
        PROVE  Speeches'
    <2>1. tx'[s] = tx[s] \o u /\ \A r \in Slots \ {s} : tx'[r] = tx[r]
      BY <1>4 DEF Streams, StreamsType, Queued
    <2>2. Unmade'
      BY <1>1, <1>4, KnownStays, MakesUnmade
    <2>3. \A d \in Conns : d # c => made'[d] = made[d]
      BY <1>4 DEF Make, Streams, StreamsType
    <2>4. ASSUME Up(s), NEW p
          PROVE  Speech(None, p, c, lost'[c], Said(c)', wire[c], tx[s] \o u)
      <3>1. /\ c \in Conns /\ k \in Nat /\ wire[c] \in Seq(UnitsOf)
            /\ tx[s] \in Seq(UnitsOf) /\ Below(k, tx[s]) /\ Below(k, wire[c])
        BY <1>1, <2>4, FreeLine
      <3>2. Speech(None, proc[None], c, lost[c], Said(c), wire[c], tx[s])
        BY <1>1, <2>4 DEF Speeches, AllHeard, Heard
      <3>3. Said(c)' = Said(c) \cup {k + 1} /\ k + 1 \notin Said(c)
        <4>1. PICK d \in Conns : d = slot[s].conn /\ d = slot'[s].conn
          BY <1>1, <3>1
        <4>2. Said(d)' = Said(d) \cup {Len(made[d]) + 1} /\ Len(made[d]) + 1 \notin Said(d)
          BY <1>4, <4>1, MakesSaid DEF Streams
        <4> QED BY <4>1, <4>2 DEF Said
      <3> DEFINE W == wire[c]
                 T == tx[s]
                 C == Said(c)
                 L == lost[c]
                 M == lost'[c]
      <3>4. Tells(c, L, C, W \o T)
        BY <3>2, NoneApart DEF Speech
      <3>5. U = Units(c, k + 1)
        BY DEF NextUnits
      <3>6. L \subseteq M /\ ToSet(U) \ ToSet(u) \subseteq M
        BY <1>4, <3>1 DEF Streams, StreamsType
      <3> HIDE DEF c, k, U, W, T, C, L, M
      <3>7. /\ W \in Seq(UnitsOf) /\ T \in Seq(UnitsOf) /\ W \o T \in Seq(UnitsOf)
            /\ Below(k, W) /\ Below(k, T) /\ k + 1 \notin C
        BY <3>1, <3>3 DEF W, T, C
      <3>8. Below(k, W \o T)
        BY <3>7, JoinBelow
      <3>9. u \in Taken(s, U)
        OBVIOUS
      <3>10. Fits(c, M, k + 1, u)
        BY <3>1, <3>5, <3>6, <3>9, TakenWhole
      <3>11. u \in Seq(UnitsOf)
        BY <3>10 DEF Fits
      <3>12. Tells(c, M, C \cup {k + 1}, (W \o T) \o u)
        <4> DEFINE R == W \o T
        <4>1. R \in Seq(UnitsOf) /\ Below(k, R) /\ Tells(c, L, C, R)
          BY <3>4, <3>7, <3>8
        <4> HIDE DEF R
        <4>2. Tells(c, M, C \cup {k + 1}, R \o u)
          BY <3>1, <3>5, <3>6, <3>7, <3>9, <4>1, TellsNext
        <4> QED BY <4>2 DEF R
      <3>13. (W \o T) \o u = W \o (T \o u)
        BY <3>7, <3>11, JoinThree
      <3>14. Speech(None, p, c, M, C \cup {k + 1}, W, T \o u)
        BY <3>12, <3>13 DEF Speech
      <3> QED BY <3>3, <3>14 DEF W, T, C, M
    <2>5. Heard(s)'
      <3> SUFFICES ASSUME Up(s)'
                   PROVE  Speech(frame'[s], proc'[frame'[s]], slot'[s].conn, lost'[slot'[s].conn],
                                 Said(slot[s].conn)', wire'[slot'[s].conn], tx'[s])
        BY DEF Heard
      <3>1. Up(s)
        BY <1>1 DEF Up
      <3> QED BY <1>1, <2>1, <2>4, <3>1
    <2>6. \A r \in Slots \ {s} : Up(r) => /\ made'[slot[r].conn] = made[slot[r].conn]
                                        /\ lost'[slot[r].conn] = lost[slot[r].conn]
      <3>1. \A r \in Slots \ {s} : Up(r) => slot[r].conn \in Conns /\ slot[r].conn # c
        BY DEF Books, BooksType, OwnConn, Up, Conns
      <3>2. \A d \in Conns : d # c => lost'[d] = lost[d]
        BY <1>4 DEF Streams, StreamsType
      <3> HIDE DEF c
      <3> QED BY <2>3, <3>1, <3>2
    <2>7. \A r \in Slots : frame[r] # t
      BY <1>1 DEF Orderly, HolderSends, Framed
    <2>8. AllHeard'
      <3> HIDE DEF c, k, U
      <3> QED BY <1>1, <1>2, <2>1, <2>5, <2>6, <2>7, AllHeardBut
    <2> QED BY <2>2, <2>8 DEF Speeches
  <1>5. \/ UNCHANGED <<tx, made, lost>>
        \/ \E u \in Taken(s, U) :
             /\ tx' = [tx EXCEPT ![s] = Queued(s, u)] /\ Make(c, "core")
             /\ lost' = [lost EXCEPT ![c] = @ \cup (ToSet(U) \ ToSet(u))]
    BY DEF Write
  <1> QED BY <1>3, <1>4, <1>5

LEMMA ReplySpeech ==
  ASSUME Orderly, Books, Streams, Speeches, NEW t \in Threads, Reply(t)
  PROVE  Speeches'
  <1> DEFINE c == slot[t].conn
             k == Len(made[c])
             U == NextUnits(c)
             q == <<Send(t, SubSeq(U, 1, 1)), Send(t, SubSeq(U, 2, 2)), Do("release", t)>>
                    \o Tail(proc[t])
  <1>1. /\ proc[t] # <<>> /\ Head(proc[t]).op = "reply" /\ frame[At(t)] = None
        /\ UNCHANGED <<slot, owner, down, wire, tx, lost, inherited>>
    BY DEF Reply, Doing, FrameFree, kernel
  <1>2. t \in Slots /\ At(t) = t
    BY <1>1, WritesAt
  <1>3. CASE Done(t) /\ UNCHANGED <<frame, made>>
    BY <1>1, <1>3, KnownStays, SpeechesStep DEF Done, Framed
  <1>4. CASE /\ proc' = [proc EXCEPT ![t] = q] /\ frame' = [frame EXCEPT ![t] = t]
             /\ Make(c, "self")
    <2>1. frame'[t] = t /\ \A r \in Slots \ {t} : frame'[r] = frame[r]
      BY <1>2, <1>4 DEF Orderly, FrameType
    <2>2. Unmade'
      BY <1>1, <1>2, <1>4, KnownStays, MakesUnmade
    <2>3. \A d \in Conns : d # c => made'[d] = made[d]
      BY <1>4 DEF Make, Streams, StreamsType
    <2>4. proc'[t] = q
      BY <1>4 DEF Orderly, Listed
    <2>5. PICK S : Tail(proc[t]) \in Seq(S)
      BY <1>1, TailMoves
    <2>6. ASSUME Up(t) PROVE Speech(t, q, c, lost[c], Said(c)', wire[c], tx[t])
      <3>1. c \in Conns /\ k \in Nat
        BY <1>1, <1>2, <2>6, FreeLine
      <3>2. Speech(None, proc[None], c, lost[c], Said(c), wire[c], tx[t])
        BY <1>1, <1>2, <2>6 DEF Speeches, AllHeard, Heard
      <3>3. Said(c)' = Said(c) /\ k + 1 \notin Said(c)
        <4>1. PICK d \in Conns : d = slot[t].conn /\ d = slot'[t].conn
          BY <1>1, <3>1
        <4>2. Said(d)' = Said(d) /\ Len(made[d]) + 1 \notin Said(d)
          BY <1>4, <4>1, MakesSaid DEF Streams
        <4> QED BY <4>1, <4>2 DEF Said
      <3>4. Tells(c, lost[c], Said(c), wire[c] \o tx[t])
        BY <3>2, NoneApart DEF Speech
      <3>5. Head(q).op = "sending" /\ Rest(q) = Units(c, k + 1)
        <4> DEFINE a == Send(t, SubSeq(U, 1, 1))
                   b == Send(t, SubSeq(U, 2, 2))
                   d == Do("release", t)
                   z == Tail(proc[t])
        <4>1. Head(q) = a /\ Later(q) = b
          <5> HIDE DEF a, b, d, U
          <5>1. z \in Seq(S)
            BY <2>5
          <5> HIDE DEF z
          <5>2. Head(<<a, b, d>> \o z) = a /\ Later(<<a, b, d>> \o z) = b
            BY <5>1, HeadsOfThree
          <5> QED BY <5>2 DEF z, a, b, d
        <4>2. /\ a.op = "sending" /\ a.units = SubSeq(U, 1, 1)
              /\ b.op = "sending" /\ b.units = SubSeq(U, 2, 2)
          BY DEF Send
        <4> HIDE DEF a, b, d, z, q
        <4>3. SubSeq(U, 1, 1) \o SubSeq(U, 2, 2) = U /\ U = Units(c, k + 1)
          <5> HIDE DEF c, k
          <5> QED BY <3>1, UnitsWhole DEF NextUnits, c, k
        <4> HIDE DEF U
        <4> QED BY <4>1, <4>2, <4>3 DEF Rest
      <3> DEFINE C == Said(c)
      <3> HIDE DEF q, k, c, C
      <3>6. Silent(C, Rest(q))
        <4>1. \A j \in 1 .. Len(Units(c, k + 1)) : Units(c, k + 1)[j].n = k + 1
          BY DEF Units
        <4> QED BY <3>3, <3>5, <4>1 DEF Silent, C
      <3>7. Speech(t, q, c, lost[c], C, wire[c], tx[t])
        BY <3>4, <3>5, <3>6 DEF Speech, C
      <3> QED BY <3>3, <3>7 DEF C
    <2>7. Heard(t)'
      <3> HIDE DEF q
      <3> SUFFICES ASSUME Up(t)'
                   PROVE  Speech(frame'[t], proc'[frame'[t]], slot'[t].conn, lost'[slot'[t].conn],
                                 Said(slot[t].conn)', wire'[slot'[t].conn], tx'[t])
        BY DEF Heard
      <3>1. Up(t)
        BY <1>1 DEF Up
      <3> QED BY <1>1, <2>1, <2>4, <2>6, <3>1
    <2>8. \A r \in Slots \ {t} : Up(r) => made'[slot[r].conn] = made[slot[r].conn]
      <3>1. \A r \in Slots \ {t} : Up(r) => slot[r].conn \in Conns /\ slot[r].conn # c
        BY <1>2 DEF Books, BooksType, OwnConn, Up, Conns
      <3> QED BY <2>3, <3>1
    <2>9. \A r \in Slots : frame[r] # t
      BY <1>1 DEF Orderly, HolderSends, Framed
    <2>10. AllHeard'
      <3> HIDE DEF c, k, U, q
      <3> QED BY <1>1, <1>2, <1>4, <2>1, <2>7, <2>8, <2>9, AllHeardBut
    <2> QED BY <2>2, <2>10 DEF Speeches
  <1> QED BY <1>2, <1>3, <1>4 DEF Reply, Then

LEMMA FlushSpeech ==
  ASSUME Orderly, Books, Streams, Speeches, NEW t \in Threads, Flush(t),
         NEW s \in Slots, s = At(t)
  PROVE  Speeches'
  <1> DEFINE a == Send(s, tx[s])
             b == Do("empty", s)
             q == <<a, b>> \o Tail(proc[t])
             c == slot[s].conn
  <1>1. /\ proc[t] # <<>> /\ Head(proc[t]).op = "flush"
        /\ UNCHANGED <<slot, owner, down, wire, tx, made, lost, inherited>>
    BY DEF Flush, Doing, kernel, history
  <1>2. t \notin Slots
    BY <1>1, WritesAt
  <1>3. CASE Done(t) /\ UNCHANGED frame
    BY <1>1, <1>3, KnownStays, SpeechesStep DEF Done, Framed
  <1>4. CASE /\ proc' = [proc EXCEPT ![t] = q] /\ frame' = [frame EXCEPT ![s] = t]
             /\ frame[s] = None
    <2>1. frame'[s] = t /\ \A r \in Slots \ {s} : frame'[r] = frame[r]
      BY <1>4 DEF Orderly, FrameType
    <2>2. Unmade'
      BY <1>1 DEF Speeches, Unmade, Known
    <2>3. PICK S : Tail(proc[t]) \in Seq(S)
      BY <1>1, TailMoves
    <2>4. Head(q).op = "sending"
      <3>1. Head(q) = a
        <4> HIDE DEF a, b
        <4> QED BY <2>3, HeadsOf
      <3> QED BY <3>1 DEF Send
    <2>5. proc'[t] = q
      BY <1>4 DEF Orderly, Listed
    <2>6. ASSUME Up(s) PROVE Speech(t, q, c, lost[c], Said(c), wire[c], tx[s])
      <3>1. Speech(None, proc[None], c, lost[c], Said(c), wire[c], tx[s])
        BY <1>4, <2>6 DEF Speeches, AllHeard, Heard
      <3> HIDE DEF q, c
      <3> QED BY <1>2, <2>4, <3>1, NoneApart DEF Speech
    <2>7. Heard(s)'
      <3> HIDE DEF q
      <3> SUFFICES ASSUME Up(s)'
                   PROVE  Speech(frame'[s], proc'[frame'[s]], slot'[s].conn, lost'[slot'[s].conn],
                                 Said(slot[s].conn)', wire'[slot'[s].conn], tx'[s])
        BY DEF Heard
      <3>1. Up(s)
        BY <1>1 DEF Up
      <3>2. Said(slot[s].conn)' = Said(slot[s].conn)
        BY <1>1 DEF Said
      <3> QED BY <1>1, <2>1, <2>5, <2>6, <3>1, <3>2
    <2>8. \A r \in Slots : frame[r] # t
      BY <1>1 DEF Orderly, HolderSends, Framed
    <2>9. AllHeard'
      <3> HIDE DEF q
      <3> QED BY <1>1, <1>4, <2>1, <2>7, <2>8, AllHeardBut
    <2> QED BY <2>2, <2>9 DEF Speeches
  <1> QED BY <1>3, <1>4 DEF Flush, Then, FrameFree

LEMMA ReleaseSpeech ==
  ASSUME Orderly, Books, Streams, Speeches, NEW t \in Threads, Release(t),
         NEW s \in Slots, s = At(t)
  PROVE  Speeches'
  <1> DEFINE c == slot[s].conn
  <1>1. /\ proc[t] # <<>> /\ Head(proc[t]).op \in {"release", "empty"}
        /\ frame' = [frame EXCEPT ![s] = None] /\ proc' = [proc EXCEPT ![t] = Tail(proc[t])]
        /\ tx' = IF Head(proc[t]).op = "empty" THEN [tx EXCEPT ![s] = <<>>] ELSE tx
        /\ UNCHANGED <<slot, owner, down, wire, made, lost, inherited>>
    BY DEF Release, Doing, Done, kernel, history
  <1>2. frame[s] = t
    BY <1>1 DEF Orderly, SenderHolds, Framed, At
  <1>3. Unmade'
    BY <1>1 DEF Speeches, Unmade, Known
  <1>4. frame'[s] = None /\ \A r \in Slots \ {s} : frame'[r] = frame[r] /\ tx'[r] = tx[r]
    BY <1>1 DEF Orderly, FrameType, Streams, StreamsType
  <1>5. tx'[s] = IF Head(proc[t]).op = "empty" THEN <<>> ELSE tx[s]
    BY <1>1 DEF Streams, StreamsType
  <1>6. ASSUME Up(s), NEW q PROVE Speech(None, q, c, lost[c], Said(c), wire[c], tx'[s])
    <2>1. Speech(t, proc[t], c, lost[c], Said(c), wire[c], tx[s])
      BY <1>2, <1>6 DEF Speeches, AllHeard, Heard
    <2>2. wire[c] \o <<>> = wire[c]
      BY <1>6 DEF Books, BooksType, Up, Conns, Streams, WiresGood
    <2> HIDE DEF c
    <2>3. CASE Head(proc[t]).op = "empty"
      BY <1>5, <2>1, <2>2, <2>3, NoneApart DEF Speech
    <2>4. CASE Head(proc[t]).op # "empty"
      <3>1. Head(proc[t]).op = "release" /\ tx'[s] = tx[s]
        BY <1>1, <1>5, <2>4
      <3> QED BY <2>1, <3>1, NoneApart DEF Speech
    <2> QED BY <2>3, <2>4
  <1>7. Heard(s)'
    <2> SUFFICES ASSUME Up(s)'
                 PROVE  Speech(frame'[s], proc'[frame'[s]], slot'[s].conn, lost'[slot'[s].conn],
                               Said(slot[s].conn)', wire'[slot'[s].conn], tx'[s])
      BY DEF Heard
    <2>1. Up(s)
      BY <1>1 DEF Up
    <2>2. Said(slot[s].conn)' = Said(slot[s].conn)
      BY <1>1 DEF Said
    <2> QED BY <1>1, <1>4, <1>6, <2>1, <2>2
  <1>8. \A r \in Slots : frame[r] = t => r = s
    BY DEF Orderly, HolderSends, At
  <1>9. AllHeard'
    BY <1>1, <1>4, <1>7, <1>8, AllHeardBut
  <1> QED BY <1>3, <1>9 DEF Speeches

LEMMA SendsAllSpeech ==
  ASSUME Orderly, Books, Sends, Streams, Speeches, NEW t \in Threads, SendsAll(t),
         NEW s \in Slots, s = At(t), Up(s)
  PROVE  Speeches'
  <1> DEFINE c == slot[s].conn
             q == proc[t]
             p == Tail(q)
             h == Head(q).units
             L == lost[c]
             C == Said(c)
             W == wire[c]
             T == tx[s]
  <1>1. /\ Doing(t, "sending") /\ Head(q).op = "sending"
        /\ proc' = [proc EXCEPT ![t] = p]
        /\ UNCHANGED <<lock, frame, slot, tx, bound, owner, down, made, lost, inherited>>
    BY DEF SendsAll, Doing, Done, history
  <1>2. Up(s) /\ wire' = [wire EXCEPT ![c] = @ \o h]
    <2>1. LET d == Peer(Head(proc[t]).fd) IN
            d # 0 /\ d \notin down /\ wire' = [wire EXCEPT ![d] = @ \o Head(proc[t]).units]
      BY DEF SendsAll
    <2> QED BY <1>1, <2>1, SendsToOwn
  <1>3. c \in Conns /\ W \in Seq(UnitsOf)
    BY <1>2 DEF Books, BooksType, Up, Conns, Streams, WiresGood
  <1>4. frame[s] = t /\ \A r \in Slots : frame[r] = t => r = s
    BY <1>1, AfterSending
  <1>5. Line(t, q, c, L, Len(made[c]), W, T) /\ Speech(t, q, c, L, C, W, T)
    BY <1>2, <1>4 DEF Streams, AllAligned, Aligned, Speeches, AllHeard, Heard
  <1>6. /\ Head(p).op \in Framed /\ (t \notin Slots => Head(p).op = "empty")
        /\ Head(p).op = "sending" => Later(p).op = "release"
    BY <1>1, AfterSending, SecondLast DEF Later
  <1>7. t \in Slots => Head(p).op # "empty"
    <2>1. PICK S : p \in Seq(S) /\ Apt(t, p)
      BY <1>1, TailMoves DEF Doing
    <2>2. p # <<>>
      BY <1>1, AfterSending
    <2>3. 1 \in 1 .. Len(p) /\ p[1] = Head(p)
      BY <2>1, <2>2
    <2> QED BY <2>1, <2>3 DEF Apt
  <1>8. wire'[c] = W \o h /\ \A d \in Conns : d # c => wire'[d] = wire[d]
    BY <1>2, <1>3 DEF Streams, StreamsType
  <1>9. Later(q) = Head(p)
    BY DEF Later
  <1>10. Speech(t, p, c, L, C, W \o h, T)
    <2> HIDE DEF c, p, q, L, C, W, T
    <2>1. Tells(c, L, C, W \o T) /\ T \in Seq(UnitsOf) /\ h \in Seq(UnitsOf)
      BY <1>1, <1>3, <1>5, OnItsWayGood, NoneApart DEF Speech, Line
    <2>2. CASE t \notin Slots
      <3>1. h = T
        BY <1>1, <1>5, <2>2, NoneApart DEF Line, Phase
      <3> HIDE DEF h
      <3> QED BY <1>6, <2>1, <2>2, <3>1 DEF Speech
    <2>3. CASE t \in Slots
      <3>1. Silent(C, Rest(q))
        BY <1>1, <1>5, <2>3, NoneApart DEF Speech
      <3>2. CASE Head(p).op = "sending"
        <4> DEFINE l == Head(p).units
        <4>1. UnitsTyped(q)
          BY <1>1, <1>5, <2>3, NoneApart DEF Line, Phase
        <4>2. Rest(q) = h \o l /\ l \in Seq(UnitsOf) /\ Rest(p) = l
          BY <1>6, <1>9, <3>2, <4>1 DEF Rest, UnitsTyped
        <4> HIDE DEF h, l
        <4>3. Silent(C, h) /\ Silent(C, l)
          <5>1. \A i \in 1 .. Len(h) : i \in 1 .. Len(h \o l) /\ (h \o l)[i] = h[i]
            BY <2>1, <4>2, JoinLen
          <5>2. \A i \in 1 .. Len(l) : /\ Len(h) + i \in 1 .. Len(h \o l)
                                        /\ (h \o l)[Len(h) + i] = l[i]
            BY <2>1, <4>2, JoinLen
          <5> QED BY <3>1, <4>2, <5>1, <5>2 DEF Silent
        <4>4. Tells(c, L, C, (W \o h) \o T)
          BY <1>3, <2>1, <4>3, TellsBetween
        <4> QED BY <3>2, <4>2, <4>3, <4>4 DEF Speech
      <3>3. CASE Head(p).op # "sending"
        <4>1. Head(p).op = "release"
          BY <1>6, <1>7, <2>3, <3>3 DEF Framed
        <4>2. Rest(q) = h
          BY <1>9, <3>3 DEF Rest
        <4> HIDE DEF h
        <4>3. Tells(c, L, C, (W \o h) \o T)
          BY <1>3, <2>1, <3>1, <4>2, TellsBetween
        <4> QED BY <4>1, <4>3 DEF Speech
      <3> QED BY <3>2, <3>3
    <2> QED BY <2>2, <2>3
  <1>11. Unmade'
    BY <1>1 DEF Speeches, Unmade, Known
  <1>12. proc'[t] = p
    BY <1>1 DEF Orderly, Listed
  <1>13. Heard(s)'
    <2>1. Said(slot[s].conn)' = Said(slot[s].conn)
      BY <1>1 DEF Said
    <2> SUFFICES Speech(frame'[s], proc'[frame'[s]], slot'[s].conn, lost'[slot'[s].conn],
                        Said(slot[s].conn)', wire'[slot'[s].conn], tx'[s])
      BY DEF Heard
    <2> QED BY <1>1, <1>4, <1>8, <1>10, <1>12, <2>1
  <1>14. \A r \in Slots \ {s} : Up(r) => wire'[slot[r].conn] = wire[slot[r].conn]
    <2>1. \A r \in Slots \ {s} : Up(r) => slot[r].conn \in Conns /\ slot[r].conn # c
      BY <1>2 DEF Books, BooksType, OwnConn, Up, Conns
    <2> QED BY <1>8, <2>1
  <1>15. AllHeard'
    <2> HIDE DEF c, p, q, h, L, C, W, T
    <2> QED BY <1>1, <1>4, <1>13, <1>14, AllHeardBut
  <1> QED BY <1>11, <1>15 DEF Speeches

\* A send to a connection that is not the slot's own tells nobody anything.
LEMMA SendsAllElsewhere ==
  ASSUME Orderly, Books, Sends, Streams, Speeches, NEW t \in Threads, SendsAll(t),
         NEW s \in Slots, s = At(t), ~Up(s)
  PROVE  Speeches'
  <1> DEFINE d == Peer(Head(proc[t]).fd)
             h == Head(proc[t]).units
  <1>1. /\ Doing(t, "sending") /\ proc' = [proc EXCEPT ![t] = Tail(proc[t])]
        /\ UNCHANGED <<lock, frame, slot, tx, bound, owner, down, made, lost, inherited>>
        /\ d # 0 /\ d \notin down /\ wire' = [wire EXCEPT ![d] = @ \o h]
    BY DEF SendsAll, Doing, Done, history
  <1>2. \A r \in Slots : Up(r) => slot[r].conn # d
    <2>1. \A r \in Slots : Up(r) /\ d = slot[r].conn => r = s
      BY <1>1, SendsToOwn
    <2> QED BY <2>1
  <1> HIDE DEF d, h
  <1>3. \A r \in Slots : Up(r) => wire'[slot[r].conn] = wire[slot[r].conn]
    <2>1. \A r \in Slots : Up(r) => slot[r].conn \in Conns
      BY DEF Books, BooksType, Up, Conns
    <2> QED BY <1>1, <1>2, <2>1 DEF Streams, StreamsType
  <1>4. Unmade'
    BY <1>1 DEF Speeches, Unmade, Known
  <1>5. Heard(s)'
    BY <1>1 DEF Heard, Up
  <1>6. \A r \in Slots : frame[r] = t => r = s
    BY <1>1, AfterSending
  <1>7. AllHeard'
    BY <1>1, <1>3, <1>5, <1>6, AllHeardBut
  <1> QED BY <1>4, <1>7 DEF Speeches

LEMMA SendFailsSpeech ==
  ASSUME Orderly, Books, Sends, Streams, Speeches, NEW t \in Threads, SendFails(t),
         NEW s \in Slots, s = At(t)
  PROVE  Speeches'
  <1> DEFINE h == Head(proc[t]).units
             d == Peer(Head(proc[t]).fd)
  <1>1. /\ Doing(t, "sending")
        /\ proc' = [proc EXCEPT ![t] = GivesUp(t)] /\ down' = ShutDown(d)
        /\ UNCHANGED <<lock, frame, slot, tx, bound, owner, made, lost, inherited>>
    BY DEF SendFails, history
  <1>2. PICK m \in 0 .. (Len(h) - 1) :
          /\ m > 0 => d # 0 /\ d \notin down
          /\ wire' = IF m = 0 THEN wire ELSE [wire EXCEPT ![d] = @ \o SubSeq(h, 1, m)]
    BY DEF SendFails
  <1>3. /\ Up(s) => d = slot[s].conn /\ d \in Conns
        /\ \A r \in Slots : Up(r) /\ d = slot[r].conn => r = s
    BY <1>1, SendsToOwn
  <1> HIDE DEF d, h
  <1>4. down \subseteq down' /\ ~Up(s)'
    BY <1>1, <1>3 DEF ShutDown, Up
  <1>5. frame[s] = t /\ \A r \in Slots : frame[r] = t => r = s
    BY <1>1, AfterSending
  <1>6. Known \subseteq Known'
    BY <1>1, <1>4, KnownStays
  <1>7. Unmade'
    BY <1>1, <1>6 DEF Speeches, Unmade
  <1>8. Heard(s)'
    BY <1>4 DEF Heard
  <1>9. \A r \in Slots \ {s} : Up(r) => wire'[slot[r].conn] = wire[slot[r].conn]
    <2> SUFFICES ASSUME NEW r \in Slots \ {s}, Up(r), m # 0
                 PROVE  wire'[slot[r].conn] = wire[slot[r].conn]
      BY <1>2
    <2>1. slot[r].conn \in Conns /\ slot[r].conn # d
      BY <1>3 DEF Books, BooksType, Up, Conns
    <2>2. wire' = [wire EXCEPT ![d] = @ \o SubSeq(h, 1, m)]
      BY <1>2
    <2> QED BY <2>1, <2>2 DEF Streams, StreamsType
  <1>10. AllHeard'
    <2>1. PICK g : proc' = [proc EXCEPT ![t] = g]
      BY <1>1
    <2>2. \A r \in Slots \ {s} : tx'[r] = tx[r] /\ frame'[r] = frame[r]
      BY <1>1
    <2> QED BY <1>1, <1>4, <1>5, <1>8, <1>9, <2>1, <2>2, AllHeardBut
  <1> QED BY <1>7, <1>10 DEF Speeches

\* Nothing was said on a new connection.
LEMMA AcceptsSpeech ==
  ASSUME Orderly, Books, Streams, Speeches, NEW s \in Slots, Accepts(s)
  PROVE  Speeches'
  <1> DEFINE k == Accepted + 1
  <1>1. PICK fd \in Fds :
          /\ owner[fd] = 0
          /\ owner' = [owner EXCEPT ![fd] = k]
          /\ slot' = [slot EXCEPT ![s] = [fd |-> fd, conn |-> k]]
          /\ OnItsWay(s, fd) => k \in inherited'
          /\ inherited \subseteq inherited'
    BY AcceptsMakes
  <1>2. UNCHANGED <<down, wire, made, frame, lost>> /\ tx' = [tx EXCEPT ![s] = <<>>]
        /\ Accepted < MaxConns
    BY DEF Accepts
  <1>3. k \in Conns /\ k \notin Known
    BY <1>2, AcceptedIs
  <1> HIDE DEF k
  <1>4. frame[s] = None \/ k \in inherited'
    BY <1>1 DEF OnItsWay
  <1>5. \A r \in Threads : r # s => proc'[r] = proc[r]
    <2>1. PICK q : proc' = [proc EXCEPT ![s] = q]
      BY DEF Accepts, Begin
    <2> QED BY <2>1 DEF Orderly, Listed
  <1>6. Known \subseteq Known'
    <2>1. \A f \in Fds : owner'[f] = owner[f] \/ owner[f] = 0
      BY <1>1 DEF Books, BooksType
    <2>2. 0 \notin Conns
      BY DEF Conns
    <2> QED BY <1>2, <2>1, <2>2 DEF Known
  <1>7. Unmade'
    BY <1>2, <1>6 DEF Speeches, Unmade
  <1>8. ASSUME NEW r \in Slots PROVE Heard(r)'
    <2>1. CASE r = s
      <3>1. slot'[s].conn = k /\ tx'[s] = <<>> /\ wire'[k] = <<>>
        BY <1>1, <1>2, <1>3 DEF Books, BooksType, Streams, StreamsType, Unheard
      <3>2. Up(s)' => frame'[s] = None
        BY <1>2, <1>4, <3>1 DEF Up
      <3>3. made'[k] = <<>>
        BY <1>2, <1>3 DEF Speeches, Unmade
      <3>4. Said(slot[s].conn)' = {}
        BY <3>1, <3>3 DEF Said
      <3> DEFINE q == proc'[frame'[s]]
                 L == lost'[k]
      <3> HIDE DEF q, L
      <3>5. <<>> \o <<>> = <<>>
        OBVIOUS
      <3>6. Tells(k, L, {}, <<>>)
        BY DEF Tells, HasBut, InOrder
      <3>7. Speech(None, q, k, L, {}, <<>>, <<>>)
        BY <3>5, <3>6 DEF Speech
      <3> QED BY <2>1, <3>1, <3>2, <3>4, <3>7 DEF Heard, q, L
    <2>2. CASE r # s
      <3>1. slot'[r] = slot[r] /\ tx'[r] = tx[r]
        BY <1>1, <1>2, <2>2 DEF Books, BooksType, Streams, StreamsType
      <3>2. frame[r] # s
        BY NoneApart DEF Orderly, HolderSends, Accepts, Begin
      <3>3. frame[r] \in Threads => proc'[frame[r]] = proc[frame[r]]
        BY <1>5, <3>2
      <3>4. Heard(r)
        BY DEF Speeches, AllHeard
      <3> QED BY <1>1, <1>2, <3>1, <3>3, <3>4, HeardStays
    <2> QED BY <2>1, <2>2
  <1> QED BY <1>7, <1>8 DEF Speeches, AllHeard

LEMMA OthersSpeech ==
  ASSUME Orderly, Books, Speeches,
         \/ Ticks \/ Calls \/ AppLeaves \/ Watchdog \/ UNCHANGED vars
         \/ \E t \in Threads : Unlock(t) \/ Core(t) \/ Parks(t)
         \/ \E s \in Slots : Serves(s) \/ Connection(s)
  PROVE  Speeches'
  <1>1. CASE Ticks \/ Calls \/ \E t \in Threads : Unlock(t) \/ Core(t)
    <2>1. UNCHANGED <<wire, made, tx, frame, slot, owner, down, lost, inherited>>
      BY <1>1 DEF Ticks, Calls, Unlock, Core, kernel, history
    <2>2. PICK t, q :
        /\ t \in Threads /\ proc' = [proc EXCEPT ![t] = q]
        /\ proc[t] = <<>> \/ Head(proc[t]).op \notin Framed
      BY <1>1 DEF Ticks, Calls, Unlock, Core, Begin, Done, Then, Doing, Threads, Framed
    <2> QED BY <2>1, <2>2, KnownStays, SpeechesStep
  <1>2. CASE AppLeaves \/ Watchdog \/ UNCHANGED vars \/ \E t \in Threads : Parks(t)
    <2>1. /\ UNCHANGED <<wire, made, tx, frame, slot, owner, proc, lost, inherited>>
          /\ down \subseteq down'
      BY <1>2 DEF AppLeaves, Watchdog, Parks, vars, kernel, history
    <2> QED BY <2>1, KnownStays, SpeechesStay
  <1>3. ASSUME NEW s \in Slots, Serves(s) \/ Connection(s) PROVE Speeches'
    <2>1. /\ UNCHANGED <<wire, made, tx, frame, lost, inherited>> /\ down \subseteq down'
          /\ s \in Threads
      BY <1>3, NoneApart
         DEF Serves, Connection, Attach, Answer, Ends, Detach, Closes, Clears, kernel, history
    <2>2. PICK q : proc' = [proc EXCEPT ![s] = q]
      BY <1>3 DEF Serves, Connection, Attach, Answer, Ends, Detach, Closes, Clears, Begin, Done,
                  Then
    <2>3. proc[s] = <<>> \/ Head(proc[s]).op \notin Framed
      BY <1>3 DEF Serves, Connection, Attach, Answer, Ends, Detach, Closes, Clears, Begin, Doing,
                  Framed
    <2>4. \A r \in Slots : slot'[r].conn = slot[r].conn
      BY <1>3, ConnectionKeepsConns
    <2>5. Known \subseteq Known'
      BY <1>3, ConnectionKeepsConns
    <2> QED BY <2>1, <2>2, <2>3, <2>4, <2>5, SpeechesStep
  <1> QED BY <1>1, <1>2, <1>3

LEMMA SpeechesNext ==
  ASSUME Orderly, Books, Sends, Streams, Speeches, [Next]_vars
  PROVE  Speeches'
  <1>1. ASSUME NEW t \in Threads, Writing(t) PROVE Speeches'
    <2>1. CASE Parks(t)
      BY <2>1, OthersSpeech
    <2>2. ~Reply(t) /\ ~Parks(t) => At(t) \in Slots
      BY <1>1, WritingAt
    <2> QED BY <1>1, <2>1, <2>2, WriteSpeech, ReplySpeech, FlushSpeech, SendsAllSpeech,
               SendsAllElsewhere, SendFailsSpeech, ReleaseSpeech DEF Writing, Sending
  <1>2. ASSUME NEW s \in Slots, Accepts(s) PROVE Speeches'
    BY <1>2, AcceptsSpeech
  <1> QED BY <1>1, <1>2, OthersSpeech DEF Next

(* Nothing the core says on a connection is lost but what found the queue full, and nothing is said
   twice or overtaken by what it says later, for any number of slots, connections, frames and any
   length of the queue (net_socket.c:669-717): while the connection is up it is on the wire or
   queued, in the order the core made it, half frames included.  A connection that was given a
   slot or a number under a write for its last owner is left out (788-795). *)
THEOREM CoreIsHeard == Spec => []NothingLost
  <1> DEFINE Inv == Orderly /\ BoundType /\ StageType /\ Books /\ Sends /\ Streams /\ Speeches
  <1>1. Init => Inv
    BY OrderlyInit, BoundInit, StageInit, BooksInit, SendsInit, StreamsInit, SpeechesInit
  <1>2. Inv /\ [Next]_vars => Inv'
    BY OrderlyStep, BoundStep, StageStep, BooksStep, SendsStep, StreamsNext, SpeechesNext
  <1>3. Inv => NothingLost
    BY SpeechIsWhole
  <1> QED BY <1>1, <1>2, <1>3, PTL DEF Spec
=============================================================================
