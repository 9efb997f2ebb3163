------------------------------ MODULE WsFrames ------------------------------
(***************************************************************************)
(* The reading side of a WebSocket connection (ws.c:362-596) and the loop  *)
(* of the connection thread around it (net_socket.c:741-782): handshake,   *)
(* frames out of a byte stream that comes in pieces of any size, control   *)
(* frames between the fragments of a message, and the errors that end the  *)
(* connection.  A unit stands for the bytes of one read: the two byte head *)
(* of a frame, its longer length, its mask or a piece of its payload.      *)
(***************************************************************************)
EXTENDS Integers, SequencesExt, FiniteSetsExt

CONSTANTS
  Frames,       \* the frames an App may send: op, fin, masked, size (pieces of payload)
  Short,        \* a payload of more than this has the longer length (125 bytes)
  MaxMessage,   \* WS_MAX_MESSAGE, in pieces
  MaxHandshake, \* WS_MAX_HANDSHAKE, in units
  MaxFrames     \* bound: frames sent

Opcodes == {"text", "binary", "continuation", "ping", "pong", "close", "other"}
Data == {"text", "binary", "continuation"}

ASSUME FramesAssumption ==
  /\ \A f \in Frames : /\ f.op \in Opcodes /\ f.size \in Nat
                       /\ f.fin \in BOOLEAN /\ f.masked \in BOOLEAN
  /\ Short \in Nat /\ MaxMessage \in Nat /\ MaxHandshake \in Nat /\ MaxFrames \in Nat

-----------------------------------------------------------------------------
(* What a sequence of frames means: RFC 6455 with the limits of this server, no reader in it. *)

\* A place in what the App sends: piece k of frame i, and with k = 0 the frame's head.
Precedes(p, q) == p[1] < q[1] \/ (p[1] = q[1] /\ p[2] < q[2])

\* The places of a set, one after the other.
InOrder(P) ==
  [n \in 1..Cardinality(P) |->
     CHOOSE p \in {q \in P : Cardinality({r \in P : Precedes(r, q)}) = n - 1} : TRUE]

Payload(i, f) == [k \in 1..f.size |-> <<i, k>>]

IsData(fs, i) == fs[i].op \in Data
\* The first frame of the message frame i belongs to.
FirstOf(fs, i) == Max({j \in 1..i : fs[j].op \in {"text", "binary"}} \cup {0})
\* A message is open before frame i.
Open(fs, i) == \E j \in 1..(i - 1) : /\ IsData(fs, j) /\ ~fs[j].fin
                                     /\ \A k \in (j + 1)..(i - 1) : ~IsData(fs, k)

\* The pieces of a message up to frame i.
PiecesOf(i, f) == {<<i, k>> : k \in 1..f.size}
Parts(fs, i) == {j \in 1..i : FirstOf(fs, i) <= j /\ IsData(fs, j)}
DataOf(fs, i) == InOrder(UNION {PiecesOf(j, fs[j]) : j \in Parts(fs, i)})

Wrong(fs, i) ==
  \/ ~fs[i].masked \/ fs[i].size > MaxMessage \/ fs[i].op = "other"
  \/ fs[i].op \in {"text", "binary"} /\ Open(fs, i)
  \/ fs[i].op = "continuation" /\ ~Open(fs, i)
  \/ IsData(fs, i) /\ Len(DataOf(fs, i)) > MaxMessage

\* The frames that count: up to a close or the first wrong one.
Good(fs) == Min({i \in DOMAIN fs : Wrong(fs, i) \/ fs[i].op = "close"} \cup {Len(fs) + 1}) - 1

\* The messages they make and the payloads of the pings among them.
Ends(fs) == InOrder({<<i, 0>> : i \in {j \in 1..Good(fs) : IsData(fs, j) /\ fs[j].fin}})
Pings(fs) == InOrder({<<i, 0>> : i \in {j \in 1..Good(fs) : fs[j].op = "ping"}})
MessageAt(fs, i) == [op |-> fs[FirstOf(fs, i)].op, data |-> DataOf(fs, i)]

Meaning(fs) ==
  [good |-> Good(fs),
   messages |-> [k \in DOMAIN Ends(fs) |-> MessageAt(fs, Ends(fs)[k][1])],
   pings |-> [k \in DOMAIN Pings(fs) |-> Payload(Pings(fs)[k][1], fs[Pings(fs)[k][1]])]]

-----------------------------------------------------------------------------
VARIABLES
  script,     \* the frames the App has sent (external)
  meant,      \* what they mean: Meaning(script), a history
  stream,     \* units that have not been read (external)
  left,       \* the App has closed its side (external)
  rx,         \* conn->rx
  shaken,     \* handshake_done
  message,    \* the message wsConnRecv is at: started, its opcode and the pieces so far
  delivered,  \* messages handed to the core
  ponged,     \* payloads of the pings that were answered
  fresh,      \* pings since wsConnRecv was called
  active,     \* calls of dglabNetServerOnActivity
  ended       \* why the thread left its loop: "no", "handshake", "lost", "closed", "error"

wsVars == <<script, meant, stream, left, rx, shaken, message, delivered, ponged, fresh, active,
            ended>>
app == <<script, meant, stream, left>>

NoMessage == [started |-> FALSE, op |-> "text", data |-> <<>>]

\* The request up to its blank line.
Request == <<[f |-> 0, part |-> "request"], [f |-> 0, part |-> "blank"]>>

WsInit ==
  /\ script = <<>> /\ meant = Meaning(<<>>) /\ stream = Request /\ left = FALSE
  /\ rx = <<>> /\ shaken = FALSE /\ message = NoMessage
  /\ delivered = <<>> /\ ponged = <<>> /\ fresh = 0 /\ active = 0 /\ ended = "no"

-----------------------------------------------------------------------------
(* The App. *)

Unit == [f : Nat, part : {"request", "blank", "head", "length", "mask", "piece"}]

UnitsOf(i, f) ==
  [k \in 1..(2 + (IF f.size > Short THEN 1 ELSE 0)) |->
     [f |-> i, part |-> IF k = 1 THEN "head" ELSE IF k = 3 THEN "mask" ELSE
                        IF f.size > Short THEN "length" ELSE "mask"]]
    \o [k \in 1..f.size |-> [f |-> i, part |-> "piece"]]

AppSends ==
  /\ ~left /\ ended = "no" /\ Len(script) < MaxFrames
  /\ \E f \in Frames :
       /\ script' = Append(script, f) /\ meant' = Meaning(script')
       /\ stream' = stream \o UnitsOf(Len(script) + 1, f)
  /\ UNCHANGED <<left, rx, shaken, message, delivered, ponged, fresh, active, ended>>

AppLeaves ==
  /\ ~left /\ left' = TRUE
  /\ UNCHANGED <<script, meant, stream, rx, shaken, message, delivered, ponged, fresh, active,
                 ended>>

-----------------------------------------------------------------------------
(* Reading. *)

Frame == script[rx[1].f]
LengthUnits == IF Frame.size > Short THEN 1 ELSE 0
HeaderLen == 2 + LengthUnits

\* Mutant: the mask of a frame with the longer length is not counted.
FlatHeader == 2 + Frame.size

\* Head, longer length and mask, and the payload.
FrameLen == HeaderLen + Frame.size

Complete == rx # <<>> /\ Len(rx) >= 1 + LengthUnits

\* What wsReadFrame reads on: masked and not too long.
Acceptable == Frame.masked /\ Frame.size <= MaxMessage

\* What wsReadExact asks for: the head, the length it announces, then the rest of a frame
\* that is masked and not too long.
Wanted == IF rx = <<>> THEN 1 ELSE IF ~Complete THEN 1 + LengthUnits ELSE FrameLen

Reading == shaken /\ ended = "no"

\* A read returns what there is, up to what was asked for.
Pieces(n) == {SubSeq(stream, 1, k) : k \in 1..Min({n, Len(stream)})}

Read ==
  /\ Reading /\ Len(rx) < Wanted /\ (Complete => Acceptable)
  /\ stream # <<>>
  /\ \E p \in Pieces(Wanted - Len(rx)) :
       rx' = rx \o p /\ stream' = SubSeq(stream, Len(p) + 1, Len(stream))
  /\ UNCHANGED <<script, meant, left, shaken, message, delivered, ponged, fresh, active, ended>>

End(why) == ended' = why

\* Nothing more comes.
ReadFails ==
  /\ ended = "no" /\ stream = <<>> /\ left
  /\ IF shaken THEN Len(rx) < Wanted /\ (Complete => Acceptable) ELSE TRUE
  /\ End(IF shaken THEN "lost" ELSE "handshake")
  /\ UNCHANGED <<app, rx, shaken, message, delivered, ponged, fresh, active>>

\* wsReadFrame turns a frame away before its payload is read.
Refuses ==
  /\ Reading /\ Complete /\ ~Acceptable /\ End("error")
  /\ UNCHANGED <<app, rx, shaken, message, delivered, ponged, fresh, active>>

\* wsConnHandshake: everything that came with the end of the header block stays in rx.
Shakes ==
  /\ ~shaken /\ ended = "no" /\ stream # <<>>
  /\ \E p \in Pieces(MaxHandshake - Len(rx)) :
       LET all == rx \o p IN
       /\ stream' = SubSeq(stream, Len(p) + 1, Len(stream))
       /\ IF all[Len(all)].f = 0 /\ all[Len(all)].part = "request"
          THEN rx' = all /\ UNCHANGED <<shaken, ended>>
          ELSE \/ shaken' = TRUE /\ rx' = SubSeq(all, 3, Len(all)) /\ UNCHANGED ended
               \/ End("handshake") /\ UNCHANGED <<rx, shaken>>
  /\ UNCHANGED <<script, meant, left, message, delivered, ponged, fresh, active>>

-----------------------------------------------------------------------------
(* wsConnRecv: a whole frame is in rx. *)

Whole(op) == Reading /\ Complete /\ Acceptable /\ Len(rx) >= FrameLen /\ Frame.op = op

\* wsDropFrame.
DropFrame == SubSeq(rx, FrameLen + 1, Len(rx))

\* The pong may not get out.
OnPing ==
  /\ Whole("ping") /\ rx' = DropFrame
  /\ \/ ponged' = Append(ponged, Payload(rx[1].f, Frame)) /\ UNCHANGED ended
     \/ End("lost") /\ UNCHANGED ponged
  /\ fresh' = fresh + 1
  /\ UNCHANGED <<app, shaken, message, delivered, active>>

OnPong ==
  /\ Whole("pong") /\ rx' = DropFrame
  /\ UNCHANGED <<app, shaken, message, delivered, ponged, fresh, active, ended>>

OnClose ==
  /\ Whole("close") /\ rx' = DropFrame /\ End("closed")
  /\ UNCHANGED <<app, shaken, message, delivered, ponged, fresh, active>>

\* Mutant: only a new message in the middle of another one is an error.
ToleratesStray(op) == op = "other" \/ (op # "continuation" /\ message.started)

\* A new message in the middle of another one, a continuation of nothing, an unknown opcode.
OutOfPlace(op) ==
  \/ op = "other"
  \/ op \in {"text", "binary"} /\ message.started
  \/ op = "continuation" /\ ~message.started

\* The fragments together are longer than the message buffer.
TooLong == Len(message.data) + Frame.size > MaxMessage

OnBadFrame ==
  /\ \E op \in Data \cup {"other"} : Whole(op) /\ (OutOfPlace(op) \/ TooLong)
  /\ rx' = DropFrame /\ End("error")
  /\ UNCHANGED <<app, shaken, message, delivered, ponged, fresh, active>>

\* Mutant: every fragment starts the message again.
LastFragment == [started |-> TRUE, op |-> Frame.op, data |-> Payload(rx[1].f, Frame)]

\* The message with one more frame of it.
Extended ==
  [started |-> TRUE,
   op |-> IF message.started THEN message.op ELSE Frame.op,
   data |-> message.data \o Payload(rx[1].f, Frame)]

\* The last frame of a message ends the call; pings since the last message count as activity.
OnData ==
  /\ \E op \in Data : Whole(op) /\ ~OutOfPlace(op) /\ ~TooLong
  /\ rx' = DropFrame
  /\ IF Frame.fin
     THEN /\ delivered' = Append(delivered, [op |-> Extended.op, data |-> Extended.data])
          /\ message' = NoMessage
          /\ active' = active + (IF fresh > 0 THEN 1 ELSE 0) /\ fresh' = 0
     ELSE message' = Extended /\ UNCHANGED <<delivered, fresh, active>>
  /\ UNCHANGED <<app, shaken, ponged, ended>>

Receive ==
  \/ Read \/ ReadFails \/ Refuses \/ Shakes
  \/ OnPing \/ OnPong \/ OnClose \/ OnBadFrame \/ OnData

\* A connection that has ended is over.
Over == ended # "no" /\ UNCHANGED wsVars

WsNext == AppSends \/ AppLeaves \/ Receive \/ Over

WsSpec == WsInit /\ [][WsNext]_wsVars

\* The thread goes on reading; the App need not send or leave.
FairWsSpec == WsSpec /\ WF_wsVars(Receive)

-----------------------------------------------------------------------------
(* Properties *)

\* Types.
WsTypeOK ==
  /\ script \in Seq(Frames) /\ stream \in Seq(Unit) /\ rx \in Seq(Unit)
  /\ left \in BOOLEAN /\ shaken \in BOOLEAN
  /\ message \in [started : BOOLEAN, op : Opcodes, data : Seq(Nat \X Nat)]
  /\ fresh \in Nat /\ active \in Nat
  /\ ended \in {"no", "handshake", "lost", "closed", "error"}

\* The receive buffer (WS_MAX_MESSAGE + 64 bytes) holds what is read into it, what came with
\* the handshake too, and the message buffer holds the fragments of a message, each of which
\* may be as long as the buffer (ws.c:362-374, 449, 510-513, 542-543).
BuffersHold ==
  /\ Len(rx) <= Max({MaxMessage + 3, MaxHandshake})
  /\ Len(message.data) <= MaxMessage

Deliveries ==
  INSTANCE MessageStream WITH sent <- meant.messages, got <- delivered, ended <- ended # "no"
Answers ==
  INSTANCE MessageStream WITH sent <- meant.pings, got <- ponged, ended <- ended # "no"

\* The messages of an App reach the core whole, once and in order, whatever frames they are
\* cut into, and every ping is answered with its own payload, in order, also in the middle
\* of a message (ws.c:446-530).
ImplementsStreams == Deliveries!Spec /\ Answers!Spec

\* Only a frame that breaks the protocol or a limit ends a connection with an error, and the
\* App's own close ends it as closed (ws.c:481-513).
OnlyWrongIsDropped ==
  /\ ended = "error" => meant.good < Len(script) /\ Wrong(script, meant.good + 1)
  /\ ended = "closed" => meant.good < Len(script) /\ script[meant.good + 1].op = "close"

\* What was sent is delivered unless the connection fails first: nothing waits in the buffer
\* for bytes that are not needed (ws.c:362-374, 586-590).
Behind == Len(delivered) < Len(meant.messages)
EverythingArrives == Behind ~> (~Behind \/ ended \in {"handshake", "lost"})
=============================================================================
