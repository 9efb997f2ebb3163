------------------------------ MODULE LogRing ------------------------------
(***************************************************************************)
(* The logs.  The system module keeps two rings of bytes, the socket       *)
(* server's and the Bluetooth worker's; the program on the console reads   *)
(* them in chunks, by a cursor it keeps itself, and puts the lines         *)
(* together again.  Three pages read: the socket page the first ring, the  *)
(* Bluetooth page and the probe view the second, each with a cursor, a     *)
(* half line and a scrollback of its own.                                  *)
(*                                                                         *)
(* A unit stands for a byte of the log and is named by its place in it, so *)
(* a unit read twice, or read after it was overwritten, is seen.  breaks   *)
(* is the set of the units that end a line.                                *)
(***************************************************************************)
EXTENDS Integers, SequencesExt

CONSTANTS RingSize,    \* units a ring holds
          LineMax,     \* the longest line, its end included
          Chunk,       \* units one request hands over
          Rounds,      \* requests a frame makes, for each page
          PartialMax,  \* units of a half line a reader keeps
          Scrollback,  \* lines a page keeps
          MaxUnits     \* bound: units each ring ever takes

Rings == {"net", "poc"}
Readers == {"socket", "ble", "view"}
RingOf(r) == IF r = "socket" THEN "net" ELSE "poc"
Nul == -1  \* what an unwritten cell holds

ASSUME LogAssumption ==
  /\ RingSize \in Nat /\ Chunk \in Nat \ {0} /\ Scrollback \in Nat \ {0}
  /\ LineMax \in 1 .. RingSize /\ PartialMax \in Nat /\ LineMax <= PartialMax + 1
  /\ Rounds \in [Readers -> Nat \ {0}] /\ MaxUnits \in [Rings -> Nat]

VARIABLES ring,    \* of each ring: its cells, where the next unit goes, where the run began
          breaks,  \* of each ring: the units that end a line
          reader,  \* of each page: its cursor, its half line and its scrollback
          page,    \* the page that is open, "menu", or "none" while the program is not running
          left     \* requests the poll under way may still make

logVars == <<ring, breaks, reader, page, left>>

\* torn: a line is being put together that the ring has cut.
Unread == [cursor |-> 0, partial |-> <<>>, lines |-> <<>>, torn |-> FALSE]

LogsInit ==
  /\ ring = [k \in Rings |-> [cells |-> [i \in 0 .. RingSize - 1 |-> Nul], write |-> 0, from |-> 0]]
  /\ breaks = [k \in Rings |-> {}]
  /\ reader = [r \in Readers |-> Unread]
  /\ page = "none" /\ left = 0

-----------------------------------------------------------------------------
(* The system module, under the lock of the ring's owner. *)

\* The cells after the units from a up to b were written.
Written(cells, a, b) ==
  [i \in DOMAIN cells |->
     LET here == {p \in a .. b : p % RingSize = i}
     IN IF here = {} THEN cells[i] ELSE CHOOSE p \in here : TRUE]

\* dglabNetServerLog, pocLog: a whole line.
Log(k) ==
  \E last \in ring[k].write .. ring[k].write + LineMax - 1 :
    /\ last < MaxUnits[k]
    /\ ring' = [ring EXCEPT ![k].cells = Written(@, ring[k].write, last),
                            ![k].write = last + 1]
    /\ breaks' = [breaks EXCEPT ![k] = @ \cup {last}]
    /\ UNCHANGED <<reader, page, left>>

\* blePocStart: what was written before is not handed out any more.
Begin ==
  /\ page \in {"ble", "view"} /\ left = 0
  /\ ring' = [ring EXCEPT !["poc"].from = ring["poc"].write]
  /\ UNCHANGED <<breaks, reader, page, left>>

\* Mutant: the units that were overwritten are handed out.
SinceTheRunBegan(g) == g.from

Earliest(g) == IF g.write - RingSize > g.from THEN g.write - RingSize ELSE g.from

\* Where a request with this cursor starts to read.
Starts(g, cursor) ==
  LET c == IF cursor > g.write THEN g.write ELSE cursor
  IN IF c < Earliest(g) THEN Earliest(g) ELSE c

\* Mutant: a chunk that is full leaves the cursor where it was.
OnlyTheLast(g, c) == IF g.write - c > Chunk THEN c ELSE g.write

\* The cursor behind what is handed over.
Behind(g, c) == IF g.write - c > Chunk THEN c + Chunk ELSE g.write

-----------------------------------------------------------------------------
(* The pages. *)

\* logPushLine: the oldest line leaves.
Push(lines, line) == Append(IF Len(lines) = Scrollback THEN Tail(lines) ELSE lines, line)

\* logAppend, one unit of ring k.
Take(k, u, s) ==
  IF u = Nul THEN s
  ELSE IF u \in breaks[k]
  THEN [s EXCEPT !.lines = Push(@, [text |-> Append(s.partial, u), torn |-> s.torn]),
                 !.partial = <<>>, !.torn = FALSE]
  ELSE IF Len(s.partial) < PartialMax THEN [s EXCEPT !.partial = Append(@, u)] ELSE s

IsStart(k, c) == c = 0 \/ c - 1 \in breaks[k]

\* The reader after the chunk from c on; cut says that the clamp tore its line.
Taken(r, c) ==
  LET k == RingOf(r)
      g == ring[k]
      cut == c # reader[r].cursor /\ ~ (reader[r].partial = <<>> /\ IsStart(k, c))
      from == [reader[r] EXCEPT !.torn = @ \/ cut]
      chunk == [i \in 1 .. (IF g.write - c > Chunk THEN Chunk ELSE g.write - c) |->
                  g.cells[(c + i - 1) % RingSize]]
  IN FoldLeft(LAMBDA s, u : Take(k, u, s), from, chunk)

\* One request of a poll.  The socket page leaves its cursor when nothing came.
Request ==
  /\ page \in Readers /\ left > 0
  /\ LET g == ring[RingOf(page)]
         c == Starts(g, reader[page].cursor)
         next == Behind(g, c)
         came == c < g.write
     IN /\ reader' = [reader EXCEPT ![page] =
                       [Taken(page, c) EXCEPT
                          !.cursor = IF page = "socket" /\ ~came THEN @ ELSE next]]
        /\ left' = IF came /\ next # reader[page].cursor THEN left - 1 ELSE 0
  /\ UNCHANGED <<ring, breaks, page>>

\* The request fails: the poll is over.
Fails ==
  /\ left > 0 /\ left' = 0
  /\ UNCHANGED <<ring, breaks, reader, page>>

Frame ==
  /\ page \in Readers /\ left = 0
  /\ left' = Rounds[page]
  /\ UNCHANGED <<ring, breaks, reader, page>>

OpenPage ==
  /\ page = "menu" /\ page' \in Readers
  /\ UNCHANGED <<ring, breaks, reader, left>>

LeavePage ==
  /\ page \in Readers /\ left = 0 /\ page' = "menu"
  /\ UNCHANGED <<ring, breaks, reader, left>>

\* The program is started, and ends: what it keeps is gone.
ProgramStarts ==
  /\ page = "none" /\ page' = "menu"
  /\ UNCHANGED <<ring, breaks, reader, left>>

ProgramEnds ==
  /\ page = "menu" /\ page' = "none"
  /\ reader' = [r \in Readers |-> Unread]
  /\ UNCHANGED <<ring, breaks, left>>

LogsNext ==
  \/ \E k \in Rings : Log(k)
  \/ Begin \/ Request \/ Fails \/ Frame \/ OpenPage \/ LeavePage \/ ProgramStarts \/ ProgramEnds

LogsSpec == LogsInit /\ [][LogsNext]_logVars

\* A page that stays open goes on with its frames, and a request that is
\* repeated for ever is answered now and then.
FairLogsSpec == LogsSpec /\ WF_logVars(Frame) /\ SF_logVars(Request)

-----------------------------------------------------------------------------
(* Properties. *)

\* What a page holds of the log, in the order it is shown: its lines, the half line, and the
\* place it reads on from.
Shown(s) == [i \in DOMAIN s.lines |-> s.lines[i].text] \o <<s.partial, <<s.cursor>>>>

\* One unit after the other, within a row and from row to row.
Ascends(rows) ==
  \A i, j \in DOMAIN rows : \A a \in DOMAIN rows[i], b \in DOMAIN rows[j] :
    i < j \/ (i = j /\ a < b) => rows[i][a] < rows[j][b]

\* All of one line, from its first unit to its end, and nothing else.
Whole(k, text) ==
  /\ IsStart(k, text[1])
  /\ \A i \in DOMAIN text : text[i] = text[1] + i - 1
  /\ {i \in DOMAIN text : text[i] \in breaks[k]} = {Len(text)}

\* What a page shows is the log: no unit twice, none that the ring had already
\* overwritten, none out of place; and a line it shows is one whole line of
\* the log, unless the ring had moved on under the reader while it was taking it.
LinesAreTheLog ==
  \A r \in Readers :
    /\ Ascends(Shown(reader[r]))
    /\ \A i \in DOMAIN reader[r].lines :
         reader[r].lines[i].torn \/ Whole(RingOf(r), reader[r].lines[i].text)

\* A page that stays open comes up to the end of the log, over and over,
\* whatever the other page has read of the same ring.
CatchesUp ==
  \A r \in Readers :
    <>[](page = r) => []<>(reader[r].cursor = ring[RingOf(r)].write)

\* ble_poc.c says that the ring is not cleared at the start of a run so that
\* what the last run wrote and nobody has read is not thrown away: the start
\* does not move the place a page reads on from.
UnreadSurvives ==
  [][ring'["poc"].from # ring["poc"].from =>
       \A r \in {"ble", "view"} :
         Starts(ring["poc"], reader[r].cursor)' = Starts(ring["poc"], reader[r].cursor)]_logVars

\* ble_poc.c says that bytes from before the run are not handed out so that the
\* first line of a run is not cut: it is whole on every page.
FirstLineIsWhole ==
  \A r \in {"ble", "view"} : \A i \in DOMAIN reader[r].lines :
    ring["poc"].from \in ToSet(reader[r].lines[i].text) => Whole("poc", reader[r].lines[i].text)
=============================================================================
