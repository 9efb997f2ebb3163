----------------------------- MODULE MCWsFrames -----------------------------
(* WsFrames with messages of up to two pieces. *)
EXTENDS WsFrames

F(op, fin, size) == [op |-> op, fin |-> fin, masked |-> TRUE, size |-> size]

\* Whole messages, fragments, control frames, and one of each kind that is wrong.
MCFrames ==
  {F("text", TRUE, 2), F("text", FALSE, 1), F("binary", TRUE, 0), F("continuation", FALSE, 1),
   F("continuation", TRUE, 1), F("ping", TRUE, 1), F("pong", TRUE, 0), F("close", TRUE, 0),
   F("other", TRUE, 0), F("text", TRUE, 3), [F("text", TRUE, 1) EXCEPT !.masked = FALSE]}
=============================================================================
