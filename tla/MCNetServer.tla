---------------------------- MODULE MCNetServer ----------------------------
(* A small instance of NetServer.  Channel A gets enough slots for its ring  *)
(* to wrap, overflow and be replaced; channel B enough for one element, so   *)
(* that requests and the pump on both channels still meet.                   *)
EXTENDS NetServer

MCSlotBudget == [A |-> 6, B |-> 3]

\* Three uploads on one channel: what was playing, its replacement, what follows.
MCReplaceBudget == [A |-> 9, B |-> 0]
=============================================================================
