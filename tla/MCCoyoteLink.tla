---------------------------- MODULE MCCoyoteLink ----------------------------
(* CoyoteLink on small numbers: strengths 0..2, two sequence numbers, packets *)
(* of two waveform slots every second tick.                                   *)
EXTENDS CoyoteLink

MCRequests == {-1, 2}
=============================================================================
