----------------------------- MODULE MCFrontEnd -----------------------------
(* The front end with strengths of 0 to MaxStrength. *)
EXTENDS FrontEnd
=============================================================================
