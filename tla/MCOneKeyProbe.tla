---------------------------- MODULE MCOneKeyProbe ----------------------------
(* OneKeyProbe with one Coyote and one other device. *)
EXTENDS OneKeyProbe

MCCoyotes == {"coyote"}
MCStrangers == {"other"}
=============================================================================
