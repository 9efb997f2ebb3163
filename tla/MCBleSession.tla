---------------------------- MODULE MCBleSession ----------------------------
(* BleSession on small numbers: strengths 0..2, two runs, a queue of two. *)
EXTENDS BleSession

MCCeilings == {[A |-> 2, B |-> 1], [A |-> 1, B |-> 2]}
MCUploads == {[on |-> {"A"}, count |-> 2]}
MCDevices == {[strength |-> [A |-> 1, B |-> 0], limits |-> [A |-> 2, B |-> 2]]}
=============================================================================
