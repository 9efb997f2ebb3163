---------------------------- MODULE MCNetSocket ----------------------------
(* NetSocket with the two client slots of the code and one descriptor more. *)
EXTENDS NetSocket

MCSlotList == <<"first", "second">>
=============================================================================
