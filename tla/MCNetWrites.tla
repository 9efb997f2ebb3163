---------------------------- MODULE MCNetWrites ----------------------------
(* NetWrites with the two client slots of the code. *)
EXTENDS NetWrites

MCSlotList == <<"first", "second">>
MCFdList == <<"f1", "f2">>

\* An App that has a ping answered and is sent something, and one that joins in.
MCFrames == <<3,1>>

\* For the properties about time a second connection that nobody has anything to say on.
MCFewFrames == <<2,0>>

\* For the queue that runs full: three frames for one App, with room for two and a half.
MCThreeFrames == <<3,0>>
=============================================================================
