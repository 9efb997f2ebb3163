---------------------------- MODULE MessageStream ----------------------------
(***************************************************************************)
(* What a connection promises about the messages of one side: they arrive  *)
(* whole, once and in the order they were sent, until the connection ends. *)
(***************************************************************************)
EXTENDS Naturals, Sequences

VARIABLES sent, got, ended

Init == sent = <<>> /\ got = <<>> /\ ended = FALSE

\* One more message, on its way (nothing is sent to nobody).
Send == /\ Len(sent') = Len(sent) + 1 /\ SubSeq(sent', 1, Len(sent)) = sent
        /\ ~ended /\ UNCHANGED <<got, ended>>

Get == /\ ~ended /\ Len(got) < Len(sent)
       /\ got' = Append(got, sent[Len(got) + 1])
       /\ UNCHANGED <<sent, ended>>

\* The end, with the last message or without it.
End == /\ ~ended /\ ended'
       /\ UNCHANGED <<sent, got>>

Next == Send \/ Get \/ End

Spec == Init /\ [][Next]_<<sent, got, ended>>
=============================================================================
