------------------------------ MODULE Pairing ------------------------------
(***************************************************************************)
(* What the socket server promises to its front end and to the Apps that   *)
(* connect to it: while it is open at most one connection holds the        *)
(* binding, a new holder is accepted only after the old one gave it up,    *)
(* and closing the server takes the binding away.  NetServer implements it.*)
(***************************************************************************)
CONSTANTS Conns,        \* the connections an App can come in on
          None          \* nobody

VARIABLES phase,        \* "down", "open" (waiting for an App) or "taken"
          holder        \* the connection holding the binding, or None

pairingVars == <<phase, holder>>

Init == phase = "down" /\ holder = None

Open == phase = "down" /\ phase' = "open" /\ UNCHANGED holder

Take(c) == phase = "open" /\ phase' = "taken" /\ holder' = c

Release == phase = "taken" /\ phase' = "open" /\ holder' = None

Close == phase # "down" /\ phase' = "down" /\ holder' = None

Next == Open \/ Release \/ Close \/ \E c \in Conns : Take(c)

Spec == Init /\ [][Next]_pairingVars
=============================================================================
