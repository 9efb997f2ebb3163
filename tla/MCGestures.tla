----------------------------- MODULE MCGestures -----------------------------
(* Gestures on small numbers: rows of one or two steps, intensities 0..3, two fingers,
   and frames of up to two readings. *)
EXTENDS Gestures

Rowed(one, two, three, four) ==
  [row \in Settings |-> CASE row = "deadzone_enter" -> one [] row = "deadzone_exit" -> two
                          [] row = "frequency_fast_ms" -> three [] OTHER -> four]
MCLeast == Rowed(1, 1, 1, 1)
MCMost == Rowed(2, 2, 2, 2)
MCDefault == Rowed(2, 1, 1, 1)

MCSamples == {<<>>} \cup {<<raw>> : raw \in 0..3} \cup {<<3, raw>> : raw \in 0..1}
Points == {p \in Readings({0, 3}) : p.half = "B" => p.level = 0}
Low == {p \in Points : p.level = 0}
MCFrames == {<<>>} \cup {<<p>> : p \in Points}
            \cup {<<p, q>> \in Low \X Low : p.finger # q.finger}
MCEdited == {<<>>, <<[key |-> "deadzone_exit", value |-> 3],
                     [key |-> "unknown", value |-> 2],
                     [key |-> "deadzone_enter", value |-> 0],
                     [key |-> "frequency_still_ms", value |-> NaN],
                     [key |-> "deadzone_exit", value |-> NaN]>>}
=============================================================================
