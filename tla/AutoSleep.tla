------------------------------ MODULE AutoSleep ------------------------------
(***************************************************************************)
(* The automatic sleep of the console while the server is up               *)
(* (nro/source/platform/auto_sleep.c).  The flag the console keeps is      *)
(* external: calls to read and to set it may fail.  A state is the pair of *)
(* the three facts the file keeps and of that flag.                        *)
(***************************************************************************)

\* asked: the last `running` reported, if any; disabled: the flag of the console.
\* failed: the last call failed; stuck: a call to restore the flag has failed.
SleepStates == [asked : {"never", "up", "down"}, ours : BOOLEAN,
                disabled : BOOLEAN, failed : BOOLEAN, stuck : BOOLEAN]

SleepInit(disabled) ==
  [asked |-> "never", ours |-> FALSE, disabled |-> disabled,
   failed |-> FALSE, stuck |-> FALSE]

Failing(s) == [s EXCEPT !.failed = TRUE]

\* Mutant: a flag found set is taken for our own.
TakesOver(s, works) ==
  IF works THEN [s EXCEPT !.ours = TRUE, !.disabled = TRUE, !.failed = FALSE]
  ELSE Failing(s)

\* A flag the console reports as already set is not ours to clear later.
Suppressed(s, works) ==
  IF ~works THEN Failing(s)
  ELSE [s EXCEPT !.ours = ~s.disabled, !.disabled = TRUE, !.failed = FALSE]

Restored(s, works) ==
  IF s.ours /\ ~works THEN [s EXCEPT !.failed = TRUE, !.stuck = TRUE]
  ELSE [s EXCEPT !.ours = FALSE, !.failed = FALSE,
                 !.disabled = IF s.ours THEN FALSE ELSE s.disabled]

\* Only a change of what the caller reports does anything, so a failure is not
\* retried with every frame.
FollowServer(s, running, works) ==
  LET asked == IF running THEN "up" ELSE "down"
      noted == [s EXCEPT !.asked = asked]
  IN  IF s.asked = asked THEN s
      ELSE IF running THEN Suppressed(noted, works) ELSE Restored(noted, works)
=============================================================================
