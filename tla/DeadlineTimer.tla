---------------------------- MODULE DeadlineTimer ----------------------------
(***************************************************************************)
(* DeadlineTimer (packages/core/src/utils/deadlineTimer.ts): a budget of   *)
(* time behind an abort signal, which can be paused and resumed.  Time is  *)
(* counted in ticks: left is remainingMs less what has elapsed since       *)
(* lastStartedAt.  extend() has no caller and is left out.                 *)
(***************************************************************************)
EXTENDS Naturals

Timer(budget) ==
  [left : 0..budget, armed : BOOLEAN, paused : BOOLEAN, aborted : BOOLEAN]

Started(budget) ==
  [left |-> budget, armed |-> TRUE, paused |-> FALSE, aborted |-> FALSE]

\* pause() clears the timeout; it does nothing if the timer is paused or has fired.
Pause(t) ==
  IF t.paused \/ t.aborted THEN t ELSE [t EXCEPT !.armed = FALSE, !.paused = TRUE]

\* A slip: the timer is no longer paused, but nothing is scheduled.
ResumeUnarmed(t) ==
  IF ~t.paused \/ t.aborted THEN t ELSE [t EXCEPT !.paused = FALSE]

\* resume() schedules the time that is left.
Resume(t) ==
  IF ~t.paused \/ t.aborted THEN t ELSE [t EXCEPT !.armed = TRUE, !.paused = FALSE]

\* abort() clears the timeout and aborts the signal.
Abort(t) == [t EXCEPT !.armed = FALSE, !.paused = FALSE, !.aborted = TRUE]

\* The timeout that schedule() set.
Due(t) == t.armed /\ t.left = 0
Fired(t) == [t EXCEPT !.armed = FALSE, !.aborted = TRUE]

\* Time passes for a timer that is running; a timeout may come late.
Elapsed(t) == [t EXCEPT !.left = IF @ = 0 THEN 0 ELSE @ - 1]
=============================================================================
