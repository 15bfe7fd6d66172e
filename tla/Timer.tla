-------------------------------- MODULE Timer --------------------------------
(***************************************************************************)
(* CppTimer of cpputils: a stop watch that adds up the intervals between   *)
(* its start()s and stop()s.  That it runs when stopped, and does not when *)
(* started, is asserted, so it is not checked in the default build.        *)
(*                                                                         *)
(* Times are in nanoseconds since the epoch of the clock; a call is        *)
(* [what, now] with the time the clock shows.                              *)
(***************************************************************************)
EXTENDS Integers, SequencesExt

NewTimer == [mOn |-> FALSE, mStart |-> 0, mDuration |-> 0]

Start(t, now) == [t EXCEPT !.mOn = TRUE, !.mStart = now]

(* Mutant: the stop is not remembered.                                     *)
MutStop(t, now) == [t EXCEPT !.mOn = FALSE, !.mDuration = @ + now - t.mStart]

(* The time of the stop goes into mStart.                                  *)
Stop(t, now) == [mOn |-> FALSE, mStart |-> now, mDuration |-> t.mDuration + now - t.mStart]

Called(t, c) == IF c.what = "start" THEN Start(t, c.now) ELSE Stop(t, c.now)

(* The destructor stops a timer that runs, and prints it.                  *)
Printed(calls, now) ==
  LET t == FoldLeft(Called, NewTimer, calls)
  IN IF t.mOn THEN Stop(t, now) ELSE t

(* duration_cast truncates.                                                *)
Nanoseconds == [S |-> 1000000000, MS |-> 1000000, US |-> 1000, NS |-> 1]
Elapsed(t, unit) == t.mDuration \div Nanoseconds[unit]

-----------------------------------------------------------------------------
(* The time from one call of a sequence to the next, or to the end.        *)
Until(calls, end, i) == (IF i = Len(calls) THEN end ELSE calls[i + 1].now) - calls[i].now

(* Used as asserted, a timer shows the time it ran, in one piece, however  *)
(* often it was stopped.                                                   *)
ShowsTimeRun(calls, end) ==
  (\A i \in DOMAIN calls : calls[i].what = IF i % 2 = 1 THEN "start" ELSE "stop") =>
    \A unit \in DOMAIN Nanoseconds :
      Elapsed(Printed(calls, end), unit)
        = FoldLeft(LAMBDA s, i : IF calls[i].what = "start" THEN s + Until(calls, end, i) ELSE s,
                   0, [i \in DOMAIN calls |-> i]) \div Nanoseconds[unit]

(* Otherwise in the default build: an interval that ends in a start is     *)
(* lost, one that ends in a stop counts also when the timer was off, and   *)
(* a stop before any start counts from the epoch.                          *)
CountsUpToStops(calls, end) ==
  LET before(i) == IF i = 1 THEN 0 ELSE calls[i - 1].now
      counted == FoldLeft(LAMBDA s, i : IF calls[i].what = "stop" THEN s + calls[i].now - before(i) ELSE s,
                          0, [i \in DOMAIN calls |-> i])
      running == calls # <<>> /\ Last(calls).what = "start"
  IN Printed(calls, end).mDuration = counted + (IF running THEN end - Last(calls).now ELSE 0)
=============================================================================
