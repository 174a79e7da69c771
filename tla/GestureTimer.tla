----------------------------- MODULE GestureTimer -----------------------------
(***************************************************************************)
(* The one timer of a GestureInterpreter (src/src/gestures.cc) in the      *)
(* hands of a timer provider: the moment it is set for, given the *timeout *)
(* a call into the interpreters left behind.  The provider itself is not   *)
(* part of the repository; it keeps the contract of gestures.h.            *)
(***************************************************************************)
EXTENDS Integers

NotArmed == -1

\* PushHardwareState: a timeout that is not positive cancels the timer.
ArmedByPush(timeout, clock) ==
  IF timeout <= 0 THEN NotArmed ELSE clock + timeout

\* Mutant: the timer works once.
ArmedByCallbackOnce(timeout, clock) == NotArmed

\* InternalTimerCallback returns the timeout.  The provider frees the timer on
\* a negative one and calls back after any other.
ArmedByCallback(timeout, clock) ==
  IF timeout < 0 THEN NotArmed ELSE clock + timeout

==============================================================================
