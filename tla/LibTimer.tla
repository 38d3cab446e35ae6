------------------------------ MODULE LibTimer ------------------------------
(* The timer of module TimerLib as one part among others, with names of    *)
(* its own for what other parts have too.                                  *)
CONSTANTS MS, Configs, MaxBackOff,
          NotFrozen   \* no pause, or one of a timer that was not armed
VARIABLES config, timer, kernel, thread, calls, frozen, timer_crashed

timerVars == <<config, timer, kernel, thread, calls, frozen, timer_crashed>>

T == INSTANCE TimerLib WITH NULL <- NotFrozen, crashed <- timer_crashed

\* Module TimerLib: the threshold, and the states in which a timer of timerlib.c is armed.
CallsBounded == T!CallsBounded
\* Module TimerLib: pauses of timerlib.c keep the time that is left.
TimeKept == T!TimeKept
=============================================================================
