------------------------------ MODULE TimerLib ------------------------------
(***************************************************************************)
(* One timer of libtimer (timerlib.c): a POSIX timer with a threshold, an  *)
(* exponential back-off, and pausing.                                      *)
(*                                                                         *)
(* A call of the library is one step.  The callback wrapper runs in a      *)
(* thread of its own, in two steps around the callback of the application, *)
(* and calls of the application come between them or from the callback     *)
(* itself.  Time passes in ticks, MS to a millisecond; the kernel keeps    *)
(* ticks, the library milliseconds.                                        *)
(***************************************************************************)
EXTENDS Integers

CONSTANTS
  MS,
  Configs,     \* what setup_timer is called with: exp, sec, threshold, backoff
  MaxBackOff,  \* Bound: no back-off is longer
  NULL

\* A millisecond is a whole number of ticks, setup_timer gets unsigned numbers.
TimerAssumption ==
  /\ MS \in Nat \ {0}
  /\ NULL \notin Int
  /\ Configs \subseteq [exp : Nat, sec : Nat, threshold : Nat, backoff : BOOLEAN]

VARIABLES
  config,   \* the arguments of setup_timer
  timer,    \* timer_state, ts, time_remaining, invocation_counter, exp_back_off_time
  kernel,   \* the POSIX timer: ticks to the next expiration (0: disarmed), and interval
  thread,   \* the wrapper: "none", "entry", or "callback" while the application runs
  calls,    \* callbacks since the timer was last cancelled, by the application or itself, or restarted
  frozen,   \* ticks that were left when the timer was paused, or NULL
  crashed   \* why the process ended: "no" while it runs
vars == <<config, timer, kernel, thread, calls, frozen, crashed>>

\* ~0 milliseconds: no tick of such a time is modelled.
Forever == 1000

\* resurrect_timer
Armed(t) == [value |-> MS * t.value, interval |-> MS * t.interval]

\* The timer becomes t, and its state s; the kernel is told.
Set(t, s) == timer' = [t EXCEPT !.state = s] /\ kernel' = Armed(t)

Init ==
  /\ config \in Configs
  /\ timer = [state |-> "INIT", value |-> config.exp, interval |-> IF config.backoff THEN 0 ELSE config.sec,
              remaining |-> 0, counter |-> 0, backoff_time |-> IF config.backoff THEN config.exp ELSE 0]
  /\ kernel = [value |-> 0, interval |-> 0]
  /\ thread = "none"
  /\ calls = 0
  /\ frozen = NULL
  /\ crashed = "no"

\* cancel_timer, with an effect.
Cancelled(t) == [t EXCEPT !.value = 0, !.interval = 0, !.remaining = 0, !.counter = 0]
Cancellable == timer.state \notin {"INIT", "DELETED"}

\* Mutant: the counter is not put back.
Rescheduled_counter_lost(exp_ti, sec_exp_ti) ==
  LET t == IF timer.state # "CANCELLED" /\ Cancellable THEN Cancelled(timer) ELSE timer IN
  [t EXCEPT !.value = exp_ti, !.remaining = 0,
            !.interval = IF config.backoff THEN 0 ELSE sec_exp_ti,
            !.backoff_time = IF config.backoff THEN exp_ti ELSE @]

\* reschedule_timer, on a timer that is not deleted.
Rescheduled(exp_ti, sec_exp_ti) ==
  LET t == IF timer.state # "CANCELLED" /\ Cancellable THEN Cancelled(timer) ELSE timer IN
  [t EXCEPT !.value = exp_ti, !.remaining = 0, !.counter = timer.counter,
            !.interval = IF config.backoff THEN 0 ELSE sec_exp_ti,
            !.backoff_time = IF config.backoff THEN exp_ti ELSE @]

-----------------------------------------------------------------------------
(* Calls of the application.                                               *)

start_timer ==
  /\ timer.state # "DELETED"
  /\ Set(timer, "RUNNING")
  /\ frozen' = NULL
  /\ UNCHANGED calls

delete_timer ==
  /\ timer.state # "DELETED"
  /\ timer' = [timer EXCEPT !.state = "DELETED"]
  /\ kernel' = [value |-> 0, interval |-> 0]
  /\ frozen' = NULL
  /\ UNCHANGED calls

cancel_timer ==
  /\ Cancellable
  /\ Set(Cancelled(timer), "CANCELLED")
  /\ calls' = 0 /\ frozen' = NULL

\* timer_get_time_remaining_in_mill_sec
time_remaining == IF timer.state = "CANCELLED" THEN Forever ELSE kernel.value \div MS

\* A pause and a pause again are one.
pause_timer ==
  /\ timer.state \notin {"PAUSED", "DELETED"}
  /\ Set([timer EXCEPT !.remaining = time_remaining, !.value = 0, !.interval = 0], "PAUSED")
  /\ frozen' = IF kernel.value = 0 THEN NULL ELSE kernel.value
  /\ UNCHANGED calls

\* Mutant: a timer that is resumed waits its whole time again.
resumed_value_whole == config.exp

resumed_value == IF timer.remaining # 0 THEN timer.remaining ELSE config.exp

resume_timer ==
  /\ timer.state = "PAUSED"
  /\ Set([timer EXCEPT !.value = resumed_value, !.interval = config.sec, !.remaining = 0], "RESUMED")
  /\ frozen' = NULL
  /\ UNCHANGED calls

restart_timer ==
  /\ timer.state # "DELETED"
  /\ Set([timer EXCEPT !.value = config.exp, !.interval = IF config.backoff THEN 0 ELSE config.sec,
                       !.remaining = 0, !.counter = 0, !.backoff_time = config.exp], "RUNNING")
  /\ calls' = 0 /\ frozen' = NULL

reschedule_timer ==
  /\ timer.state # "DELETED"
  /\ Set(Rescheduled(config.exp, config.sec), "RUNNING")
  /\ frozen' = NULL
  /\ UNCHANGED calls

Application ==
  /\ start_timer \/ delete_timer \/ cancel_timer \/ pause_timer \/ resume_timer \/ restart_timer \/ reschedule_timer
  /\ UNCHANGED <<config, thread, crashed>>

-----------------------------------------------------------------------------
(* Time and the wrapper.                                                   *)

\* A tick; at the last one the kernel starts a thread.  A wrapper is short: it is done
\* before the timer expires again.
Tick ==
  /\ kernel.value > 0 /\ kernel.value < MS * Forever
  /\ kernel.value = 1 => thread = "none"
  /\ kernel' = [kernel EXCEPT !.value = IF @ = 1 THEN kernel.interval ELSE @ - 1]
  /\ thread' = IF kernel.value = 1 THEN "entry" ELSE thread
  /\ UNCHANGED <<config, timer, calls, frozen, crashed>>

\* timer_callback_wrapper up to the callback.  Behind the threshold the timer cancels itself.
Wrapper ==
  /\ thread = "entry"
  /\ LET counter == timer.counter + 1 IN
     IF config.threshold # 0 /\ counter > config.threshold
     THEN /\ IF Cancellable THEN Set(Cancelled(timer), "CANCELLED")
             ELSE timer' = [timer EXCEPT !.counter = counter] /\ UNCHANGED kernel
          /\ thread' = "none"
          /\ calls' = 0 /\ frozen' = NULL
     ELSE /\ timer' = [timer EXCEPT !.counter = IF config.threshold = 0 THEN 0 ELSE counter]  \* Bound: no threshold, no count.
          /\ thread' = "callback"
          /\ calls' = IF config.threshold = 0 THEN 0 ELSE calls + 1
          /\ UNCHANGED <<kernel, frozen>>
  /\ UNCHANGED <<config, crashed>>

\* The rest of it.  A timer that backs off is armed again, whatever the application has
\* done with it since; a timer that was resumed gets its interval back.
WrapperEnds ==
  /\ thread = "callback"
  /\ thread' = "none"
  /\ IF config.backoff
     THEN /\ 2 * timer.backoff_time <= MaxBackOff
          /\ IF timer.state = "DELETED"
             THEN crashed' = "deleted" /\ UNCHANGED <<timer, kernel, frozen>>
             ELSE Set(Rescheduled(2 * timer.backoff_time, 0), "RUNNING") /\ frozen' = NULL /\ UNCHANGED crashed
     ELSE /\ IF timer.state = "RESUMED"
             THEN Set(Rescheduled(config.exp, config.sec), "RUNNING") /\ frozen' = NULL
             ELSE UNCHANGED <<timer, kernel, frozen>>
          /\ UNCHANGED crashed
  /\ UNCHANGED <<config, calls>>

Next == crashed = "no" /\ (Application \/ Tick \/ Wrapper \/ WrapperEnds)
Spec == Init /\ [][Next]_vars

-----------------------------------------------------------------------------

\* timerlib.c: through pauses, rescheduling and back-off, a timer with a threshold calls
\* back that often at most before it gives itself up; a timer that is paused, cancelled or deleted is not armed;
\* no assertion fails, unless a timer that backs off is deleted under its callback.
CallsBounded ==
  /\ config.threshold # 0 => calls <= config.threshold
  /\ kernel.value > 0 => timer.state \in {"RUNNING", "RESUMED"}
  /\ crashed = "no" \/ (config.backoff /\ timer.state = "DELETED")

\* pause_timer, resume_timer: however long the pause and whatever the wrapper does in it, a
\* timer goes on with the time it had, less than a millisecond lost; with less than one
\* left it starts over.
TimeKept ==
  [][ timer.state = "PAUSED" /\ timer'.state = "RESUMED" /\ frozen # NULL =>
        IF frozen >= MS THEN frozen - kernel'.value \in 0..(MS - 1) ELSE kernel'.value = MS * config.exp ]_vars
=============================================================================
