---------------------------- MODULE IsisOverload ----------------------------
(***************************************************************************)
(* The overload state of one router and its timer (Layer5/isis/isis_rtr.c):*)
(* commands set and lift it, with or without a time limit, while the job   *)
(* of the timer waits in the dispatcher and the protocol is shut down and  *)
(* started again.  Every command and every job is one step.  The protocol  *)
(* is enabled on an interface: a shutdown has a last LSP to send.          *)
(***************************************************************************)
EXTENDS Integers, Sequences

CONSTANTS
  Timeouts,  \* time limits in commands; 0 is none
  MaxJobs,   \* bound: jobs of the timer that wait
  NULL

VARIABLES
  node_info,  \* what concerns the overload in isis_node_info_t
  lsp,        \* the overload bit of the last LSP
  ovl_jobs,   \* jobs of the timer, the next one first: their argument, "node" or NULL
  late,       \* a timer changed in this tick may still fire in it: with these arguments
  meddled,    \* see OverloadSound
  ovl_crashed \* why the process ended: "no" while it runs

vars == <<node_info, lsp, ovl_jobs, late, meddled, ovl_crashed>>

Protocol == {"enabled", "shutdown pending", "disabled"}
Fresh(protocol) ==
  [protocol |-> protocol, ovl_status |-> FALSE, timeout_val |-> 0, ovl_timer |-> NULL, lsp_pkt_gen_task |-> FALSE]

\* isis_schedule_lsp_pkt_generation: a shutdown has its last LSP queued already.
regenerated(n) == IF n.protocol = "enabled" THEN [n EXCEPT !.lsp_pkt_gen_task = TRUE] ELSE n

Init ==
  /\ node_info = regenerated(Fresh("enabled"))
  /\ lsp = FALSE
  /\ ovl_jobs = <<>>
  /\ late = {} /\ meddled = FALSE
  /\ ovl_crashed = "no"

-----------------------------------------------------------------------------
(* The timer, which is armed, or has fired and stays registered.           *)

Armed(n) == n.ovl_timer # NULL /\ n.ovl_timer.state = "armed"

\* isis_start_overload_timer, timer_reschedule
started(n, val) == [n EXCEPT !.timeout_val = val, !.ovl_timer = [state |-> "armed", val |-> val]]

\* Mutant: the timer stays.
stopped_not(n) == n

\* isis_stop_overload_timer
stopped(n) == [n EXCEPT !.ovl_timer = NULL]

\* timer_de_register_app_event clears the argument at once, and timer_reschedule leaves it;
\* the element is moved only when the wheel has done its slot.
LateAfter(n) ==
  IF ~Armed(node_info) \/ n.ovl_timer = node_info.ovl_timer THEN late
  ELSE IF n.ovl_timer = NULL THEN {NULL} ELSE late \union {"node"}

\* A handler leaves n behind, and touches the timer or not.
Becomes(n) ==
  /\ node_info' = n
  /\ late' = LateAfter(n)
  /\ meddled' = (meddled \/ (n.ovl_timer # node_info.ovl_timer /\ (ovl_jobs # <<>> \/ node_info.protocol # "enabled")))
  /\ UNCHANGED <<lsp, ovl_jobs, ovl_crashed>>

\* wheel_fn
TimerFires ==
  /\ Armed(node_info)
  /\ Len(ovl_jobs) < MaxJobs
  /\ node_info' = [node_info EXCEPT !.ovl_timer.state = "fired"]
  /\ ovl_jobs' = Append(ovl_jobs, "node")
  /\ UNCHANGED <<lsp, late, meddled, ovl_crashed>>

\* wheel_fn: a timer that is changed is moved at the end of a tick, and may fire in it.
TimerMoves(fired) ==
  /\ late # {}
  /\ late' = {}
  /\ Len(ovl_jobs) + Len(fired) <= MaxJobs
  /\ ovl_jobs' = ovl_jobs \o fired
  /\ meddled' = (meddled \/ fired # <<>>)
  /\ UNCHANGED <<node_info, lsp, ovl_crashed>>

\* isis_overload_timer_expire: it tests nothing.
TimerExpire ==
  /\ ovl_jobs # <<>>
  /\ ovl_jobs' = Tail(ovl_jobs)
  /\ IF Head(ovl_jobs) = NULL \/ node_info.protocol = "disabled" \/ node_info.ovl_timer = NULL
     THEN ovl_crashed' = "NULL" /\ UNCHANGED <<node_info, late>>
     ELSE LET n == regenerated([stopped(node_info) EXCEPT !.ovl_status = FALSE, !.timeout_val = 0]) IN
          /\ node_info' = n
          /\ late' = LateAfter(n)
          /\ UNCHANGED ovl_crashed
  /\ UNCHANGED <<lsp, meddled>>

-----------------------------------------------------------------------------
(* Commands.                                                               *)

Enabled == node_info.protocol # "disabled"

set(n) == IF n.ovl_status THEN n ELSE regenerated([n EXCEPT !.ovl_status = TRUE])

\* isis_set_overload, CMDCODE_CONF_NODE_ISIS_PROTO_OVERLOAD
SetOverload == Enabled /\ Becomes(set(node_info))

\* isis_set_overload, CMDCODE_CONF_NODE_ISIS_PROTO_OVERLOAD_TIMEOUT
SetOverloadTimeout(val) ==
  /\ Enabled
  /\ LET n == set(node_info) IN
     Becomes(IF val = 0 THEN stopped(n)
             ELSE IF n.ovl_timer = NULL \/ val # n.timeout_val THEN started(n, val) ELSE n)

\* isis_unset_overload
UnsetOverload ==
  /\ Enabled /\ node_info.ovl_status
  /\ Becomes(regenerated(stopped([node_info EXCEPT !.ovl_status = FALSE])))

UnsetOverloadTimeout == Enabled /\ Becomes(stopped(node_info))

\* isis_generate_lsp_pkt, isis_create_fresh_lsp_pkt
GenerateLsp ==
  /\ node_info.lsp_pkt_gen_task
  /\ lsp' = node_info.ovl_status
  /\ node_info' = [node_info EXCEPT !.lsp_pkt_gen_task = FALSE]
  /\ UNCHANGED <<ovl_jobs, late, meddled, ovl_crashed>>

\* isis_protocol_shut_down: pending until its last LSP is sent.
ShutDown ==
  /\ node_info.protocol = "enabled"
  /\ Becomes([stopped(node_info) EXCEPT !.protocol = "shutdown pending", !.lsp_pkt_gen_task = TRUE])

\* isis_check_delete_node_info
ShutDownNow ==
  /\ node_info.protocol = "shutdown pending" /\ ~node_info.lsp_pkt_gen_task
  /\ IF node_info.ovl_timer # NULL
     THEN ovl_crashed' = "assert" /\ UNCHANGED <<node_info, lsp>>
     ELSE node_info' = Fresh("disabled") /\ lsp' = FALSE /\ UNCHANGED ovl_crashed
  /\ UNCHANGED <<ovl_jobs, late, meddled>>

\* isis_init
Start ==
  /\ node_info.protocol = "disabled"
  /\ Becomes(regenerated(Fresh("enabled")))

Next ==
  /\ ovl_crashed = "no"
  /\ \/ TimerFires \/ TimerExpire \/ \E arg \in late : TimerMoves(<<arg>>) \/ TimerMoves(<<>>)
     \/ SetOverload \/ UnsetOverload \/ UnsetOverloadTimeout
     \/ \E val \in Timeouts : SetOverloadTimeout(val)
     \/ GenerateLsp \/ ShutDown \/ ShutDownNow \/ Start

Spec == Init /\ [][Next]_vars

-----------------------------------------------------------------------------

Timers == [state : {"armed", "fired"}, val : Timeouts]

TypeOK ==
  /\ node_info \in [protocol : Protocol, ovl_status : BOOLEAN, timeout_val : Timeouts \union {0},
                    ovl_timer : Timers \union {NULL}, lsp_pkt_gen_task : BOOLEAN]
  /\ lsp \in BOOLEAN /\ meddled \in BOOLEAN
  /\ late \subseteq {"node", NULL}
  /\ ovl_jobs \in Seq({"node", NULL})
  /\ ovl_crashed \in {"no", "NULL", "assert"}

\* isis_set_overload, isis_unset_overload, isis_overload_timer_expire: in any order of
\* commands and jobs the last LSP says whether the router is overloaded, or the next one
\* is queued; a time limit runs only while there is something to limit, and is the one
\* that was asked for last.  Unless a command has come between a timer and its job, or
\* during a shutdown, the job ends the overload that its timer was for, and nothing fails.
LspTellsOverload ==
  node_info.protocol = "enabled" => lsp = node_info.ovl_status \/ node_info.lsp_pkt_gen_task
LimitLimits ==
  node_info.ovl_timer # NULL => node_info.ovl_status /\ node_info.ovl_timer.val = node_info.timeout_val
JobEndsOverload ==
  ~meddled =>
    /\ ovl_crashed = "no"
    /\ ovl_jobs = IF node_info.ovl_timer # NULL /\ ~Armed(node_info) THEN <<"node">> ELSE <<>>
    /\ node_info.protocol # "enabled" => node_info.ovl_timer = NULL
OverloadSound == TypeOK /\ LspTellsOverload /\ LimitLimits /\ JobEndsOverload
=============================================================================
