--------------------------- MODULE EventDispatcher ---------------------------
(***************************************************************************)
(* EventDispatcher/event_dispatcher.c: the thread that runs every job of   *)
(* the stack one after the other, and the threads that give it work.       *)
(*                                                                         *)
(*   Dis           the dispatcher thread; the callbacks of the jobs run on *)
(*                 it and may call the library again                       *)
(*   TimerThreads  the wheel timer's threads: task_create_new_job          *)
(*   CliThreads    the command line: task_create_new_job_synchronous       *)
(*   RecvThreads   the UDP receiver thread (comm.c): pkt_q_enqueue         *)
(*                                                                         *)
(* A section of the code between EV_DIS_LOCK and EV_DIS_UNLOCK (or a       *)
(* pthread_cond_wait, which releases the mutex) is one step: everything it *)
(* touches is read by the others under the mutex too, except the two       *)
(* pointers of a task, which event_dispatcher_schedule_task tests before   *)
(* it takes the mutex.  Those two tests are steps of their own.            *)
(***************************************************************************)
EXTENDS Glthread, Sequences, FiniteSets

CONSTANTS
  Dis, TimerThreads, CliThreads, RecvThreads,
  QHead,          \* ev_dis.task_array_head
  Tasks,          \* task_t objects the memory manager can hand out
  PktTask,        \* the job of the receive queue recvr_pkt_q (comm.c)
  Packets,        \* ev_dis_pkt_data_t objects that can be in flight
  BgJobs,         \* whether callbacks create TASK_BG jobs
  SpuriousWakeups,\* whether pthread_cond_wait returns without a signal
  MaxCalls,       \* library calls one callback makes
  MaxRecv         \* packets one receiver thread injects

AppThreads == TimerThreads \cup CliThreads \cup RecvThreads
Threads == AppThreads \cup {Dis}
Nodes == Tasks \cup {QHead}

ASSUME DispatcherAssumption ==
  /\ Dis \notin AppThreads
  /\ TimerThreads \cap CliThreads = {}
  /\ TimerThreads \cap RecvThreads = {}
  /\ CliThreads \cap RecvThreads = {}
  /\ QHead \notin Tasks
  /\ NULL \notin Nodes
  /\ PktTask \in Tasks
  /\ BgJobs \in BOOLEAN
  /\ SpuriousWakeups \in BOOLEAN
  /\ MaxCalls \in Nat
  /\ MaxRecv \in Nat

VARIABLES
  gl,            \* the glue of the tasks and of the list head
  task,          \* the fields of each task_t
  alloc,         \* the tasks that are allocated
  pktq,          \* recvr_pkt_q.q_head
  ev_dis_state, signal_sent, current_task,
  pc,            \* where each thread is
  arg,           \* the task each thread is scheduling, or waits for
  ret,           \* where event_dispatcher_schedule_task returns to on Dis
  calls,         \* calls the running callback may still make
  recvd          \* packets each receiver thread may still inject

vars == <<gl, task, alloc, pktq, ev_dis_state, signal_sent, current_task,
          pc, arg, ret, calls, recvd>>

TaskFields ==
  [task_type : {"TASK_ONE_SHOT", "TASK_BG", "TASK_PKT_Q_JOB"},
   re_schedule : BOOLEAN,
   sync : BOOLEAN,      \* app_cond_var is set
   handle : BOOLEAN]    \* the creator keeps the pointer and may cancel

NewFields(type, sync, handle) ==
  [task_type |-> type, re_schedule |-> FALSE, sync |-> sync, handle |-> handle]

\* The places of a thread.  An application thread is "idle" outside of the
\* library; the dispatcher is in "loop", "sleep", "woken", "run" or "post".
Places == {"idle", "enq", "sched", "assert", "crit", "syncwait", "syncwoken",
           "loop", "sleep", "woken", "run", "post", "abort", "spin"}

Init ==
  /\ gl = [left |-> [n \in Nodes |-> NULL], right |-> [n \in Nodes |-> NULL]]
  /\ task = [t \in Tasks |-> NewFields(IF t = PktTask THEN "TASK_PKT_Q_JOB"
                                       ELSE "TASK_ONE_SHOT", FALSE, FALSE)]
  /\ alloc = {PktTask}
  /\ pktq = <<>>
  /\ ev_dis_state = "EV_DIS_IDLE"
  /\ signal_sent = FALSE
  /\ current_task = NULL
  /\ pc = [th \in Threads |-> IF th = Dis THEN "loop" ELSE "idle"]
  /\ arg = [th \in Threads |-> NULL]
  /\ ret = "loop"
  /\ calls = 0
  /\ recvd = [th \in RecvThreads |-> MaxRecv]

-----------------------------------------------------------------------------
(* The mutex is held between two steps only by a thread whose walk to the *)
(* end of a cyclic list never ends.                                       *)
MutexFree == \A th \in Threads : pc[th] # "spin"

\* A thread whose assert failed takes the whole process down.
Running == \A th \in Threads : pc[th] # "abort"

BackFrom(th) == IF th = Dis THEN ret ELSE "idle"

\* create_new_task, then the call of event_dispatcher_schedule_task; on the
\* dispatcher it returns into the running callback.
CreateJob(th, t, type, sync, handle) ==
  /\ t \notin alloc
  /\ alloc' = alloc \cup {t}
  /\ task' = [task EXCEPT ![t] = NewFields(type, sync, handle)]
  /\ gl' = init_glthread(gl, t)
  /\ pc' = [pc EXCEPT ![th] = "sched"]
  /\ arg' = [arg EXCEPT ![th] = t]

\* pkt_q_enqueue up to the release of q_mutex.  The packet is added behind
\* the head of the list and task_get_next_pkt takes the first one: the
\* newest packet is served first.
EnqueuePkt(th, p) ==
  /\ \A i \in DOMAIN pktq : pktq[i] # p
  /\ pktq' = <<p>> \o pktq
  /\ pc' = [pc EXCEPT ![th] = "enq"]

\* Mutant: a running packet job is taken for a queued one.
JobIsQueuedOrRuns == ~IsUnlinked(gl, PktTask) \/ current_task = PktTask

JobIsQueued == ~IsUnlinked(gl, PktTask)

\* pkt_q_enqueue, the second half: nothing to do when the job is queued.
EnqueueTest(th) ==
  /\ Running
  /\ pc[th] = "enq"
  /\ MutexFree
  /\ IF JobIsQueued
     THEN pc' = [pc EXCEPT ![th] = BackFrom(th)] /\ UNCHANGED arg
     ELSE pc' = [pc EXCEPT ![th] = "sched"] /\ arg' = [arg EXCEPT ![th] = PktTask]
  /\ UNCHANGED <<gl, task, alloc, pktq, ev_dis_state, signal_sent,
                 current_task, ret, calls, recvd>>

\* event_dispatcher_schedule_task: the test before the mutex.
SchedTest(th) ==
  /\ Running
  /\ pc[th] = "sched"
  /\ IF task[arg[th]].task_type = "TASK_PKT_Q_JOB" /\ ~IsUnlinked(gl, arg[th])
     THEN pc' = [pc EXCEPT ![th] = BackFrom(th)] /\ arg' = [arg EXCEPT ![th] = NULL]
     ELSE pc' = [pc EXCEPT ![th] = "assert"] /\ UNCHANGED arg
  /\ UNCHANGED <<gl, task, alloc, pktq, ev_dis_state, signal_sent,
                 current_task, ret, calls, recvd>>

\* event_dispatcher_schedule_task: assert(IS_GLTHREAD_LIST_EMPTY(&task->glue)).
SchedAssert(th) ==
  /\ Running
  /\ pc[th] = "assert"
  /\ pc' = [pc EXCEPT ![th] = IF IsUnlinked(gl, arg[th]) THEN "crit" ELSE "abort"]
  /\ UNCHANGED <<gl, task, alloc, pktq, ev_dis_state, signal_sent,
                 current_task, arg, ret, calls, recvd>>

\* Whether the insertion signals ev_dis_cond_wait; the signal is lost when
\* the dispatcher does not wait.
Signals == ev_dis_state = "EV_DIS_IDLE" /\ ~signal_sent

\* Mutant: the task is added at the head of the list.
QueuedFirst(t) == glthread_add_next(gl, QHead, t)

Queued(t) == glthread_add_last(gl, QHead, t)

\* event_dispatcher_schedule_task: the part under the mutex.  A synchronous
\* job leaves its creator waiting on app_cond_var.
SchedInsert(th) ==
  /\ Running
  /\ pc[th] = "crit"
  /\ MutexFree
  /\ IterationEnds(gl, QHead)
  /\ gl' = Queued(arg[th])
  /\ signal_sent' = (signal_sent \/ Signals)
  /\ LET next == IF task[arg[th]].sync THEN "syncwait" ELSE BackFrom(th)
         disWakes == Signals /\ pc[Dis] = "sleep"
     IN pc' = [u \in Threads |-> IF u = th THEN next
                                 ELSE IF u = Dis /\ disWakes THEN "woken"
                                 ELSE pc[u]]
  /\ arg' = [arg EXCEPT ![th] = IF task[arg[th]].sync THEN @ ELSE NULL]
  /\ UNCHANGED <<task, alloc, pktq, ev_dis_state, current_task, ret, calls, recvd>>

\* glthread_add_last on a list that has become cyclic.
SchedSpin(th) ==
  /\ Running
  /\ pc[th] = "crit"
  /\ MutexFree
  /\ ~IterationEnds(gl, QHead)
  /\ pc' = [pc EXCEPT ![th] = "spin"]
  /\ UNCHANGED <<gl, task, alloc, pktq, ev_dis_state, signal_sent,
                 current_task, arg, ret, calls, recvd>>

\* event_dispatcher_schedule_task: pthread_cond_wait has returned, the
\* creator of a synchronous job frees it.
SyncReturn(th) ==
  /\ Running
  /\ pc[th] = "syncwoken"
  /\ MutexFree
  /\ alloc' = alloc \ {arg[th]}
  /\ pc' = [pc EXCEPT ![th] = BackFrom(th)]
  /\ arg' = [arg EXCEPT ![th] = NULL]
  /\ UNCHANGED <<gl, task, pktq, ev_dis_state, signal_sent, current_task,
                 ret, calls, recvd>>

\* pthread_cond_wait may return without a signal.  The dispatcher looks at
\* its list again; the creator of a synchronous job goes on.
SpuriousWakeup(th) ==
  /\ Running
  /\ SpuriousWakeups
  /\ pc[th] \in {"sleep", "syncwait"}
  /\ pc' = [pc EXCEPT ![th] = IF @ = "sleep" THEN "woken" ELSE "syncwoken"]
  /\ UNCHANGED <<gl, task, alloc, pktq, ev_dis_state, signal_sent,
                 current_task, arg, ret, calls, recvd>>

-----------------------------------------------------------------------------
(* The application threads call the library. *)

\* wheel_fn (WheelTimer.c) submits a job for an expired timer.
TimerCreatesJob(th, t) ==
  /\ Running
  /\ pc[th] = "idle"
  /\ CreateJob(th, t, "TASK_ONE_SHOT", FALSE, FALSE)
  /\ UNCHANGED <<pktq, ev_dis_state, signal_sent, current_task, ret, calls, recvd>>

\* The command parser submits a command and waits for it.
CliCreatesJob(th, t) ==
  /\ Running
  /\ pc[th] = "idle"
  /\ CreateJob(th, t, "TASK_ONE_SHOT", TRUE, FALSE)
  /\ UNCHANGED <<pktq, ev_dis_state, signal_sent, current_task, ret, calls, recvd>>

\* _network_start_pkt_receiver_thread injects a packet (send_pkt_to_self).
ReceiverEnqueues(th, p) ==
  /\ Running
  /\ pc[th] = "idle"
  /\ recvd[th] > 0
  /\ recvd' = [recvd EXCEPT ![th] = @ - 1]
  /\ EnqueuePkt(th, p)
  /\ UNCHANGED <<gl, task, alloc, ev_dis_state, signal_sent, current_task,
                 arg, ret, calls>>

-----------------------------------------------------------------------------
(* The dispatcher thread. *)

\* Mutant: signal_sent is not reset.
FlagKept == signal_sent

FlagAtSleep == FALSE

\* event_dispatcher_thread: nothing to run.
DispatcherSleeps ==
  /\ Running
  /\ pc[Dis] \in {"loop", "woken"}
  /\ MutexFree
  /\ gl.right[QHead] = NULL
  /\ ev_dis_state' = "EV_DIS_IDLE"
  /\ signal_sent' = FlagAtSleep
  /\ current_task' = NULL
  /\ pc' = [pc EXCEPT ![Dis] = "sleep"]
  /\ UNCHANGED <<gl, task, alloc, pktq, arg, ret, calls, recvd>>

\* event_dispatcher_get_next_task_to_run: the task that is returned ...
FirstTask == gl.right[QHead]

\* ... and the list that is left.
Dequeued == dequeue_glthread_first(gl, QHead)

\* event_dispatcher_thread: take the first task and call it.
Dispatch ==
  /\ Running
  /\ pc[Dis] \in {"loop", "woken"}
  /\ MutexFree
  /\ gl.right[QHead] # NULL
  /\ current_task' = FirstTask
  /\ gl' = Dequeued
  /\ ev_dis_state' = "EV_DIS_TASK_FIN_WAIT"
  /\ calls' = MaxCalls
  /\ pc' = [pc EXCEPT ![Dis] = "run"]
  /\ UNCHANGED <<task, alloc, pktq, signal_sent, arg, ret, recvd>>

InCallback == Running /\ pc[Dis] = "run"

MayCall == InCallback /\ calls > 0 /\ calls' = calls - 1

\* A callback forks a job.
CallbackCreatesJob(t, type) ==
  /\ MayCall
  /\ CreateJob(Dis, t, type, FALSE, TRUE)
  /\ ret' = "run"
  /\ UNCHANGED <<pktq, ev_dis_state, signal_sent, current_task, recvd>>

\* A callback sends a packet (send_pkt_out).
CallbackEnqueues(p) ==
  /\ MayCall
  /\ EnqueuePkt(Dis, p)
  /\ ret' = "run"
  /\ UNCHANGED <<gl, task, alloc, ev_dis_state, signal_sent, current_task, arg, recvd>>

\* task_schedule_again(NULL).  The jobs the command line waits for never
\* call it.
CallbackSchedulesAgain ==
  /\ MayCall
  /\ task[current_task].task_type = "TASK_ONE_SHOT"
  /\ ~task[current_task].sync
  /\ task' = [task EXCEPT ![current_task].re_schedule = TRUE]
  /\ UNCHANGED <<gl, alloc, pktq, ev_dis_state, signal_sent, current_task,
                 pc, arg, ret, recvd>>

\* Mutant: a cancelled task is freed but stays in the list.
StillLinked(t) == gl

Unlinked(t) == remove_glthread(gl, t)

\* task_cancel_job for a job the caller created and that has not run yet.
CallbackCancels(t) ==
  /\ MayCall
  /\ MutexFree
  /\ t \in alloc
  /\ task[t].handle
  /\ ~IsUnlinked(gl, t)
  /\ t # current_task
  /\ gl' = Unlinked(t)
  /\ alloc' = alloc \ {t}
  /\ UNCHANGED <<task, pktq, ev_dis_state, signal_sent, current_task, pc,
                 arg, ret, recvd>>

\* pkt_recvr_job_cbk asks for the next packet until there is none.
CallbackTakesPkt ==
  /\ InCallback
  /\ task[current_task].task_type = "TASK_PKT_Q_JOB"
  /\ pktq # <<>>
  /\ pktq' = Tail(pktq)
  /\ UNCHANGED <<gl, task, alloc, ev_dis_state, signal_sent, current_task,
                 pc, arg, ret, calls, recvd>>

CallbackReturns ==
  /\ InCallback
  /\ task[current_task].task_type = "TASK_PKT_Q_JOB" => pktq = <<>>
  /\ pc' = [pc EXCEPT ![Dis] = "post"]
  /\ UNCHANGED <<gl, task, alloc, pktq, ev_dis_state, signal_sent,
                 current_task, arg, ret, calls, recvd>>

\* The three outcomes of eve_dis_process_task_post_call.
RunsAgain ==
  LET t == task[current_task]
  IN \/ t.task_type = "TASK_BG"
     \/ t.task_type = "TASK_ONE_SHOT" /\ t.re_schedule
     \/ t.task_type = "TASK_PKT_Q_JOB" /\ pktq # <<>>

Finished == task[current_task].task_type = "TASK_ONE_SHOT" /\ ~RunsAgain

PostCallSchedules ==
  /\ Running
  /\ pc[Dis] = "post"
  /\ RunsAgain
  /\ task' = [task EXCEPT ![current_task].re_schedule = FALSE]
  /\ pc' = [pc EXCEPT ![Dis] = "sched"]
  /\ arg' = [arg EXCEPT ![Dis] = current_task]
  /\ ret' = "loop"
  /\ UNCHANGED <<gl, alloc, pktq, ev_dis_state, signal_sent, current_task,
                 calls, recvd>>

WaitsFor(u, t) == task[t].sync /\ pc[u] = "syncwait" /\ arg[u] = t

\* A finished job is freed here, unless its creator waits for it: then the
\* creator is signalled and frees it.
PostCallFinishes ==
  /\ Running
  /\ pc[Dis] = "post"
  /\ Finished
  /\ alloc' = IF task[current_task].sync THEN alloc ELSE alloc \ {current_task}
  /\ pc' = [u \in Threads |->
              IF u = Dis THEN "loop"
              ELSE IF WaitsFor(u, current_task) THEN "syncwoken"
              ELSE pc[u]]
  /\ UNCHANGED <<gl, task, pktq, ev_dis_state, signal_sent, current_task,
                 arg, ret, calls, recvd>>

PostCallStops ==
  /\ Running
  /\ pc[Dis] = "post"
  /\ ~RunsAgain /\ ~Finished
  /\ pc' = [pc EXCEPT ![Dis] = "loop"]
  /\ UNCHANGED <<gl, task, alloc, pktq, ev_dis_state, signal_sent,
                 current_task, arg, ret, calls, recvd>>

-----------------------------------------------------------------------------
LibraryStep(th) ==
  \/ EnqueueTest(th) \/ SchedTest(th) \/ SchedAssert(th) \/ SchedInsert(th)
  \/ SchedSpin(th) \/ SyncReturn(th)

ApplicationCall ==
  \/ \E th \in TimerThreads, t \in Tasks : TimerCreatesJob(th, t)
  \/ \E th \in CliThreads, t \in Tasks : CliCreatesJob(th, t)
  \/ \E th \in RecvThreads, p \in Packets : ReceiverEnqueues(th, p)

CallbackCall ==
  \/ \E t \in Tasks : CallbackCreatesJob(t, "TASK_ONE_SHOT")
  \/ \E t \in Tasks : BgJobs /\ CallbackCreatesJob(t, "TASK_BG")
  \/ \E p \in Packets : CallbackEnqueues(p)
  \/ CallbackSchedulesAgain
  \/ \E t \in Tasks : CallbackCancels(t)

DispatcherStep ==
  \/ DispatcherSleeps \/ Dispatch
  \/ CallbackCall \/ CallbackTakesPkt \/ CallbackReturns
  \/ PostCallSchedules \/ PostCallFinishes \/ PostCallStops

Next ==
  \/ \E th \in Threads : LibraryStep(th)
  \/ \E th \in Threads : SpuriousWakeup(th)
  \/ ApplicationCall
  \/ DispatcherStep

Spec == Init /\ [][Next]_vars

\* Every thread that is inside the library is scheduled again, and so is the
\* dispatcher; a callback makes finitely many calls and returns.  Nothing
\* makes an application thread call the library.
Fairness ==
  /\ \A th \in AppThreads : WF_vars(LibraryStep(th))
  /\ WF_vars(LibraryStep(Dis) \/ DispatcherStep)

FairSpec == Spec /\ Fairness
-----------------------------------------------------------------------------
TypeOK ==
  /\ gl \in [left : [Nodes -> Nodes \cup {NULL}], right : [Nodes -> Tasks \cup {NULL}]]
  /\ task \in [Tasks -> TaskFields]
  /\ alloc \in SUBSET Tasks
  /\ pktq \in Seq(Packets)
  /\ ev_dis_state \in {"EV_DIS_IDLE", "EV_DIS_TASK_FIN_WAIT"}
  /\ signal_sent \in BOOLEAN
  /\ current_task \in Tasks \cup {NULL}
  /\ pc \in [Threads -> Places]
  /\ arg \in [Threads -> Tasks \cup {NULL}]
  /\ ret \in {"loop", "run"}
  /\ calls \in 0..MaxCalls
  /\ recvd \in [RecvThreads -> 0..MaxRecv]

\* No wakeup is lost: while the dispatcher sleeps in ev_dis_cond_wait with
\* no signal on its way, its task list is empty.  The flag signal_sent, which
\* suppresses signals, must be down in every such state.
NoLostWakeup == pc[Dis] = "sleep" => gl.right[QHead] = NULL

\* A thread that waits in event_dispatcher_schedule_task for its synchronous
\* job continues only when the job has left the queue and its callback has
\* returned ("Task finished, free now").
SyncJobDone ==
  \A th \in CliThreads : pc[th] = "syncwoken" =>
    /\ IsUnlinked(gl, arg[th])
    /\ current_task = arg[th] => pc[Dis] = "loop"

\* The dispatcher is in a library call that the running callback made.
InCallFromCallback == ret = "run" /\ pc[Dis] \in {"enq", "sched", "assert", "crit"}

\* A packet in the receive queue is never stranded: its job is in the list, is
\* running and will look again, or some thread is on its way to queue it.
PktNotStranded ==
  pktq # <<>> =>
    \/ PktTask \in Walk(gl, QHead, Nodes)
    \/ current_task = PktTask /\ (pc[Dis] \in {"run", "post"} \/ InCallFromCallback)
    \/ \E th \in Threads : \/ pc[th] = "enq"
                           \/ arg[th] = PktTask /\ pc[th] \in {"sched", "assert", "crit"}

\* The assertion of event_dispatcher_schedule_task: a task that is about to
\* be queued is in no list.
GlueAssertHolds == \A th \in Threads : pc[th] # "abort"

\* The task list stays a doubly linked list: what a node points to points
\* back to it, and nothing precedes the head.  A task linked twice breaks it.
WellLinked ==
  /\ \A n \in Nodes : gl.right[n] # NULL => gl.left[gl.right[n]] = n
  /\ \A n \in Nodes : gl.left[n] # NULL => gl.right[gl.left[n]] = n
  /\ gl.left[QHead] = NULL

\* No task is freed while the dispatcher's list or the dispatcher itself can
\* still reach it.
NoFreedTaskReachable ==
  /\ Walk(gl, QHead, Nodes) \subseteq alloc \cup {QHead}
  /\ pc[Dis] \in {"run", "post"} => current_task \in alloc

\* event_dispatcher_schedule_task, task_cancel_job: in every interleaving of the
\* threads the task list stays a list, no task is queued twice, none is freed
\* while it can be reached, and who waits for a job goes on when it is done.
TasksSound == WellLinked /\ GlueAssertHolds /\ NoFreedTaskReachable /\ SyncJobDone

\* Every job that was queued is run, or cancelled by the job that created it.
EveryJobRuns ==
  \A t \in Tasks : ~IsUnlinked(gl, t) ~> (current_task = t \/ t \notin alloc)

\* A command of the command line always comes back.
EveryCommandReturns ==
  \A th \in CliThreads : pc[th] # "idle" ~> pc[th] = "idle"

\* Every packet in the receive queue is handed to the stack.
EveryPacketDelivered ==
  \A p \in Packets :
    (\E i \in DOMAIN pktq : pktq[i] = p) ~> (\A i \in DOMAIN pktq : pktq[i] # p)

\* event_dispatcher_thread: what is queued, be it a job or a packet, gets its turn, and
\* so does the command that waits for its job.
QueuedIsServed == EveryJobRuns /\ EveryPacketDelivered /\ EveryCommandReturns
=============================================================================
