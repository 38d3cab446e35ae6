----------------------- MODULE EventDispatcherProofs -----------------------
(***************************************************************************)
(* What holds of the dispatcher for every set of threads, tasks and        *)
(* packets, receiver threads included.  In every behaviour: the types, and *)
(* that no wakeup is lost.  In those where no two threads are between the  *)
(* unlocked test of the packet job and its insertion together (NoOverlap): *)
(* the task list stays a list, no task is freed while it can be reached    *)
(* and no packet is stranded.  The argument of that part is ownership: a   *)
(* task other than the packet job is linked, or free, or in the hands of   *)
(* exactly one thread, which alone may insert it.  Walk, a fold, is        *)
(* handled by the set of nodes that some node points to, which is closed   *)
(* under the forward pointers.                                             *)
(***************************************************************************)
EXTENDS EventDispatcher, TLAPS

GlType == [left : [Nodes -> Nodes \cup {NULL}], right : [Nodes -> Tasks \cup {NULL}]]

\* A thread that schedules, or waits for, a task has one.
ArgOK ==
  \A th \in Threads :
    pc[th] \in {"sched", "assert", "crit", "spin", "syncwait", "syncwoken"} => arg[th] \in Tasks

\* The dispatcher runs a callback, or is in a call the callback made.
DisInCallback ==
  \/ pc[Dis] \in {"run", "post"}
  \/ ret = "run" /\ pc[Dis] \notin {"loop", "sleep", "woken"}

CurrentOK == DisInCallback => current_task \in Tasks

\* While the dispatcher sleeps the next insertion signals it.
SleepOK ==
  pc[Dis] = "sleep" =>
    ev_dis_state = "EV_DIS_IDLE" /\ signal_sent = FALSE /\ gl.right[QHead] = NULL

Inv == TypeOK /\ ArgOK /\ CurrentOK /\ SleepOK

-----------------------------------------------------------------------------
\* The list operations of glthread.c keep the types of the pointers; no
\* pointer of the list ever leads to its head.
LEMMA InitType ==
  ASSUME NEW g \in GlType, NEW t \in Tasks
  PROVE  /\ init_glthread(g, t) \in GlType
         /\ init_glthread(g, t).right[QHead] = g.right[QHead]
  BY DispatcherAssumption DEF init_glthread, GlType, Nodes

LEMMA AddNextType ==
  ASSUME NEW g \in GlType, NEW c \in Nodes, NEW n \in Tasks
  PROVE  glthread_add_next(g, c, n) \in GlType
  <1>1. n \in Nodes /\ g.right[c] \in Tasks \cup {NULL}
    BY DEF GlType, Nodes
  <1>2. CASE g.right[c] = NULL
    BY <1>1, <1>2 DEF glthread_add_next, GlType
  <1>3. CASE g.right[c] # NULL
    <2>1. g.right[c] \in Nodes
      BY <1>1, <1>3 DEF Nodes
    <2> QED BY <1>1, <1>3, <2>1 DEF glthread_add_next, GlType
  <1> QED BY <1>2, <1>3

LEMMA RemoveType ==
  ASSUME NEW g \in GlType, NEW t \in Tasks
  PROVE  remove_glthread(g, t) \in GlType
  <1> DEFINE l == g.left[t]
             r == g.right[t]
  <1>1. t \in Nodes /\ l \in Nodes \cup {NULL} /\ r \in Tasks \cup {NULL}
    BY DEF GlType, Nodes
  <1>2. relinked(g.left, r, l) \in [Nodes -> Nodes \cup {NULL}]
    BY <1>1 DEF relinked, GlType, Nodes
  <1>3. relinked(g.right, l, r) \in [Nodes -> Tasks \cup {NULL}]
    BY <1>1 DEF relinked, GlType, Nodes
  <1> QED BY <1>1, <1>2, <1>3 DEF remove_glthread, GlType

\* The last node of a list that ends is one of its nodes.
LEMMA LastNodeType ==
  ASSUME NEW g \in GlType, IterationEnds(g, QHead)
  PROVE  LastNode(g, QHead) \in Nodes
  <1>1. LastNode(g, QHead) \in WalkEnds(g, QHead, DOMAIN g.right)
    BY DEF LastNode, IterationEnds
  <1> QED BY <1>1 DEF WalkEnds, Walk, GlType

-----------------------------------------------------------------------------
LEMMA InitInv == Init => Inv
  <1> SUFFICES ASSUME Init PROVE Inv
    OBVIOUS
  <1> USE DispatcherAssumption
  <1>1. gl \in GlType /\ gl.right[QHead] = NULL
    BY DEF Init, GlType, Nodes
  <1>2. task \in [Tasks -> TaskFields]
    <2>1. task = [t \in Tasks |-> NewFields(IF t = PktTask THEN "TASK_PKT_Q_JOB"
                                             ELSE "TASK_ONE_SHOT", FALSE, FALSE)]
      BY DEF Init
    <2>2. \A type \in {"TASK_ONE_SHOT", "TASK_PKT_Q_JOB"} : NewFields(type, FALSE, FALSE) \in TaskFields
      BY DEF NewFields, TaskFields
    <2> QED BY <2>1, <2>2
  <1>3. pktq \in Seq(Packets) /\ alloc \in SUBSET Tasks
    BY DEF Init
  <1>4. pc \in [Threads -> {"loop", "idle"}] /\ pc[Dis] = "loop"
    BY DEF Init, Threads
  <1>5. /\ arg \in [Threads -> Tasks \cup {NULL}]
        /\ calls \in 0..MaxCalls
        /\ recvd \in [RecvThreads -> 0..MaxRecv]
    BY DEF Init
  <1>6. pc \in [Threads -> Places]
    BY <1>4 DEF Places
  <1>7. TypeOK
    BY <1>1, <1>2, <1>3, <1>5, <1>6 DEF Init, TypeOK, GlType
  <1>8. ArgOK
    BY <1>4 DEF ArgOK
  <1>9. CurrentOK /\ SleepOK
    BY <1>4 DEF Init, CurrentOK, SleepOK, DisInCallback
  <1> QED BY <1>7, <1>8, <1>9 DEF Inv

\* The creation of a job keeps the types and leaves the list alone.
LEMMA CreateJobType ==
  ASSUME Inv, NEW th \in Threads, NEW t \in Tasks,
         NEW type \in {"TASK_ONE_SHOT", "TASK_BG", "TASK_PKT_Q_JOB"},
         NEW sync \in BOOLEAN, NEW handle \in BOOLEAN,
         CreateJob(th, t, type, sync, handle)
  PROVE  /\ gl' \in GlType /\ gl'.right[QHead] = gl.right[QHead]
         /\ task' \in [Tasks -> TaskFields]
         /\ alloc' \in SUBSET Tasks
         /\ pc' = [pc EXCEPT ![th] = "sched"]
         /\ arg' = [arg EXCEPT ![th] = t]
  <1>1. gl \in GlType
    BY DEF Inv, TypeOK, GlType
  <1>2. gl' = init_glthread(gl, t)
    BY DEF CreateJob
  <1>3. gl' \in GlType /\ gl'.right[QHead] = gl.right[QHead]
    BY <1>1, <1>2, InitType
  <1>4. task' \in [Tasks -> TaskFields]
    BY DEF CreateJob, NewFields, TaskFields, Inv, TypeOK
  <1> QED BY <1>3, <1>4 DEF CreateJob, Inv, TypeOK

\* A call of an application thread.
LEMMA AppCallInv ==
  ASSUME Inv, ApplicationCall
  PROVE  Inv'
  <1> USE DispatcherAssumption
  <1>1. ASSUME NEW th \in TimerThreads, NEW t \in Tasks, TimerCreatesJob(th, t)
        PROVE  Inv'
    <2>1. th \in Threads /\ th # Dis
      BY DEF Threads, AppThreads
    <2>2. /\ gl' \in GlType /\ gl'.right[QHead] = gl.right[QHead]
          /\ task' \in [Tasks -> TaskFields]
          /\ alloc' \in SUBSET Tasks
          /\ pc' = [pc EXCEPT ![th] = "sched"]
          /\ arg' = [arg EXCEPT ![th] = t]
      BY <1>1, <2>1, CreateJobType DEF TimerCreatesJob
    <2> QED BY <1>1, <2>1, <2>2
        DEF TimerCreatesJob, Inv, TypeOK, ArgOK, CurrentOK, SleepOK, DisInCallback,
            GlType, Places, Threads
  <1>2. ASSUME NEW th \in CliThreads, NEW t \in Tasks, CliCreatesJob(th, t)
        PROVE  Inv'
    <2>1. th \in Threads /\ th # Dis
      BY DEF Threads, AppThreads
    <2>2. /\ gl' \in GlType /\ gl'.right[QHead] = gl.right[QHead]
          /\ task' \in [Tasks -> TaskFields]
          /\ alloc' \in SUBSET Tasks
          /\ pc' = [pc EXCEPT ![th] = "sched"]
          /\ arg' = [arg EXCEPT ![th] = t]
      BY <1>2, <2>1, CreateJobType DEF CliCreatesJob
    <2> QED BY <1>2, <2>1, <2>2
        DEF CliCreatesJob, Inv, TypeOK, ArgOK, CurrentOK, SleepOK, DisInCallback,
            GlType, Places, Threads
  <1>3. ASSUME NEW th \in RecvThreads, NEW p \in Packets, ReceiverEnqueues(th, p)
        PROVE  Inv'
    <2>1. th \in Threads /\ th # Dis
      BY DEF Threads, AppThreads
    <2>2. pktq' \in Seq(Packets) /\ pc' = [pc EXCEPT ![th] = "enq"]
      BY <1>3 DEF ReceiverEnqueues, EnqueuePkt, Inv, TypeOK
    <2>3. recvd' \in [RecvThreads -> 0..MaxRecv]
      BY <1>3 DEF ReceiverEnqueues, Inv, TypeOK
    <2> QED BY <1>3, <2>1, <2>2, <2>3
        DEF ReceiverEnqueues, Inv, TypeOK, ArgOK, CurrentOK, SleepOK, DisInCallback,
            Places, Threads
  <1> QED BY <1>1, <1>2, <1>3 DEF ApplicationCall

\* A step inside event_dispatcher_schedule_task or pkt_q_enqueue.
LEMMA LibraryStepInv ==
  ASSUME Inv, NEW th \in Threads, LibraryStep(th) \/ SpuriousWakeup(th)
  PROVE  Inv'
  <1> USE DispatcherAssumption
  <1> Dis \in Threads
    BY DEF Threads
  <1>b. BackFrom(th) \in {"loop", "run", "idle"} /\ (th = Dis => BackFrom(th) = ret)
    BY DEF BackFrom, Inv, TypeOK
  <1>1. CASE EnqueueTest(th)
    BY <1>1, <1>b DEF EnqueueTest, Inv, TypeOK, ArgOK, CurrentOK, SleepOK, DisInCallback, Places
  <1>2. CASE SchedTest(th)
    <2>1. \/ pc' = [pc EXCEPT ![th] = BackFrom(th)] /\ arg' = [arg EXCEPT ![th] = NULL]
          \/ pc' = [pc EXCEPT ![th] = "assert"] /\ arg' = arg
      BY <1>2 DEF SchedTest
    <2>2. TypeOK'
      BY <1>2, <1>b, <2>1 DEF SchedTest, Inv, TypeOK, Places
    <2>3. ArgOK'
      BY <1>2, <1>b, <2>1 DEF SchedTest, Inv, TypeOK, ArgOK
    <2>4. CurrentOK' /\ SleepOK'
      BY <1>2, <1>b, <2>1 DEF SchedTest, Inv, TypeOK, CurrentOK, SleepOK, DisInCallback
    <2> QED BY <2>2, <2>3, <2>4 DEF Inv
  <1>3. CASE SchedAssert(th)
    BY <1>3 DEF SchedAssert, Inv, TypeOK, ArgOK, CurrentOK, SleepOK, DisInCallback, Places
  <1>4. CASE SchedInsert(th)
    <2>1. gl \in GlType /\ arg[th] \in Tasks
      BY <1>4 DEF SchedInsert, Inv, TypeOK, ArgOK, GlType
    <2>2. gl' \in GlType
      BY <1>4, <2>1, LastNodeType, AddNextType DEF SchedInsert, Queued, glthread_add_last
    <2>3. /\ pc' \in [Threads -> Places]
          /\ pc'[th] \in {"syncwait", BackFrom(th)}
          /\ \A u \in Threads : u # th => pc'[u] = pc[u] \/ (pc'[u] = "woken" /\ u = Dis)
      <3> DEFINE next == IF task[arg[th]].sync THEN "syncwait" ELSE BackFrom(th)
                 disWakes == Signals /\ pc[Dis] = "sleep"
      <3>1. pc' = [u \in Threads |-> IF u = th THEN next
                                     ELSE IF u = Dis /\ disWakes THEN "woken" ELSE pc[u]]
        BY <1>4 DEF SchedInsert
      <3>2. next \in {"syncwait", BackFrom(th)} /\ next \in Places
        BY <1>b DEF Places
      <3>3. "woken" \in Places /\ pc \in [Threads -> Places]
        BY DEF Places, Inv, TypeOK
      <3> HIDE DEF next, disWakes
      <3> QED BY <3>1, <3>2, <3>3
    <2>4. TypeOK'
      BY <1>4, <2>1, <2>2, <2>3 DEF SchedInsert, Inv, TypeOK, GlType
    <2>5. ArgOK'
      <3> SUFFICES ASSUME NEW u \in Threads,
                          pc'[u] \in {"sched", "assert", "crit", "spin", "syncwait", "syncwoken"}
                   PROVE  arg'[u] \in Tasks
        BY DEF ArgOK
      <3>1. CASE u = th
        <4>1. task[arg[th]].sync
          <5>1. pc'[th] = IF task[arg[th]].sync THEN "syncwait" ELSE BackFrom(th)
            BY <1>4 DEF SchedInsert
          <5> QED BY <1>b, <3>1, <5>1
        <4> QED BY <1>4, <2>1, <3>1, <4>1 DEF SchedInsert, Inv, TypeOK
      <3>2. CASE u # th
        BY <1>4, <2>3, <3>2 DEF SchedInsert, Inv, ArgOK, TypeOK
      <3> QED BY <3>1, <3>2
    <2>6. CurrentOK'
      BY <1>4, <1>b, <2>3 DEF SchedInsert, Inv, CurrentOK, DisInCallback
    <2>7. SleepOK'
      <3>1. pc'[Dis] # "sleep"
        BY <1>4, <1>b DEF SchedInsert, Signals, Inv, SleepOK, TypeOK
      <3> QED BY <3>1 DEF SleepOK
    <2> QED BY <2>4, <2>5, <2>6, <2>7 DEF Inv
  <1>5. CASE SchedSpin(th)
    BY <1>5 DEF SchedSpin, Inv, TypeOK, ArgOK, CurrentOK, SleepOK, DisInCallback, Places
  <1>6. CASE SyncReturn(th)
    BY <1>6, <1>b DEF SyncReturn, Inv, TypeOK, ArgOK, CurrentOK, SleepOK, DisInCallback, Places
  <1>7. CASE SpuriousWakeup(th)
    BY <1>7 DEF SpuriousWakeup, Inv, TypeOK, ArgOK, CurrentOK, SleepOK, DisInCallback, Places
  <1> QED BY <1>1, <1>2, <1>3, <1>4, <1>5, <1>6, <1>7 DEF LibraryStep

\* A library call made by the running callback.
LEMMA CallbackCallInv ==
  ASSUME Inv, CallbackCall
  PROVE  Inv'
  <1> USE DispatcherAssumption
  <1> Dis \in Threads
    BY DEF Threads
  <1>1. ASSUME NEW t \in Tasks, NEW type \in {"TASK_ONE_SHOT", "TASK_BG"},
               CallbackCreatesJob(t, type)
        PROVE  Inv'
    <2>1. /\ gl' \in GlType /\ gl'.right[QHead] = gl.right[QHead]
          /\ task' \in [Tasks -> TaskFields]
          /\ alloc' \in SUBSET Tasks
          /\ pc' = [pc EXCEPT ![Dis] = "sched"]
          /\ arg' = [arg EXCEPT ![Dis] = t]
      BY <1>1, CreateJobType DEF CallbackCreatesJob
    <2>2. calls' \in 0..MaxCalls
      BY <1>1 DEF CallbackCreatesJob, MayCall, Inv, TypeOK
    <2> QED BY <1>1, <2>1, <2>2
        DEF CallbackCreatesJob, MayCall, InCallback, Inv, TypeOK, ArgOK, CurrentOK, SleepOK,
            DisInCallback, GlType, Places
  <1>2. ASSUME NEW p \in Packets, CallbackEnqueues(p)
        PROVE  Inv'
    <2>1. pktq' \in Seq(Packets) /\ pc' = [pc EXCEPT ![Dis] = "enq"]
      BY <1>2 DEF CallbackEnqueues, EnqueuePkt, Inv, TypeOK
    <2>2. calls' \in 0..MaxCalls
      BY <1>2 DEF CallbackEnqueues, MayCall, Inv, TypeOK
    <2> QED BY <1>2, <2>1, <2>2
        DEF CallbackEnqueues, MayCall, InCallback, Inv, TypeOK, ArgOK, CurrentOK, SleepOK,
            DisInCallback, Places
  <1>3. CASE CallbackSchedulesAgain
    <2>0. current_task \in Tasks
      BY <1>3 DEF CallbackSchedulesAgain, MayCall, InCallback, Inv, CurrentOK, DisInCallback
    <2>1. task' \in [Tasks -> TaskFields]
      BY <1>3, <2>0, ZenonT(40) DEF CallbackSchedulesAgain, Inv, TypeOK, TaskFields
    <2>2. calls' \in 0..MaxCalls
      BY <1>3 DEF CallbackSchedulesAgain, MayCall, Inv, TypeOK
    <2> QED BY <1>3, <2>1, <2>2
        DEF CallbackSchedulesAgain, Inv, TypeOK, ArgOK, CurrentOK, SleepOK, DisInCallback
  <1>4. ASSUME NEW t \in Tasks, CallbackCancels(t)
        PROVE  Inv'
    <2>1. gl' \in GlType
      BY <1>4, RemoveType DEF CallbackCancels, Unlinked, Inv, TypeOK, GlType
    <2>2. calls' \in 0..MaxCalls
      BY <1>4 DEF CallbackCancels, MayCall, Inv, TypeOK
    <2>3. pc[Dis] # "sleep"
      BY <1>4 DEF CallbackCancels, MayCall, InCallback
    <2> QED BY <1>4, <2>1, <2>2, <2>3
        DEF CallbackCancels, Inv, TypeOK, ArgOK, CurrentOK, SleepOK, DisInCallback, GlType
  <1> QED BY <1>1, <1>2, <1>3, <1>4 DEF CallbackCall

\* A step of the dispatcher's own loop.
LEMMA DispatcherStepInv ==
  ASSUME Inv, DispatcherStep
  PROVE  Inv'
  <1> USE DispatcherAssumption
  <1> Dis \in Threads
    BY DEF Threads
  <1>1. CASE DispatcherSleeps
    BY <1>1 DEF DispatcherSleeps, FlagAtSleep, Inv, TypeOK, ArgOK, CurrentOK, SleepOK,
                DisInCallback, Places
  <1>2. CASE Dispatch
    <2>1. gl \in GlType /\ QHead \in Nodes
      BY DEF Inv, TypeOK, GlType, Nodes
    <2>2. FirstTask \in Tasks
      BY <1>2, <2>1 DEF Dispatch, FirstTask, GlType
    <2>3. gl' \in GlType
      BY <1>2, <2>1, <2>2, RemoveType DEF Dispatch, Dequeued, FirstTask, dequeue_glthread_first
    <2> QED BY <1>2, <2>2, <2>3
        DEF Dispatch, Inv, TypeOK, ArgOK, CurrentOK, SleepOK, DisInCallback, Places, GlType
  <1>3. CASE CallbackCall
    BY <1>3, CallbackCallInv
  <1>4. CASE CallbackTakesPkt
    <2>1. pktq' \in Seq(Packets)
      BY <1>4 DEF CallbackTakesPkt, Inv, TypeOK
    <2> QED BY <1>4, <2>1
        DEF CallbackTakesPkt, Inv, TypeOK, ArgOK, CurrentOK, SleepOK, DisInCallback
  <1>5. CASE CallbackReturns
    BY <1>5 DEF CallbackReturns, InCallback, Inv, TypeOK, ArgOK, CurrentOK, SleepOK,
                DisInCallback, Places
  <1>6. CASE PostCallSchedules
    <2>1. current_task \in Tasks
      BY <1>6 DEF PostCallSchedules, Inv, CurrentOK, DisInCallback
    <2>2. task' \in [Tasks -> TaskFields]
      BY <1>6, <2>1, ZenonT(40) DEF PostCallSchedules, Inv, TypeOK, TaskFields
    <2> QED BY <1>6, <2>1, <2>2
        DEF PostCallSchedules, Inv, TypeOK, ArgOK, CurrentOK, SleepOK, DisInCallback, Places
  <1>7. CASE PostCallFinishes
    <2>1. /\ pc' \in [Threads -> Places]
          /\ pc'[Dis] = "loop"
          /\ \A u \in Threads : u # Dis => \/ pc'[u] = pc[u]
                                           \/ pc[u] = "syncwait" /\ pc'[u] = "syncwoken"
      BY <1>7 DEF PostCallFinishes, WaitsFor, Inv, TypeOK, Places
    <2> QED BY <1>7, <2>1
        DEF PostCallFinishes, Inv, TypeOK, ArgOK, CurrentOK, SleepOK, DisInCallback
  <1>8. CASE PostCallStops
    BY <1>8 DEF PostCallStops, Inv, TypeOK, ArgOK, CurrentOK, SleepOK, DisInCallback, Places
  <1> QED BY <1>1, <1>2, <1>3, <1>4, <1>5, <1>6, <1>7, <1>8 DEF DispatcherStep

LEMMA NextInv == Inv /\ [Next]_vars => Inv'
  <1> SUFFICES ASSUME Inv, [Next]_vars
               PROVE  Inv'
    OBVIOUS
  <1>1. CASE UNCHANGED vars
    BY <1>1 DEF vars, Inv, TypeOK, ArgOK, CurrentOK, SleepOK, DisInCallback
  <1>2. CASE Next
    BY <1>2, LibraryStepInv, AppCallInv, DispatcherStepInv DEF Next
  <1> QED BY <1>1, <1>2

\* The variables of the dispatcher keep their types, for every number of
\* threads, tasks and packets; in particular event_dispatcher_thread never
\* takes the head of its list for a task.
THEOREM TypeCorrect == Spec => []TypeOK
  <1>1. Inv => TypeOK
    BY DEF Inv
  <1> QED BY InitInv, NextInv, <1>1, PTL DEF Spec

\* No wakeup of the dispatcher is lost (event_dispatcher_thread sleeps only
\* on an empty list), whatever the threads do to the packet job and however
\* often pthread_cond_wait returns spuriously.
THEOREM NoWakeupIsLost == Spec => []NoLostWakeup
  <1>1. Inv => NoLostWakeup
    BY DEF Inv, SleepOK, NoLostWakeup
  <1> QED BY InitInv, NextInv, <1>1, PTL DEF Spec
-----------------------------------------------------------------------------
(* The list of the dispatcher. *)

\* A list that begins with the head: the pointers agree in both directions, every
\* node that is linked is reached from the head, and the walk ends.
Listed(g) ==
  /\ \A n \in Nodes : g.right[n] # NULL => g.left[g.right[n]] = n
  /\ \A n \in Nodes : g.left[n] # NULL => g.right[g.left[n]] = n
  /\ g.left[QHead] = NULL
  /\ \A n \in Nodes : ~IsUnlinked(g, n) => n \in Walk(g, QHead, Nodes)
  /\ \E n \in Walk(g, QHead, Nodes) : g.right[n] = NULL

\* The nodes that a walk from the head cannot leave.
Closed(g, S) == QHead \in S /\ \A y \in S : g.right[y] # NULL => g.right[y] \in S

\* Only tasks and the head are nodes, and NULL is none of them.
LEMMA NodesAre ==
  /\ QHead \in Nodes /\ QHead \notin Tasks /\ NULL \notin Nodes /\ NULL \notin Tasks
  /\ PktTask \in Tasks /\ \A n \in Nodes : n # QHead => n \in Tasks
  BY DispatcherAssumption DEF Nodes

\* What a walk visits is in every set that it cannot leave.
LEMMA WalkIs ==
  ASSUME NEW g \in GlType, NEW n
  PROVE  n \in Walk(g, QHead, Nodes)
           <=> n \in Nodes /\ \A S \in SUBSET Nodes : Closed(g, S) => n \in S
<1>1. DOMAIN g.right = Nodes /\ \A y \in Nodes : g.right[y] \in Nodes <=> g.right[y] # NULL
  BY NodesAre DEF GlType, Nodes
<1> QED
  BY <1>1 DEF Walk, Closed

\* The walk itself is such a set.
LEMMA WalkClosed ==
  ASSUME NEW g \in GlType
  PROVE  Closed(g, Walk(g, QHead, Nodes)) /\ Walk(g, QHead, Nodes) \in SUBSET Nodes
<1> DEFINE W == Walk(g, QHead, Nodes)
<1>1. \A y \in Nodes : g.right[y] # NULL => g.right[y] \in Nodes
  BY DEF GlType, Nodes
<1>2. QHead \in W
  BY NodesAre, WalkIs DEF Closed
<1>3. ASSUME NEW y \in W, g.right[y] # NULL PROVE g.right[y] \in W
  <2>1. y \in Nodes /\ \A S \in SUBSET Nodes : Closed(g, S) => y \in S
    BY WalkIs
  <2>2. \A S \in SUBSET Nodes : Closed(g, S) => g.right[y] \in S
    BY <1>3, <2>1 DEF Closed
  <2> QED
    BY <1>1, <1>3, <2>1, <2>2, WalkIs
<1>4. W \in SUBSET Nodes
  BY WalkIs
<1> QED
  BY <1>2, <1>3, <1>4 DEF Closed

\* The node that a walk visits last has no successor, and glthread_get_last finds one.
LEMMA LastIs ==
  ASSUME NEW g \in GlType
  PROVE  /\ Listed(g) => IterationEnds(g, QHead)
         /\ IterationEnds(g, QHead) => /\ LastNode(g, QHead) \in Walk(g, QHead, Nodes)
                                       /\ g.right[LastNode(g, QHead)] = NULL
<1>1. DOMAIN g.right = Nodes /\ \A y \in Nodes : g.right[y] \in Nodes <=> g.right[y] # NULL
  BY NodesAre DEF GlType, Nodes
<1>2. \A x : x \in WalkEnds(g, QHead, DOMAIN g.right)
               <=> x \in Walk(g, QHead, Nodes) /\ g.right[x] = NULL
  BY <1>1, WalkIs DEF WalkEnds
<1> QED
  BY <1>2 DEF IterationEnds, LastNode, Listed

\* Whatever a walk visits behind the head has a predecessor.
LEMMA Preceded ==
  ASSUME NEW g \in GlType, Listed(g)
  PROVE  /\ \A n \in Walk(g, QHead, Nodes) \ {QHead} : g.left[n] # NULL
         /\ \A t \in Tasks : IsUnlinked(g, t) <=> g.left[t] = NULL
         /\ \A n \in Nodes : g.left[n] # NULL => g.left[n] \in Walk(g, QHead, Nodes)
         /\ \A n \in Nodes : n \in Walk(g, QHead, Nodes) <=> n = QHead \/ g.left[n] # NULL
<1> DEFINE W == Walk(g, QHead, Nodes)
<1>1. ASSUME NEW n \in W \ {QHead}, g.left[n] = NULL PROVE FALSE
  <2>1. Closed(g, W) /\ W \in SUBSET Nodes
    BY WalkClosed
  <2>2. Closed(g, W \ {n})
    BY <1>1, <2>1, NodesAre DEF Closed, Listed
  <2>3. W \ {n} \in SUBSET Nodes
    BY <2>1
  <2> QED
    BY <1>1, <2>2, <2>3, WalkIs
<1>2. \A n \in Nodes : ~IsUnlinked(g, n) => n \in W
  BY DEF Listed
<1>3. \A t \in Tasks : t # QHead /\ t \in Nodes
  BY NodesAre DEF Nodes
<1>4. \A t \in Tasks : IsUnlinked(g, t) <=> g.left[t] = NULL
  BY <1>1, <1>2, <1>3 DEF IsUnlinked
<1>5. ASSUME NEW n \in Nodes, g.left[n] # NULL PROVE g.left[n] \in W
  <2>1. g.left[n] \in Nodes /\ g.right[g.left[n]] = n
    BY <1>5 DEF GlType, Listed
  <2> QED
    BY <1>2, <2>1, NodesAre DEF IsUnlinked
<1>6. QHead \in W
  BY WalkClosed DEF Closed
<1> QED
  BY <1>1, <1>2, <1>4, <1>5, <1>6 DEF IsUnlinked

\* glthread_add_last puts a node that is in no list at the end of this one.
LEMMA AddLastListed ==
  ASSUME NEW g \in GlType, Listed(g), NEW t \in Tasks, IsUnlinked(g, t),
         NEW k, k = glthread_add_last(g, QHead, t)
  PROVE  /\ k \in GlType /\ Listed(k) /\ ~IsUnlinked(k, t) /\ t \in Walk(k, QHead, Nodes)
         /\ \A n \in Tasks \ {t} : IsUnlinked(k, n) <=> IsUnlinked(g, n)
<1> DEFINE x == LastNode(g, QHead)
           W == Walk(g, QHead, Nodes)
           V == Walk(k, QHead, Nodes)
<1>1. x \in W /\ g.right[x] = NULL
  BY LastIs
<1>2. W \in SUBSET Nodes /\ x \in Nodes /\ t \in Nodes /\ t # QHead /\ t # NULL /\ x # NULL
  BY <1>1, WalkClosed, NodesAre DEF Nodes
<1>3. x # t
  BY <1>1, <1>2, Preceded DEF IsUnlinked
<1>4. k = glthread_add_next(g, x, t)
  BY DEF glthread_add_last
<1> HIDE DEF x
<1>5. /\ k.left = [g.left EXCEPT ![t] = x] /\ k.right = [g.right EXCEPT ![x] = t]
      /\ k \in GlType
  <2>1. glthread_add_next(g, x, t) \in GlType
    BY <1>2, AddNextType
  <2>2. /\ k.left = [g.left EXCEPT ![t] = x] /\ k.right = [g.right EXCEPT ![x] = t]
    BY <1>1, <1>4 DEF glthread_add_next
  <2> QED
    BY <1>4, <2>1, <2>2
<1>6. /\ k.left[t] = x /\ k.right[x] = t /\ k.right[t] = NULL
      /\ \A n \in Nodes \ {t} : k.left[n] = g.left[n]
      /\ \A n \in Nodes \ {x} : k.right[n] = g.right[n]
  BY <1>2, <1>3, <1>5 DEF GlType, IsUnlinked
<1>7. ASSUME NEW S \in SUBSET Nodes, Closed(k, S) PROVE Closed(g, S)
  BY <1>1, <1>6, <1>7 DEF Closed
<1>8. \A n \in W : n \in V
  <2> HIDE DEF W, V
  <2> SUFFICES ASSUME NEW n \in W PROVE n \in V
    OBVIOUS
  <2>1. n \in Nodes /\ \A S \in SUBSET Nodes : Closed(g, S) => n \in S
    BY WalkIs DEF W
  <2>2. \A S \in SUBSET Nodes : Closed(k, S) => n \in S
    BY <1>7, <2>1
  <2> QED
    BY <1>5, <2>1, <2>2, WalkIs DEF V
<1>9. t \in V
  <2>1. Closed(k, V)
    BY <1>5, WalkClosed
  <2> QED
    BY <1>1, <1>2, <1>6, <1>8, <2>1 DEF Closed
<1> HIDE DEF W, V
<1>10. \A n \in Nodes : g.left[n] = t => FALSE
  BY <1>2, NodesAre DEF Listed, IsUnlinked
<1>11. \A n \in Nodes : g.right[n] # t
  BY <1>2, NodesAre DEF Listed, IsUnlinked
<1>12. Listed(k)
  <2>1. ASSUME NEW n \in Nodes, k.right[n] # NULL PROVE k.left[k.right[n]] = n
    <3>1. CASE n = x
      BY <1>6, <3>1
    <3>2. CASE n # x
      <4>1. k.right[n] = g.right[n] /\ g.right[n] # t /\ g.right[n] \in Nodes
        BY <1>6, <1>11, <2>1, <3>2 DEF GlType, Nodes
      <4> QED
        BY <1>6, <2>1, <4>1 DEF Listed
    <3> QED
      BY <3>1, <3>2
  <2>2. ASSUME NEW n \in Nodes, k.left[n] # NULL PROVE k.right[k.left[n]] = n
    <3>1. CASE n = t
      BY <1>6, <3>1
    <3>2. CASE n # t
      <4>1. k.left[n] = g.left[n] /\ g.left[n] \in Nodes /\ g.right[g.left[n]] = n
        BY <1>6, <2>2, <3>2 DEF GlType, Listed
      <4>2. g.left[n] # x
        BY <1>1, <4>1, NodesAre
      <4> QED
        BY <1>6, <4>1, <4>2
    <3> QED
      BY <3>1, <3>2
  <2>3. k.left[QHead] = NULL
    BY <1>2, <1>6, NodesAre DEF Listed
  <2>4. ASSUME NEW n \in Nodes, ~IsUnlinked(k, n) PROVE n \in V
    <3>1. CASE n = t \/ n = x
      BY <1>1, <1>8, <1>9, <3>1
    <3>2. CASE n # t /\ n # x
      BY <1>6, <1>8, <2>4, <3>2 DEF IsUnlinked, Listed, W
    <3> QED
      BY <3>1, <3>2
  <2> QED
    BY <1>6, <1>9, <2>1, <2>2, <2>3, <2>4 DEF Listed, V
<1>13. \A n \in Tasks \ {t} : IsUnlinked(k, n) <=> IsUnlinked(g, n)
  <2>1. /\ \A n \in Tasks : IsUnlinked(k, n) <=> k.left[n] = NULL
        /\ \A n \in Tasks : IsUnlinked(g, n) <=> g.left[n] = NULL
    BY <1>5, <1>12, Preceded
  <2>2. \A n \in Tasks : n \in Nodes
    BY DEF Nodes
  <2> QED
    BY <1>6, <2>1, <2>2
<1> QED
  BY <1>2, <1>5, <1>6, <1>9, <1>12, <1>13 DEF IsUnlinked, V

\* remove_glthread takes a node out of the list and leaves the others in it.
LEMMA RemoveListed ==
  ASSUME NEW g \in GlType, Listed(g), NEW t \in Tasks, ~IsUnlinked(g, t),
         NEW k, k = remove_glthread(g, t)
  PROVE  /\ k \in GlType /\ Listed(k) /\ IsUnlinked(k, t)
         /\ \A n \in Tasks \ {t} : IsUnlinked(k, n) <=> IsUnlinked(g, n)
<1> DEFINE l == g.left[t]
           r == g.right[t]
           W == Walk(g, QHead, Nodes)
           V == Walk(k, QHead, Nodes)
<1>1. t \in Nodes /\ t # QHead /\ t # NULL /\ t \in W
  BY NodesAre DEF Nodes, Listed
<1>2. l \in Nodes /\ l # NULL /\ l \in W /\ g.right[l] = t
  <2>1. l # NULL
    BY Preceded
  <2> QED
    BY <1>1, <2>1, Preceded DEF Listed, GlType
<1>3. r \in Tasks \cup {NULL} /\ r # QHead /\ (r # NULL => g.left[r] = t)
  BY <1>1, NodesAre DEF GlType, Listed
<1>4. l # t /\ r # t
  <2>1. ASSUME l = t PROVE FALSE
    <3>1. Closed(g, W) /\ W \in SUBSET Nodes
      BY WalkClosed
    <3>2. Closed(g, W \ {t})
      BY <1>1, <2>1, <3>1 DEF Closed, Listed
    <3> QED
      BY <1>1, <3>1, <3>2, WalkIs
  <2>2. r = t => l = t
    BY <1>1, <1>3
  <2> QED
    BY <2>1, <2>2
<1> HIDE DEF W, V
<1>5. k \in GlType
  BY RemoveType
<1>6. /\ k.left = [relinked(g.left, r, l) EXCEPT ![t] = NULL]
      /\ k.right = [relinked(g.right, l, r) EXCEPT ![t] = NULL]
  BY <1>2 DEF remove_glthread
<1>7. /\ k.left[t] = NULL /\ k.right[t] = NULL /\ k.right[l] = r
      /\ r # NULL => k.left[r] = l
      /\ \A n \in Nodes \ {t, r} : k.left[n] = g.left[n]
      /\ \A n \in Nodes \ {t, l} : k.right[n] = g.right[n]
  <2> HIDE DEF l, r
  <2>1. k.left[t] = NULL /\ \A n \in Nodes \ {t, r} : k.left[n] = g.left[n]
    BY <1>1, <1>6 DEF relinked, GlType
  <2>2. r # NULL => k.left[r] = l
    BY <1>3, <1>4, <1>6 DEF relinked, GlType, Nodes
  <2>3. /\ k.right[t] = NULL /\ k.right[l] = r
        /\ \A n \in Nodes \ {t, l} : k.right[n] = g.right[n]
    BY <1>1, <1>2, <1>4, <1>6 DEF relinked, GlType
  <2> QED
    BY <2>1, <2>2, <2>3
<1>8. \A n \in Nodes : n # l => g.right[n] # t
  BY <1>1, NodesAre DEF Listed
<1>9. \A n \in W : n # t => n \in V
  <2> SUFFICES ASSUME NEW n \in W, n # t PROVE n \in V
    OBVIOUS
  <2>1. n \in Nodes /\ \A S \in SUBSET Nodes : Closed(g, S) => n \in S
    BY WalkIs DEF W
  <2>2. ASSUME NEW S \in SUBSET Nodes, Closed(k, S) PROVE n \in S
    <3> DEFINE T == IF l \in S THEN S \cup {t} ELSE S \ {t}
    <3>1. T \in SUBSET Nodes /\ QHead \in T
      BY <1>1, <2>2 DEF Closed
    <3>2. ASSUME NEW y \in T, g.right[y] # NULL PROVE g.right[y] \in T
      <4>1. CASE y = t
        BY <1>4, <1>7, <2>2, <3>2, <4>1 DEF Closed
      <4>2. CASE y # t /\ y = l
        BY <1>2, <4>2, <3>2
      <4>3. CASE y # t /\ y # l
        <5>1. y \in S /\ y \in Nodes /\ k.right[y] = g.right[y] /\ g.right[y] # t
          BY <1>7, <1>8, <3>2, <4>3
        <5>2. g.right[y] \in S
          BY <2>2, <3>2, <5>1 DEF Closed
        <5> QED
          BY <5>1, <5>2
      <4> QED
        BY <4>1, <4>2, <4>3
    <3>3. n \in T
      BY <2>1, <3>1, <3>2 DEF Closed
    <3> QED
      BY <3>3
  <2> QED
    BY <1>5, <2>1, <2>2, WalkIs DEF V
<1>10. Listed(k)
  <2> HIDE DEF l, r
  <2>1. ASSUME NEW n \in Nodes, k.right[n] # NULL PROVE k.left[k.right[n]] = n
    <3>1. CASE n = l
      BY <1>7, <2>1, <3>1
    <3>2. CASE n # l /\ n # t
      <4>1. k.right[n] = g.right[n] /\ g.right[n] # t /\ g.right[n] \in Nodes
        BY <1>7, <1>8, <2>1, <3>2 DEF GlType, Nodes
      <4>2. g.left[g.right[n]] = n
        BY <2>1, <4>1 DEF Listed
      <4>3. g.right[n] # r
        BY <1>3, <2>1, <3>2, <4>1, <4>2
      <4> QED
        BY <1>7, <4>1, <4>2, <4>3
    <3> QED
      BY <1>7, <2>1, <3>1, <3>2
  <2>2. ASSUME NEW n \in Nodes, k.left[n] # NULL PROVE k.right[k.left[n]] = n
    <3>1. CASE n = r
      BY <1>7, <2>2, <3>1, NodesAre
    <3>2. CASE n # r /\ n # t
      <4>1. k.left[n] = g.left[n] /\ g.left[n] \in Nodes /\ g.right[g.left[n]] = n
        BY <1>7, <2>2, <3>2 DEF GlType, Listed
      <4>2. g.left[n] # l /\ g.left[n] # t
        BY <1>2, <3>2, <4>1 DEF r
      <4> QED
        BY <1>7, <4>1, <4>2
    <3> QED
      BY <1>7, <2>2, <3>1, <3>2
  <2>3. k.left[QHead] = NULL
    BY <1>1, <1>3, <1>7, NodesAre DEF Listed
  <2>4. ASSUME NEW n \in Nodes, ~IsUnlinked(k, n) PROVE n \in V
    <3>1. n # t
      BY <1>7, <2>4 DEF IsUnlinked
    <3>2. CASE n = l
      BY <1>2, <1>9, <3>1, <3>2
    <3>3. CASE n = r
      <4>1. ~IsUnlinked(g, n)
        BY <1>1, <1>3, <3>3, NodesAre DEF IsUnlinked
      <4> QED
        BY <1>9, <3>1, <4>1 DEF Listed, W
    <3>4. CASE n # l /\ n # r
      <4>1. ~IsUnlinked(g, n)
        BY <1>7, <2>4, <3>1, <3>4 DEF IsUnlinked
      <4> QED
        BY <1>9, <3>1, <4>1 DEF Listed, W
    <3> QED
      BY <3>2, <3>3, <3>4
  <2>5. \E n \in V : k.right[n] = NULL
    <3>1. PICK e \in W : g.right[e] = NULL
      BY DEF Listed, W
    <3>2. CASE e = t
      BY <1>2, <1>4, <1>7, <1>9, <3>1, <3>2 DEF l, r
    <3>3. CASE e # t
      <4>1. e # l /\ e \in Nodes
        BY <1>1, <1>2, <3>1, WalkClosed DEF W
      <4> QED
        BY <1>7, <1>9, <3>1, <3>3, <4>1
    <3> QED
      BY <3>2, <3>3
  <2> QED
    BY <2>1, <2>2, <2>3, <2>4, <2>5 DEF Listed, V
<1>11. \A n \in Tasks \ {t} : IsUnlinked(k, n) <=> IsUnlinked(g, n)
  <2> HIDE DEF l, r
  <2> SUFFICES ASSUME NEW n \in Tasks \ {t} PROVE k.left[n] = NULL <=> g.left[n] = NULL
    BY <1>5, <1>10, Preceded
  <2>1. CASE n = r
    BY <1>1, <1>2, <1>3, <1>7, <2>1, NodesAre
  <2>2. CASE n # r
    BY <1>7, <2>2 DEF Nodes
  <2> QED
    BY <2>1, <2>2
<1> QED
  BY <1>5, <1>7, <1>10, <1>11 DEF IsUnlinked

\* init_glthread changes nothing of a node that is in no list.
LEMMA InitSame ==
  ASSUME NEW g \in GlType, NEW t \in Tasks, IsUnlinked(g, t)
  PROVE  init_glthread(g, t) = g
<1>1. /\ g = [left |-> g.left, right |-> g.right]
      /\ g.left \in [Nodes -> Nodes \cup {NULL}] /\ g.right \in [Nodes -> Tasks \cup {NULL}]
  BY DEF GlType
<1>2. [g.left EXCEPT ![t] = NULL] = g.left /\ [g.right EXCEPT ![t] = NULL] = g.right
  BY <1>1 DEF IsUnlinked
<1> QED
  BY <1>1, <1>2 DEF init_glthread

-----------------------------------------------------------------------------
(* Who owns a task: the list, the thread that schedules it or waits for    *)
(* it, or the dispatcher that runs it.  The packet job alone is shared:    *)
(* receiver threads and the dispatcher may all be about to queue it.       *)

\* The one schedule under which the unlocked tests are not enough: a thread is between
\* its test of the packet job's glue and the insertion while another one is there too.
NoOverlap ==
  \A th, u \in Threads :
    /\ pc[th] \in {"assert", "crit"} /\ arg[th] = PktTask
    /\ pc[u] \in {"assert", "crit"} /\ arg[u] = PktTask
    => th = u

\* No command is woken before its time.
NoEarlyReturn == SpuriousWakeups => CliThreads = {}

\* A thread is in the library with a task.
Holds(th) == pc[th] \in {"sched", "assert", "crit", "syncwait", "syncwoken"}

\* The packet job is there once and for all, and a command's job runs once.
KindsOK ==
  /\ PktTask \in alloc /\ ~task[PktTask].sync /\ ~task[PktTask].handle
  /\ \A t \in Tasks : task[t].task_type = "TASK_PKT_Q_JOB" <=> t = PktTask
  /\ \A t \in Tasks : task[t].sync => /\ task[t].task_type = "TASK_ONE_SHOT"
                                      /\ ~task[t].re_schedule /\ ~task[t].handle

\* What is in the list is allocated.
ListOK == Listed(gl) /\ \A t \in Tasks : ~IsUnlinked(gl, t) => t \in alloc

\* Where a thread may be.
PlacesOK ==
  /\ pc[Dis] \in {"loop", "sleep", "woken", "run", "post", "enq", "sched", "assert", "crit"}
  /\ \A th \in AppThreads :
       pc[th] \in {"idle", "enq", "sched", "assert", "crit", "syncwait", "syncwoken"}

\* A task that a thread holds is allocated and in no list, unless the thread waits for
\* it, or is about to find the packet job in the list.
HeldOK ==
  \A th \in Threads : Holds(th) =>
    /\ arg[th] \in alloc
    /\ pc[th] \in {"syncwait", "syncwoken"} => task[arg[th]].sync
    /\ task[arg[th]].sync => th \in CliThreads
    /\ pc[th] \in {"assert", "crit", "syncwoken"} => IsUnlinked(gl, arg[th])
    /\ pc[th] = "sched" => IsUnlinked(gl, arg[th]) \/ arg[th] = PktTask

\* No two threads hold the same task, unless it is the packet job.
HeldOnce ==
  \A th, u \in Threads :
    Holds(th) /\ Holds(u) /\ arg[th] = arg[u] /\ arg[th] # PktTask => th = u

\* The job that runs is allocated, and nobody but its creator who waits for it holds it,
\* unless it is the packet job.
RunOK ==
  DisInCallback =>
    /\ current_task \in alloc
    /\ current_task # PktTask => IsUnlinked(gl, current_task)
    /\ \A th \in AppThreads : pc[th] \in {"sched", "assert", "crit", "syncwoken"}
                                => arg[th] # current_task \/ current_task = PktTask
    /\ Holds(Dis) /\ arg[Dis] = current_task => current_task = PktTask

\* Where the dispatcher goes on, and what it runs or ran.
ReturnOK ==
  /\ pc[Dis] = "enq" => ret = "run"
  /\ pc[Dis] \in {"sleep", "woken"} => current_task = NULL
  /\ Holds(Dis) /\ ret = "loop" => arg[Dis] = current_task

Owned == KindsOK /\ ListOK /\ PlacesOK /\ HeldOK /\ HeldOnce /\ RunOK /\ ReturnOK

\* The dispatcher is none of the other threads.
LEMMA ThreadsAre ==
  /\ Dis \in Threads /\ Dis \notin AppThreads
  /\ \A th \in AppThreads : th \in Threads /\ th # Dis
  /\ \A th \in Threads : th # Dis => th \in AppThreads
  /\ \A th \in CliThreads : th \in AppThreads
  /\ \A th \in TimerThreads : th \in AppThreads
  /\ \A th \in RecvThreads : th \in AppThreads
  BY DispatcherAssumption DEF Threads, AppThreads

\* What the types say of a thread that holds a task.
LEMMA HeldIs ==
  ASSUME Inv
  PROVE  /\ \A th \in Threads : Holds(th) => arg[th] \in Tasks /\ arg[th] # NULL
         /\ gl \in GlType /\ pc \in [Threads -> Places] /\ alloc \in SUBSET Tasks
         /\ arg \in [Threads -> Tasks \cup {NULL}] /\ task \in [Tasks -> TaskFields]
         /\ DisInCallback => current_task \in Tasks /\ current_task # NULL
  BY NodesAre DEF Inv, TypeOK, ArgOK, CurrentOK, Holds, GlType

\* Nothing points to the task that is created, so that only its creator holds it.
LEMMA CreateOwned ==
  ASSUME Inv, Owned, NEW th \in Threads, NEW t \in Tasks,
         NEW type \in {"TASK_ONE_SHOT", "TASK_BG"}, NEW sync \in BOOLEAN,
         NEW handle \in BOOLEAN, CreateJob(th, t, type, sync, handle),
         sync => th \in CliThreads /\ type = "TASK_ONE_SHOT" /\ ~handle,
         pc[th] \in {"idle", "run"}, current_task' = current_task,
         th # Dis => ret' = ret, th = Dis => ret' = "run"
  PROVE  Owned'
<1>1. gl' = gl /\ IsUnlinked(gl, t)
  <2>1. t \notin alloc /\ gl' = init_glthread(gl, t) /\ gl \in GlType
    BY HeldIs DEF CreateJob
  <2>2. IsUnlinked(gl, t)
    BY <2>1 DEF Owned, ListOK
  <2> QED
    BY <2>1, <2>2, InitSame
<1>2. t \notin alloc /\ alloc' = alloc \cup {t} /\ t # PktTask
  BY DEF CreateJob, Owned, KindsOK
<1>3. /\ \A u \in Threads : pc'[u] = IF u = th THEN "sched" ELSE pc[u]
      /\ \A u \in Threads : arg'[u] = IF u = th THEN t ELSE arg[u]
  BY HeldIs DEF CreateJob
<1>4. /\ \A s \in Tasks : s # t => task'[s] = task[s]
      /\ task'[t].task_type = type /\ task'[t].re_schedule = FALSE
      /\ task'[t].sync = sync /\ task'[t].handle = handle
  BY HeldIs DEF CreateJob, NewFields
<1>5. \A u \in Threads : u # th => (Holds(u)' <=> Holds(u))
  BY <1>3 DEF Holds
<1>6. \A u \in Threads : Holds(u) => arg[u] \in alloc /\ arg[u] \in Tasks /\ arg[u] # t
  BY <1>2, HeldIs DEF Owned, HeldOK
<1>7. KindsOK'
  BY <1>2, <1>4, NodesAre DEF KindsOK, Owned
<1>8. ListOK'
  BY <1>1, <1>2 DEF ListOK, Owned
<1>9. PlacesOK'
  BY <1>3, ThreadsAre DEF PlacesOK, Owned
<1>10. HeldOK'
  <2> SUFFICES ASSUME NEW u \in Threads, Holds(u)'
               PROVE  /\ arg'[u] \in alloc'
                      /\ pc'[u] \in {"syncwait", "syncwoken"} => task'[arg'[u]].sync
                      /\ task'[arg'[u]].sync => u \in CliThreads
                      /\ pc'[u] \in {"assert", "crit", "syncwoken"} => IsUnlinked(gl', arg'[u])
                      /\ pc'[u] = "sched" => IsUnlinked(gl', arg'[u]) \/ arg'[u] = PktTask
    BY DEF HeldOK
  <2>1. CASE u = th
    BY <1>1, <1>2, <1>3, <1>4, <2>1
  <2>2. CASE u # th
    BY <1>1, <1>2, <1>3, <1>4, <1>5, <1>6, <2>2 DEF Owned, HeldOK
  <2> QED
    BY <2>1, <2>2
<1>11. HeldOnce'
  BY <1>3, <1>5, <1>6 DEF HeldOnce, Owned
<1>12. DisInCallback' => DisInCallback
  BY <1>3, ThreadsAre DEF DisInCallback, Owned, PlacesOK
<1>13. RunOK'
  <2> SUFFICES ASSUME DisInCallback'
               PROVE  /\ current_task \in alloc'
                      /\ current_task # PktTask => IsUnlinked(gl', current_task)
                      /\ \A u \in AppThreads : pc'[u] \in {"sched", "assert", "crit", "syncwoken"}
                                                 => arg'[u] # current_task \/ current_task = PktTask
                      /\ Holds(Dis)' /\ arg'[Dis] = current_task => current_task = PktTask
    BY DEF RunOK
  <2>1. current_task \in alloc /\ current_task # t
    BY <1>2, <1>12 DEF Owned, RunOK
  <2> QED
    BY <1>1, <1>2, <1>3, <1>5, <1>12, <2>1, ThreadsAre DEF Owned, RunOK
<1>14. ReturnOK'
  BY <1>3, <1>5, ThreadsAre DEF ReturnOK, Owned, PlacesOK, Holds
<1> QED
  BY <1>7, <1>8, <1>9, <1>10, <1>11, <1>13, <1>14 DEF Owned

\* A call of an application thread.
LEMMA AppCallOwned ==
  ASSUME Inv, Owned, ApplicationCall
  PROVE  Owned'
<1>1. ASSUME NEW th \in TimerThreads, NEW t \in Tasks, TimerCreatesJob(th, t) PROVE Owned'
  <2>1. CreateJob(th, t, "TASK_ONE_SHOT", FALSE, FALSE) /\ pc[th] = "idle"
    BY <1>1 DEF TimerCreatesJob
  <2> QED
    BY <1>1, <2>1, ThreadsAre, CreateOwned DEF TimerCreatesJob
<1>2. ASSUME NEW th \in CliThreads, NEW t \in Tasks, CliCreatesJob(th, t) PROVE Owned'
  <2>1. CreateJob(th, t, "TASK_ONE_SHOT", TRUE, FALSE) /\ pc[th] = "idle"
    BY <1>2 DEF CliCreatesJob
  <2> QED
    BY <1>2, <2>1, ThreadsAre, CreateOwned DEF CliCreatesJob
<1>3. ASSUME NEW th \in RecvThreads, NEW p \in Packets, ReceiverEnqueues(th, p) PROVE Owned'
  <2>0. th \in AppThreads /\ th \in Threads /\ th # Dis
    BY ThreadsAre
  <2>1. /\ pc[th] = "idle" /\ pc'[th] = "enq"
        /\ \A u \in Threads : u # th => pc'[u] = pc[u]
        /\ gl' = gl /\ task' = task /\ alloc' = alloc /\ current_task' = current_task
        /\ arg' = arg /\ ret' = ret
    BY <1>3, <2>0, HeldIs DEF ReceiverEnqueues, EnqueuePkt
  <2>2. /\ \A u \in Threads : Holds(u)' <=> Holds(u)
        /\ ~Holds(th) /\ (DisInCallback' <=> DisInCallback)
    BY <2>0, <2>1, ThreadsAre DEF Holds, DisInCallback
  <2>3. KindsOK' /\ ListOK' /\ PlacesOK'
    BY <2>0, <2>1, ThreadsAre DEF Owned, KindsOK, ListOK, PlacesOK
  <2>4. HeldOK' /\ HeldOnce'
    BY <2>1, <2>2 DEF Owned, HeldOK, HeldOnce, Holds
  <2>5. RunOK' /\ ReturnOK'
    BY <2>0, <2>1, <2>2, ThreadsAre DEF Owned, RunOK, ReturnOK
  <2> QED
    BY <2>3, <2>4, <2>5 DEF Owned
<1> QED
  BY <1>1, <1>2, <1>3 DEF ApplicationCall

\* A step of a thread that changes only its place and the task it holds: what is left
\* to show is that the place fits the task.
MovesOnly(th) ==
  /\ gl' = gl /\ task' = task /\ alloc' = alloc /\ current_task' = current_task /\ ret' = ret
  /\ \A u \in Threads : u # th => pc'[u] = pc[u] /\ arg'[u] = arg[u]

\* The place of one thread, in the terms of Owned.
PlaceFits(th) ==
  /\ IF th = Dis THEN pc[th] \in {"loop", "sleep", "woken", "run", "post", "enq", "sched", "assert", "crit"}
                 ELSE pc[th] \in {"idle", "enq", "sched", "assert", "crit", "syncwait", "syncwoken"}
  /\ Holds(th) =>
       /\ arg[th] \in alloc
       /\ pc[th] \in {"syncwait", "syncwoken"} => task[arg[th]].sync
       /\ task[arg[th]].sync => th \in CliThreads
       /\ pc[th] \in {"assert", "crit", "syncwoken"} => IsUnlinked(gl, arg[th])
       /\ pc[th] = "sched" => IsUnlinked(gl, arg[th]) \/ arg[th] = PktTask

\* A thread that moves within the library, with its task or without, keeps the owners.
LEMMA MoveOwned ==
  ASSUME Inv, Owned, NEW th \in Threads, MovesOnly(th), PlaceFits(th)',
         Holds(th)' => \/ Holds(th) /\ arg'[th] = arg[th]
                       \/ arg'[th] = PktTask /\ (th = Dis => ret = "run"),
         th # Dis /\ DisInCallback /\ pc'[th] = "syncwoken" => arg'[th] # current_task,
         DisInCallback' => DisInCallback,
         th = Dis /\ pc'[th] = "enq" => ret = "run",
         th = Dis /\ pc'[th] \in {"sleep", "woken"} => current_task = NULL,
         th # Dis /\ pc'[th] \in {"sched", "assert", "crit"}
           => pc[th] \in {"sched", "assert", "crit"} \/ arg'[th] = PktTask
  PROVE  Owned'
<1>1. KindsOK' /\ ListOK'
  BY DEF MovesOnly, Owned, KindsOK, ListOK
<1>2. PlacesOK'
  BY ThreadsAre DEF MovesOnly, Owned, PlacesOK, PlaceFits
<1>3. \A u \in Threads : u # th => (Holds(u)' <=> Holds(u))
  BY DEF MovesOnly, Holds
<1>4. HeldOK'
  <2> SUFFICES ASSUME NEW u \in Threads, Holds(u)'
               PROVE  /\ arg'[u] \in alloc'
                      /\ pc'[u] \in {"syncwait", "syncwoken"} => task'[arg'[u]].sync
                      /\ task'[arg'[u]].sync => u \in CliThreads
                      /\ pc'[u] \in {"assert", "crit", "syncwoken"} => IsUnlinked(gl', arg'[u])
                      /\ pc'[u] = "sched" => IsUnlinked(gl', arg'[u]) \/ arg'[u] = PktTask
    BY DEF HeldOK
  <2>1. CASE u = th
    BY <2>1 DEF PlaceFits
  <2>2. CASE u # th
    BY <1>3, <2>2 DEF MovesOnly, Owned, HeldOK
  <2> QED
    BY <2>1, <2>2
<1>5. HeldOnce'
  <2> SUFFICES ASSUME NEW u \in Threads, Holds(u)', Holds(th)', u # th, arg'[th] # PktTask
               PROVE  arg'[u] # arg'[th]
    BY <1>3 DEF HeldOnce, MovesOnly, Owned
  <2>1. Holds(u) /\ arg'[u] = arg[u]
    BY <1>3 DEF MovesOnly
  <2>2. CASE Holds(th) /\ arg'[th] = arg[th]
    BY <2>1, <2>2 DEF HeldOnce, Owned
  <2> QED
    BY <2>2
<1>6. RunOK'
  <2> SUFFICES ASSUME DisInCallback'
               PROVE  /\ current_task \in alloc
                      /\ current_task # PktTask => IsUnlinked(gl, current_task)
                      /\ \A u \in AppThreads : pc'[u] \in {"sched", "assert", "crit", "syncwoken"}
                                                 => arg'[u] # current_task \/ current_task = PktTask
                      /\ Holds(Dis)' /\ arg'[Dis] = current_task => current_task = PktTask
    BY DEF RunOK, MovesOnly
  <2>1. /\ current_task \in alloc
        /\ current_task # PktTask => IsUnlinked(gl, current_task)
        /\ \A u \in AppThreads : pc[u] \in {"sched", "assert", "crit", "syncwoken"}
                                                 => arg[u] # current_task \/ current_task = PktTask
        /\ Holds(Dis) /\ arg[Dis] = current_task => current_task = PktTask
    BY DEF RunOK, Owned
  <2>2. ASSUME NEW u \in AppThreads, pc'[u] \in {"sched", "assert", "crit", "syncwoken"}
        PROVE  arg'[u] # current_task \/ current_task = PktTask
    <3>1. CASE u = th /\ pc'[th] = "syncwoken"
      BY <2>2, <3>1, ThreadsAre
    <3>2. CASE u = th /\ pc'[th] # "syncwoken"
      BY <2>1, <2>2, <3>2, ThreadsAre DEF Holds
    <3>3. CASE u # th
      BY <2>1, <2>2, <3>3, ThreadsAre DEF MovesOnly
    <3> QED
      BY <3>1, <3>2, <3>3
  <2>3. Holds(Dis)' /\ arg'[Dis] = current_task => current_task = PktTask
    BY <1>3, <2>1, ThreadsAre DEF MovesOnly
  <2> QED
    BY <2>1, <2>2, <2>3
<1>7. ReturnOK'
  <2>1. th # Dis => pc'[Dis] = pc[Dis] /\ arg'[Dis] = arg[Dis] /\ (Holds(Dis)' <=> Holds(Dis))
    BY <1>3, ThreadsAre DEF MovesOnly
  <2> QED
    BY <2>1 DEF ReturnOK, Owned, MovesOnly
<1> QED
  BY <1>1, <1>2, <1>4, <1>5, <1>6, <1>7 DEF Owned

\* event_dispatcher_schedule_task, the insertion: the task goes from its thread to the
\* list, or stays with a thread that waits for it.
LEMMA InsertOwned ==
  ASSUME Inv, Owned, NoOverlap, NEW th \in Threads, SchedInsert(th)
  PROVE  Owned'
<1> DEFINE t == arg[th]
<1>1. /\ t \in Tasks /\ t \in alloc /\ IsUnlinked(gl, t) /\ Holds(th) /\ pc[th] = "crit"
      /\ task[t].sync => th \in CliThreads
      /\ t = PktTask => ~task[t].sync
  BY HeldIs DEF SchedInsert, Owned, HeldOK, KindsOK, Holds
<1>2. /\ Listed(gl') /\ \A n \in Tasks \ {t} : IsUnlinked(gl', n) <=> IsUnlinked(gl, n)
  BY <1>1, HeldIs, AddLastListed DEF SchedInsert, Queued, Owned, ListOK
<1>3. /\ pc'[th] = IF task[t].sync THEN "syncwait" ELSE BackFrom(th)
      /\ arg'[th] = IF task[t].sync THEN t ELSE NULL
      /\ \A u \in Threads : u # th => arg'[u] = arg[u]
      /\ \A u \in AppThreads : u # th => pc'[u] = pc[u]
      /\ th # Dis => pc'[Dis] = pc[Dis] \/ (pc[Dis] = "sleep" /\ pc'[Dis] = "woken")
      /\ task' = task /\ alloc' = alloc /\ current_task' = current_task /\ ret' = ret
  BY HeldIs, ThreadsAre DEF SchedInsert
<1>4. BackFrom(th) \in {"loop", "run", "idle"} /\ (th = Dis => BackFrom(th) = ret /\ ret # "idle")
      /\ (th # Dis => BackFrom(th) = "idle")
  BY DEF BackFrom, Inv, TypeOK
<1>5. th = Dis => ~task[t].sync
  BY <1>1, ThreadsAre
<1>6. KindsOK' /\ ListOK'
  BY <1>1, <1>2, <1>3 DEF Owned, KindsOK, ListOK
<1>7. PlacesOK'
  BY <1>3, <1>4, <1>5, ThreadsAre DEF Owned, PlacesOK
<1>8. /\ \A u \in Threads : u # th => (Holds(u)' <=> Holds(u))
      /\ Holds(th)' <=> task[t].sync
      /\ \A u \in Threads : u # th /\ Holds(u) /\ arg[u] = t => t = PktTask
  BY <1>1, <1>3, <1>4, ThreadsAre DEF Holds, Owned, HeldOnce
<1>n. \A u \in Threads : u # th /\ arg[u] = t /\ Holds(u) => pc[u] = "sched"
  <2> SUFFICES ASSUME NEW u \in Threads, u # th, arg[u] = t, Holds(u) PROVE pc[u] = "sched"
    OBVIOUS
  <2>1. t = PktTask /\ pc[u] \notin {"syncwait", "syncwoken"}
    BY <1>1, <1>8 DEF Owned, HeldOK
  <2>2. pc[u] \notin {"assert", "crit"}
    BY <1>1, <2>1 DEF NoOverlap
  <2> QED
    BY <2>1, <2>2 DEF Holds
<1>9. \A u \in Threads : Holds(u) => arg[u] \in Tasks
  BY HeldIs
<1> HIDE DEF t
<1>10. HeldOK'
  <2> SUFFICES ASSUME NEW u \in Threads, Holds(u)'
               PROVE  /\ arg'[u] \in alloc'
                      /\ pc'[u] \in {"syncwait", "syncwoken"} => task'[arg'[u]].sync
                      /\ task'[arg'[u]].sync => u \in CliThreads
                      /\ pc'[u] \in {"assert", "crit", "syncwoken"} => IsUnlinked(gl', arg'[u])
                      /\ pc'[u] = "sched" => IsUnlinked(gl', arg'[u]) \/ arg'[u] = PktTask
    BY DEF HeldOK
  <2>1. CASE u = th
    BY <1>1, <1>3, <1>8, <2>1
  <2>2. CASE u # th
    <3>1. /\ Holds(u) /\ arg'[u] = arg[u] /\ arg[u] \in Tasks
          /\ (pc'[u] = pc[u] \/ pc'[u] = "woken")
      BY <1>3, <1>8, <1>9, <2>2, ThreadsAre
    <3>2. pc'[u] = pc[u]
      BY <3>1 DEF Holds
    <3>3. CASE arg[u] # t
      BY <1>2, <1>3, <3>1, <3>2, <3>3 DEF Owned, HeldOK
    <3>4. CASE arg[u] = t
      <4>1. pc[u] = "sched" /\ t = PktTask
        BY <1>8, <1>n, <2>2, <3>1, <3>4
      <4> QED
        BY <1>3, <3>1, <3>2, <3>4, <4>1 DEF Owned, HeldOK
    <3> QED
      BY <3>3, <3>4
  <2> QED
    BY <2>1, <2>2
<1>11. HeldOnce'
  BY <1>3, <1>8 DEF HeldOnce, Owned, t
<1>12. RunOK'
  <2> SUFFICES ASSUME DisInCallback'
               PROVE  /\ current_task \in alloc
                      /\ current_task # PktTask => IsUnlinked(gl', current_task)
                      /\ \A u \in AppThreads : pc'[u] \in {"sched", "assert", "crit", "syncwoken"}
                                                 => arg'[u] # current_task \/ current_task = PktTask
                      /\ Holds(Dis)' /\ arg'[Dis] = current_task => current_task = PktTask
    BY <1>3 DEF RunOK
  <2>1. DisInCallback
    BY <1>1, <1>3, <1>4, <1>5 DEF DisInCallback
  <2>2. /\ current_task \in alloc /\ current_task \in Tasks
        /\ current_task # PktTask => IsUnlinked(gl, current_task)
        /\ \A u \in AppThreads : pc[u] \in {"sched", "assert", "crit", "syncwoken"}
                                                 => arg[u] # current_task \/ current_task = PktTask
        /\ Holds(Dis) /\ arg[Dis] = current_task => current_task = PktTask
    BY <2>1, HeldIs DEF RunOK, Owned
  <2>3. current_task # PktTask => current_task # t
    BY <1>1, <2>2, ThreadsAre DEF t
  <2>4. \A u \in AppThreads : pc'[u] \in {"sched", "assert", "crit", "syncwoken"}
                                                 => arg'[u] # current_task \/ current_task = PktTask
    BY <1>3, <1>4, <2>2, ThreadsAre
  <2>5. Holds(Dis)' /\ arg'[Dis] = current_task => current_task = PktTask
    BY <1>3, <1>5, <1>8, <2>2, ThreadsAre
  <2> QED
    BY <1>2, <2>2, <2>3, <2>4, <2>5
<1>13. ReturnOK'
  <2>1. th = Dis => pc'[Dis] \in {"loop", "run"} /\ ~Holds(Dis)'
    BY <1>3, <1>4, <1>5, <1>8
  <2>2. th # Dis => arg'[Dis] = arg[Dis] /\ (Holds(Dis)' <=> Holds(Dis))
    BY <1>3, <1>8, ThreadsAre
  <2> QED
    BY <1>3, <2>1, <2>2 DEF ReturnOK, Owned
<1> QED
  BY <1>6, <1>7, <1>10, <1>11, <1>12, <1>13 DEF Owned

\* The creator of a synchronous job frees it: nobody else holds or runs it.
LEMMA SyncReturnOwned ==
  ASSUME Inv, Owned, NEW th \in Threads, SyncReturn(th)
  PROVE  Owned'
<1> DEFINE t == arg[th]
<1>1. /\ th \in AppThreads /\ Holds(th) /\ pc[th] = "syncwoken"
      /\ t \in Tasks /\ IsUnlinked(gl, t) /\ t # PktTask
  BY HeldIs, ThreadsAre DEF SyncReturn, Owned, KindsOK, PlacesOK, HeldOK, Holds
<1>2. /\ gl' = gl /\ task' = task /\ alloc' = alloc \ {t}
      /\ current_task' = current_task /\ ret' = ret
      /\ pc'[th] = "idle" /\ pc'[Dis] = pc[Dis] /\ arg'[Dis] = arg[Dis]
      /\ \A u \in Threads : u # th => pc'[u] = pc[u] /\ arg'[u] = arg[u]
  BY <1>1, HeldIs, ThreadsAre DEF SyncReturn, BackFrom
<1>3. /\ \A u \in Threads : Holds(u)' => u # th /\ Holds(u) /\ arg[u] # t
      /\ Holds(Dis)' <=> Holds(Dis)
  BY <1>1, <1>2, ThreadsAre DEF Holds, Owned, HeldOnce
<1>4. DisInCallback' => DisInCallback /\ current_task # t
  BY <1>1, <1>2 DEF DisInCallback, Owned, RunOK
<1> HIDE DEF t
<1>5. KindsOK' /\ ListOK' /\ PlacesOK'
  BY <1>1, <1>2, ThreadsAre DEF Owned, KindsOK, ListOK, PlacesOK
<1>6. HeldOK' /\ HeldOnce'
  <2>1. HeldOK'
    <3> SUFFICES ASSUME NEW u \in Threads, Holds(u)'
                 PROVE  /\ arg'[u] \in alloc'
                        /\ pc'[u] \in {"syncwait", "syncwoken"} => task'[arg'[u]].sync
                        /\ task'[arg'[u]].sync => u \in CliThreads
                        /\ pc'[u] \in {"assert", "crit", "syncwoken"} => IsUnlinked(gl', arg'[u])
                        /\ pc'[u] = "sched" => IsUnlinked(gl', arg'[u]) \/ arg'[u] = PktTask
      BY DEF HeldOK
    <3> QED
      BY <1>2, <1>3 DEF Owned, HeldOK
  <2>2. HeldOnce'
    BY <1>2, <1>3 DEF Owned, HeldOnce
  <2> QED
    BY <2>1, <2>2
<1>7. RunOK'
  BY <1>2, <1>3, <1>4, ThreadsAre DEF Owned, RunOK
<1>8. ReturnOK'
  BY <1>2, <1>3, <1>4 DEF Owned, ReturnOK
<1> QED
  BY <1>5, <1>6, <1>7, <1>8 DEF Owned

\* A step inside event_dispatcher_schedule_task or pkt_q_enqueue.
LEMMA LibraryOwned ==
  ASSUME Inv, Owned, NoOverlap, NoEarlyReturn,
         NEW th \in Threads, LibraryStep(th) \/ SpuriousWakeup(th)
  PROVE  Owned'
<1>0. /\ BackFrom(th) = IF th = Dis THEN ret ELSE "idle"
      /\ ret \in {"loop", "run"} /\ PktTask \in Tasks /\ PktTask # NULL
      /\ th # Dis => th \in AppThreads
  BY NodesAre, ThreadsAre DEF BackFrom, Inv, TypeOK
<1>1. CASE EnqueueTest(th)
  <2>1. /\ pc[th] = "enq" /\ MovesOnly(th)
        /\ th = Dis => ret = "run" /\ DisInCallback
    BY <1>0, <1>1, HeldIs DEF EnqueueTest, MovesOnly, Owned, ReturnOK, DisInCallback
  <2>2. \/ pc'[th] = BackFrom(th) /\ ~Holds(th)'
        \/ pc'[th] = "sched" /\ arg'[th] = PktTask /\ IsUnlinked(gl, PktTask)
    BY <1>0, <1>1, <2>1, HeldIs DEF EnqueueTest, JobIsQueued, Holds
  <2>3. PlaceFits(th)'
    BY <1>0, <2>1, <2>2 DEF PlaceFits, MovesOnly, Owned, KindsOK
  <2>4. DisInCallback' => DisInCallback
    BY <2>1, ThreadsAre DEF DisInCallback, MovesOnly
  <2> QED
    BY <1>0, <2>1, <2>2, <2>3, <2>4, MoveOwned
<1>2. CASE SchedTest(th)
  <2>1. MovesOnly(th) /\ Holds(th) /\ pc[th] = "sched" /\ arg[th] \in Tasks
    BY <1>2, HeldIs DEF SchedTest, MovesOnly, Holds
  <2>2. \/ pc'[th] = BackFrom(th) /\ ~Holds(th)'
        \/ /\ pc'[th] = "assert" /\ arg'[th] = arg[th]
           /\ task[arg[th]].task_type = "TASK_PKT_Q_JOB" => IsUnlinked(gl, arg[th])
    BY <1>0, <1>2, HeldIs DEF SchedTest, Holds
  <2>3. pc'[th] = "assert" => IsUnlinked(gl, arg[th])
    BY <1>0, <2>1, <2>2 DEF Owned, HeldOK, KindsOK
  <2>4. PlaceFits(th)'
    BY <1>0, <2>1, <2>2, <2>3 DEF PlaceFits, MovesOnly, Owned, HeldOK
  <2>5. DisInCallback' => DisInCallback
    BY <1>0, <2>1, <2>2, ThreadsAre DEF DisInCallback, MovesOnly
  <2> QED
    BY <1>0, <2>1, <2>2, <2>4, <2>5, MoveOwned
<1>3. CASE SchedAssert(th)
  <2>1. MovesOnly(th) /\ Holds(th) /\ pc[th] = "assert" /\ IsUnlinked(gl, arg[th])
    BY <1>3, HeldIs DEF SchedAssert, MovesOnly, Holds, Owned, HeldOK
  <2>2. pc'[th] = "crit" /\ arg'[th] = arg[th]
    BY <1>3, <2>1, HeldIs DEF SchedAssert
  <2>3. PlaceFits(th)'
    BY <2>1, <2>2 DEF PlaceFits, MovesOnly, Owned, HeldOK
  <2>4. DisInCallback' => DisInCallback
    BY <2>1, <2>2, ThreadsAre DEF DisInCallback, MovesOnly
  <2> QED
    BY <2>1, <2>2, <2>3, <2>4, MoveOwned
<1>4. CASE SchedInsert(th)
  BY <1>4, InsertOwned
<1>5. CASE SchedSpin(th)
  BY <1>5, HeldIs, LastIs DEF SchedSpin, Owned, ListOK
<1>6. CASE SyncReturn(th)
  BY <1>6, SyncReturnOwned
<1>7. CASE SpuriousWakeup(th)
  <2>1. MovesOnly(th)
    BY <1>7, HeldIs DEF SpuriousWakeup, MovesOnly
  <2>2. th = Dis /\ pc[th] = "sleep" /\ pc'[th] = "woken"
    <3>1. pc[th] # "syncwait"
      <4>1. pc[th] = "syncwait" => th \in CliThreads
        BY DEF Owned, HeldOK, Holds
      <4> QED
        BY <1>7, <4>1 DEF SpuriousWakeup, NoEarlyReturn
    <3> QED
      BY <1>0, <1>7, <3>1, HeldIs DEF SpuriousWakeup, Owned, PlacesOK
  <2>3. PlaceFits(th)' /\ ~Holds(th)'
    BY <2>2 DEF PlaceFits, Holds
  <2>4. current_task = NULL /\ ~DisInCallback'
    BY <2>2 DEF Owned, ReturnOK, DisInCallback
  <2> QED
    BY <2>1, <2>2, <2>3, <2>4, MoveOwned
<1> QED
  BY <1>1, <1>2, <1>3, <1>4, <1>5, <1>6, <1>7 DEF LibraryStep

\* A library call made by the running callback.
LEMMA CallbackCallOwned ==
  ASSUME Inv, Owned, CallbackCall
  PROVE  Owned'
<1>0. Dis \in Threads /\ pc \in [Threads -> Places] /\ gl \in GlType
  BY HeldIs, ThreadsAre
<1>1. ASSUME NEW t \in Tasks, NEW type \in {"TASK_ONE_SHOT", "TASK_BG"},
             CallbackCreatesJob(t, type)
      PROVE  Owned'
  <2>1. /\ CreateJob(Dis, t, type, FALSE, TRUE) /\ pc[Dis] = "run"
        /\ current_task' = current_task /\ ret' = "run"
    BY <1>1 DEF CallbackCreatesJob, MayCall, InCallback
  <2> QED
    BY <1>0, <2>1, CreateOwned
<1>2. ASSUME NEW p \in Packets, CallbackEnqueues(p) PROVE Owned'
  <2>1. /\ pc[Dis] = "run" /\ pc'[Dis] = "enq" /\ ret' = "run"
        /\ \A u \in Threads : u # Dis => pc'[u] = pc[u]
        /\ gl' = gl /\ task' = task /\ alloc' = alloc /\ current_task' = current_task
        /\ arg' = arg
    BY <1>0, <1>2 DEF CallbackEnqueues, EnqueuePkt, MayCall, InCallback
  <2>2. /\ \A u \in Threads : Holds(u)' <=> Holds(u)
        /\ ~Holds(Dis) /\ DisInCallback
    BY <2>1 DEF Holds, DisInCallback
  <2>3. KindsOK' /\ ListOK' /\ PlacesOK'
    BY <2>1, ThreadsAre DEF Owned, KindsOK, ListOK, PlacesOK
  <2>4. HeldOK' /\ HeldOnce'
    BY <2>1, <2>2 DEF Owned, HeldOK, HeldOnce, Holds
  <2>5. RunOK' /\ ReturnOK'
    BY <2>1, <2>2, ThreadsAre DEF Owned, RunOK, ReturnOK
  <2> QED
    BY <2>3, <2>4, <2>5 DEF Owned
<1>3. CASE CallbackSchedulesAgain
  <2>1. /\ pc[Dis] = "run" /\ current_task \in Tasks
        /\ current_task # PktTask /\ ~task[current_task].sync
    BY <1>3, HeldIs, NodesAre
       DEF CallbackSchedulesAgain, MayCall, InCallback, DisInCallback, Owned, KindsOK
  <2>2. /\ \A t \in Tasks : /\ task'[t].task_type = task[t].task_type
                            /\ task'[t].sync = task[t].sync
                            /\ task'[t].handle = task[t].handle
                            /\ t # current_task => task'[t].re_schedule = task[t].re_schedule
        /\ gl' = gl /\ alloc' = alloc /\ current_task' = current_task
        /\ pc' = pc /\ arg' = arg /\ ret' = ret
    BY <1>3, <2>1, HeldIs DEF CallbackSchedulesAgain, TaskFields
  <2>3. \A u \in Threads : (Holds(u)' <=> Holds(u)) /\ (Holds(u) => arg[u] \in Tasks)
    BY <2>2, HeldIs DEF Holds
  <2>4. KindsOK' /\ ListOK' /\ PlacesOK'
    BY <2>1, <2>2, NodesAre DEF Owned, KindsOK, ListOK, PlacesOK
  <2>5. HeldOK' /\ HeldOnce'
    BY <2>2, <2>3 DEF Owned, HeldOK, HeldOnce
  <2>6. RunOK' /\ ReturnOK'
    BY <2>2, <2>3, ThreadsAre DEF Owned, RunOK, ReturnOK, DisInCallback
  <2> QED
    BY <2>4, <2>5, <2>6 DEF Owned
<1>4. ASSUME NEW t \in Tasks, CallbackCancels(t) PROVE Owned'
  <2>1. /\ pc[Dis] = "run" /\ t \in alloc /\ task[t].handle /\ ~IsUnlinked(gl, t)
        /\ t # current_task /\ gl' = remove_glthread(gl, t) /\ alloc' = alloc \ {t}
        /\ task' = task /\ current_task' = current_task /\ pc' = pc /\ arg' = arg /\ ret' = ret
    BY <1>4 DEF CallbackCancels, MayCall, InCallback, Unlinked
  <2>2. /\ Listed(gl') /\ IsUnlinked(gl', t)
        /\ \A n \in Tasks \ {t} : IsUnlinked(gl', n) <=> IsUnlinked(gl, n)
    BY <1>0, <2>1, RemoveListed DEF Owned, ListOK
  <2>3. t # PktTask /\ ~task[t].sync
    BY <2>1 DEF Owned, KindsOK
  <2>4. \A u \in Threads : /\ Holds(u)' <=> Holds(u)
                           /\ Holds(u) => arg[u] \in Tasks /\ arg[u] # t
    <3>1. ~Holds(Dis)
      BY <2>1 DEF Holds
    <3> QED
      BY <2>1, <2>3, <3>1, HeldIs DEF Holds, Owned, HeldOK
  <2>5. KindsOK' /\ ListOK' /\ PlacesOK'
    BY <2>1, <2>2, <2>3 DEF Owned, KindsOK, ListOK, PlacesOK
  <2>6. HeldOK' /\ HeldOnce'
    BY <2>1, <2>2, <2>4 DEF Owned, HeldOK, HeldOnce
  <2>7. RunOK' /\ ReturnOK'
    <3>1. DisInCallback /\ current_task \in Tasks \ {t}
      BY <2>1, HeldIs DEF DisInCallback
    <3> QED
      BY <2>1, <2>2, <2>4, <3>1, ThreadsAre DEF Owned, RunOK, ReturnOK
  <2> QED
    BY <2>5, <2>6, <2>7 DEF Owned
<1> QED
  BY <1>1, <1>2, <1>3, <1>4 DEF CallbackCall

\* A step of the dispatcher's own loop.
LEMMA DispatcherOwned ==
  ASSUME Inv, Owned, DispatcherStep
  PROVE  Owned'
<1>0. Dis \in Threads /\ pc \in [Threads -> Places] /\ gl \in GlType
  BY HeldIs, ThreadsAre
<1>1. CASE DispatcherSleeps
  <2>1. /\ pc'[Dis] = "sleep" /\ pc[Dis] \in {"loop", "woken"}
        /\ \A u \in Threads : u # Dis => pc'[u] = pc[u]
        /\ gl' = gl /\ task' = task /\ alloc' = alloc /\ current_task' = NULL
        /\ arg' = arg /\ ret' = ret
    BY <1>0, <1>1 DEF DispatcherSleeps
  <2>2. /\ \A u \in Threads : Holds(u)' <=> Holds(u)
        /\ ~Holds(Dis) /\ ~DisInCallback'
    BY <2>1 DEF Holds, DisInCallback
  <2>3. KindsOK' /\ ListOK' /\ PlacesOK'
    BY <2>1, ThreadsAre DEF Owned, KindsOK, ListOK, PlacesOK
  <2>4. HeldOK' /\ HeldOnce'
    BY <2>1, <2>2 DEF Owned, HeldOK, HeldOnce, Holds
  <2>5. RunOK' /\ ReturnOK'
    BY <1>0, <2>1, <2>2 DEF RunOK, ReturnOK
  <2> QED
    BY <2>3, <2>4, <2>5 DEF Owned
<1>2. CASE Dispatch
  <2> DEFINE t == gl.right[QHead]
  <2>1. /\ pc[Dis] \in {"loop", "woken"} /\ pc'[Dis] = "run" /\ t # NULL
        /\ \A u \in Threads : u # Dis => pc'[u] = pc[u]
        /\ gl' = remove_glthread(gl, t) /\ current_task' = t
        /\ task' = task /\ alloc' = alloc /\ arg' = arg /\ ret' = ret
    BY <1>0, <1>2 DEF Dispatch, FirstTask, Dequeued, dequeue_glthread_first
  <2>2. t \in Tasks /\ ~IsUnlinked(gl, t) /\ t \in alloc
    <3>1. t \in Tasks /\ gl.left[t] = QHead
      BY <1>0, <2>1, NodesAre DEF GlType, Owned, ListOK, Listed
    <3>2. ~IsUnlinked(gl, t)
      BY <3>1, NodesAre DEF IsUnlinked
    <3> QED
      BY <3>1, <3>2 DEF Owned, ListOK
  <2> HIDE DEF t
  <2>3. /\ Listed(gl') /\ IsUnlinked(gl', t)
        /\ \A n \in Tasks \ {t} : IsUnlinked(gl', n) <=> IsUnlinked(gl, n)
    BY <1>0, <2>1, <2>2, RemoveListed DEF Owned, ListOK
  <2>4. /\ \A u \in Threads : /\ Holds(u)' <=> Holds(u)
                              /\ Holds(u) => u # Dis /\ arg[u] \in Tasks
        /\ \A u \in AppThreads : pc[u] \in {"sched", "assert", "crit", "syncwoken"}
                                   => arg[u] # t \/ t = PktTask
    <3>1. ~Holds(Dis) /\ ~Holds(Dis)'
      BY <2>1 DEF Holds
    <3> QED
      BY <2>1, <2>2, <3>1, HeldIs, ThreadsAre DEF Holds, Owned, HeldOK
  <2>5. KindsOK' /\ ListOK' /\ PlacesOK'
    BY <2>1, <2>2, <2>3, ThreadsAre DEF Owned, KindsOK, ListOK, PlacesOK
  <2>6. HeldOK' /\ HeldOnce'
    <3>1. HeldOnce'
      BY <2>1, <2>4 DEF Owned, HeldOnce
    <3>2. HeldOK'
      <4> SUFFICES ASSUME NEW u \in Threads, Holds(u)'
                   PROVE  /\ arg'[u] \in alloc'
                          /\ pc'[u] \in {"syncwait", "syncwoken"} => task'[arg'[u]].sync
                          /\ task'[arg'[u]].sync => u \in CliThreads
                          /\ pc'[u] \in {"assert", "crit", "syncwoken"} => IsUnlinked(gl', arg'[u])
                          /\ pc'[u] = "sched" => IsUnlinked(gl', arg'[u]) \/ arg'[u] = PktTask
        BY DEF HeldOK
      <4>1. Holds(u) /\ u # Dis /\ arg'[u] = arg[u] /\ pc'[u] = pc[u] /\ arg[u] \in Tasks
        BY <2>1, <2>4
      <4> QED
        BY <2>1, <2>3, <4>1 DEF Owned, HeldOK
    <3> QED
      BY <3>1, <3>2
  <2>7. RunOK' /\ ReturnOK'
    BY <2>1, <2>2, <2>3, <2>4, ThreadsAre DEF RunOK, ReturnOK
  <2> QED
    BY <2>5, <2>6, <2>7 DEF Owned
<1>3. CASE CallbackCall
  BY <1>3, CallbackCallOwned
<1>4. CASE CallbackTakesPkt
  BY <1>4 DEF CallbackTakesPkt, Owned, KindsOK, ListOK, PlacesOK, HeldOK, HeldOnce, Holds,
              RunOK, DisInCallback, ReturnOK
<1>5. CASE CallbackReturns
  <2>1. /\ pc[Dis] = "run" /\ pc'[Dis] = "post"
        /\ \A u \in Threads : u # Dis => pc'[u] = pc[u]
        /\ gl' = gl /\ task' = task /\ alloc' = alloc /\ current_task' = current_task
        /\ arg' = arg /\ ret' = ret
    BY <1>0, <1>5 DEF CallbackReturns, InCallback
  <2>2. /\ \A u \in Threads : Holds(u)' <=> Holds(u)
        /\ ~Holds(Dis) /\ DisInCallback
    BY <2>1 DEF Holds, DisInCallback
  <2>3. KindsOK' /\ ListOK' /\ PlacesOK'
    BY <2>1, ThreadsAre DEF Owned, KindsOK, ListOK, PlacesOK
  <2>4. HeldOK' /\ HeldOnce'
    BY <2>1, <2>2 DEF Owned, HeldOK, HeldOnce, Holds
  <2>5. RunOK' /\ ReturnOK'
    BY <2>1, <2>2, ThreadsAre DEF Owned, RunOK, ReturnOK
  <2> QED
    BY <2>3, <2>4, <2>5 DEF Owned
<1>6. CASE PostCallSchedules
  <2>1. /\ pc[Dis] = "post" /\ pc'[Dis] = "sched" /\ RunsAgain
        /\ \A u \in Threads : u # Dis => pc'[u] = pc[u] /\ arg'[u] = arg[u]
        /\ arg'[Dis] = current_task /\ ret' = "loop"
        /\ gl' = gl /\ alloc' = alloc /\ current_task' = current_task
    BY <1>0, <1>6, HeldIs DEF PostCallSchedules
  <2>2. current_task \in Tasks /\ current_task \in alloc /\ DisInCallback
    BY <2>1, HeldIs DEF DisInCallback, Owned, RunOK
  <2>3. /\ \A t \in Tasks : /\ task'[t].task_type = task[t].task_type
                            /\ task'[t].sync = task[t].sync
                            /\ task'[t].handle = task[t].handle
                            /\ t # current_task => task'[t].re_schedule = task[t].re_schedule
        /\ task'[current_task].re_schedule = FALSE
    BY <1>6, <2>2, HeldIs DEF PostCallSchedules, TaskFields
  <2>4. ~task[current_task].sync
    BY <2>1, <2>2 DEF RunsAgain, Owned, KindsOK
  <2>5. /\ \A u \in Threads : u # Dis => /\ Holds(u)' <=> Holds(u)
                                         /\ Holds(u) => /\ arg[u] \in Tasks
                                                        /\ \/ arg[u] # current_task
                                                           \/ current_task = PktTask
        /\ Holds(Dis)' /\ ~DisInCallback'
    <3>1. ASSUME NEW u \in AppThreads, Holds(u), arg[u] = current_task
          PROVE  current_task = PktTask
      BY <2>2, <2>4, <3>1, ThreadsAre DEF Holds, Owned, HeldOK, RunOK
    <3> QED
      BY <2>1, <3>1, HeldIs, ThreadsAre DEF Holds, DisInCallback
  <2>6. KindsOK' /\ ListOK' /\ PlacesOK'
    BY <2>1, <2>2, <2>3, <2>4, NodesAre, ThreadsAre DEF Owned, KindsOK, ListOK, PlacesOK
  <2>7. HeldOK'
    <3> SUFFICES ASSUME NEW u \in Threads, Holds(u)'
                 PROVE  /\ arg'[u] \in alloc'
                        /\ pc'[u] \in {"syncwait", "syncwoken"} => task'[arg'[u]].sync
                        /\ task'[arg'[u]].sync => u \in CliThreads
                        /\ pc'[u] \in {"assert", "crit", "syncwoken"} => IsUnlinked(gl', arg'[u])
                        /\ pc'[u] = "sched" => IsUnlinked(gl', arg'[u]) \/ arg'[u] = PktTask
      BY DEF HeldOK
    <3>1. CASE u = Dis
      BY <2>1, <2>2, <2>3, <2>4, <3>1 DEF Owned, RunOK
    <3>2. CASE u # Dis
      BY <2>1, <2>3, <2>5, <3>2 DEF Owned, HeldOK
    <3> QED
      BY <3>1, <3>2
  <2>8. HeldOnce' /\ RunOK' /\ ReturnOK'
    BY <2>1, <2>5 DEF Owned, HeldOnce, RunOK, ReturnOK
  <2> QED
    BY <2>6, <2>7, <2>8 DEF Owned
<1>7. CASE PostCallFinishes
  <2> DEFINE t == current_task
  <2>1. /\ pc[Dis] = "post" /\ pc'[Dis] = "loop" /\ DisInCallback
        /\ task[t].task_type = "TASK_ONE_SHOT" /\ t \in Tasks
        /\ gl' = gl /\ task' = task /\ current_task' = t /\ arg' = arg /\ ret' = ret
        /\ \A s : s \in alloc' => s \in alloc
        /\ \A s \in alloc : s # t \/ task[t].sync => s \in alloc'
        /\ \A u \in AppThreads : pc'[u] = pc[u] \/ (/\ pc[u] = "syncwait" /\ arg[u] = t
                                                    /\ pc'[u] = "syncwoken")
    BY <1>0, <1>7, HeldIs, ThreadsAre
       DEF PostCallFinishes, Finished, WaitsFor, DisInCallback
  <2>2. t # PktTask /\ IsUnlinked(gl, t)
    BY <2>1, NodesAre DEF Owned, KindsOK, RunOK
  <2> HIDE DEF t
  <2>3. /\ \A u \in Threads : Holds(u)' <=> Holds(u)
        /\ ~Holds(Dis) /\ ~DisInCallback'
    BY <2>1, ThreadsAre DEF Holds, DisInCallback
  <2>4. \A u \in Threads : Holds(u) /\ arg[u] = t => task[t].sync
    BY <2>1, <2>2, <2>3, ThreadsAre DEF Holds, Owned, HeldOK, RunOK, t
  <2>5. KindsOK' /\ ListOK' /\ PlacesOK'
    BY <2>1, <2>2, NodesAre, ThreadsAre DEF Owned, KindsOK, ListOK, PlacesOK
  <2>6. HeldOK' /\ HeldOnce'
    <3>1. HeldOnce'
      BY <2>1, <2>3 DEF Owned, HeldOnce
    <3>2. HeldOK'
      <4> SUFFICES ASSUME NEW u \in Threads, Holds(u)'
                   PROVE  /\ arg'[u] \in alloc'
                          /\ pc'[u] \in {"syncwait", "syncwoken"} => task'[arg'[u]].sync
                          /\ task'[arg'[u]].sync => u \in CliThreads
                          /\ pc'[u] \in {"assert", "crit", "syncwoken"} => IsUnlinked(gl', arg'[u])
                          /\ pc'[u] = "sched" => IsUnlinked(gl', arg'[u]) \/ arg'[u] = PktTask
        BY DEF HeldOK
      <4>1. Holds(u) /\ u \in AppThreads
        BY <2>3, ThreadsAre
      <4>2. /\ arg[u] \in alloc
            /\ pc[u] \in {"syncwait", "syncwoken"} => task[arg[u]].sync
            /\ task[arg[u]].sync => u \in CliThreads
            /\ pc[u] \in {"assert", "crit", "syncwoken"} => IsUnlinked(gl, arg[u])
            /\ pc[u] = "sched" => IsUnlinked(gl, arg[u]) \/ arg[u] = PktTask
        BY <4>1 DEF Owned, HeldOK
      <4>3. arg'[u] \in alloc'
        BY <2>1, <2>4, <4>1, <4>2
      <4>4. CASE pc'[u] = pc[u]
        BY <2>1, <4>2, <4>3, <4>4
      <4>5. CASE pc[u] = "syncwait" /\ arg[u] = t /\ pc'[u] = "syncwoken"
        BY <2>1, <2>2, <4>2, <4>3, <4>5
      <4> QED
        BY <2>1, <4>1, <4>4, <4>5
    <3> QED
      BY <3>1, <3>2
  <2>7. RunOK' /\ ReturnOK'
    BY <1>0, <2>1, <2>3 DEF RunOK, ReturnOK
  <2> QED
    BY <2>5, <2>6, <2>7 DEF Owned
<1>8. CASE PostCallStops
  <2>1. /\ pc[Dis] = "post" /\ pc'[Dis] = "loop"
        /\ \A u \in Threads : u # Dis => pc'[u] = pc[u]
        /\ gl' = gl /\ task' = task /\ alloc' = alloc /\ current_task' = current_task
        /\ arg' = arg /\ ret' = ret
    BY <1>0, <1>8 DEF PostCallStops
  <2>2. /\ \A u \in Threads : Holds(u)' <=> Holds(u)
        /\ ~Holds(Dis) /\ ~DisInCallback'
    BY <2>1 DEF Holds, DisInCallback
  <2>3. KindsOK' /\ ListOK' /\ PlacesOK'
    BY <2>1, ThreadsAre DEF Owned, KindsOK, ListOK, PlacesOK
  <2>4. HeldOK' /\ HeldOnce'
    BY <2>1, <2>2 DEF Owned, HeldOK, HeldOnce, Holds
  <2>5. RunOK' /\ ReturnOK'
    BY <1>0, <2>1, <2>2 DEF RunOK, ReturnOK
  <2> QED
    BY <2>3, <2>4, <2>5 DEF Owned
<1> QED
  BY <1>1, <1>2, <1>3, <1>4, <1>5, <1>6, <1>7, <1>8 DEF DispatcherStep

\* A dispatcher that starts owns nothing but the packet job.
LEMMA InitOwned == Init => Owned
<1> SUFFICES ASSUME Init PROVE Owned
  OBVIOUS
<1>1. gl \in GlType /\ \A n \in Nodes : gl.left[n] = NULL /\ gl.right[n] = NULL
  BY DEF Init, GlType
<1>2. Listed(gl)
  <2>1. QHead \in Walk(gl, QHead, Nodes)
    BY <1>1, WalkClosed DEF Closed
  <2> QED
    BY <1>1, <2>1, NodesAre DEF Listed, IsUnlinked
<1>3. pc[Dis] = "loop" /\ \A th \in AppThreads : pc[th] = "idle"
  BY ThreadsAre DEF Init
<1>4. \A th \in Threads : ~Holds(th)
  BY <1>3, ThreadsAre DEF Holds
<1>5. ~DisInCallback
  BY <1>3 DEF DisInCallback
<1>6. KindsOK
  BY NodesAre DEF Init, KindsOK, NewFields
<1>7. ListOK
  BY <1>1, <1>2 DEF ListOK, IsUnlinked, Nodes
<1>8. PlacesOK /\ HeldOK /\ HeldOnce /\ RunOK /\ ReturnOK
  BY <1>3, <1>4, <1>5, ThreadsAre DEF PlacesOK, HeldOK, HeldOnce, RunOK, ReturnOK
<1> QED
  BY <1>6, <1>7, <1>8 DEF Owned

\* No step gives a task a second owner.
LEMMA NextOwned ==
  ASSUME NoEarlyReturn, NoOverlap, Inv, Owned, [Next]_vars
  PROVE  Owned'
<1>1. CASE UNCHANGED vars
  BY <1>1 DEF vars, Owned, KindsOK, ListOK, PlacesOK, HeldOK, HeldOnce, Holds, RunOK,
              DisInCallback, ReturnOK
<1>2. CASE Next
  BY <1>2, LibraryOwned, AppCallOwned, DispatcherOwned DEF Next
<1> QED
  BY <1>1, <1>2

\* A list whose tasks have one owner each is in order, and whoever goes on after
\* waiting for a job goes on when the job is done.
LEMMA OwnedSound ==
  ASSUME Inv, Owned
  PROVE  TasksSound
<1>1. WellLinked
  BY DEF Owned, ListOK, Listed, WellLinked
<1>2. GlueAssertHolds
  BY ThreadsAre DEF Owned, PlacesOK, GlueAssertHolds
<1>3. NoFreedTaskReachable
  <2>1. ASSUME NEW n \in Walk(gl, QHead, Nodes), n # QHead PROVE n \in alloc
    <3>1. n \in Tasks /\ gl.left[n] # NULL
      BY <2>1, HeldIs, WalkIs, NodesAre, Preceded DEF Owned, ListOK
    <3> QED
      BY <3>1 DEF Owned, ListOK, IsUnlinked
  <2>2. pc[Dis] \in {"run", "post"} => current_task \in alloc
    BY DEF Owned, RunOK, DisInCallback
  <2> QED
    BY <2>1, <2>2 DEF NoFreedTaskReachable
<1>4. SyncJobDone
  <2> SUFFICES ASSUME NEW th \in CliThreads, pc[th] = "syncwoken"
               PROVE  /\ IsUnlinked(gl, arg[th])
                      /\ current_task = arg[th] => pc[Dis] = "loop"
    BY DEF SyncJobDone
  <2>1. /\ th \in Threads /\ th \in AppThreads /\ th # Dis /\ Holds(th)
        /\ arg[th] \in Tasks /\ arg[th] # NULL /\ arg[th] # PktTask
    BY ThreadsAre, HeldIs DEF Holds, Owned, HeldOK, KindsOK
  <2>2. ASSUME current_task = arg[th] PROVE pc[Dis] = "loop"
    <3>1. ~DisInCallback
      BY <2>1, <2>2 DEF Owned, RunOK
    <3>2. pc[Dis] \notin {"sleep", "woken"}
      BY <2>1, <2>2 DEF Owned, ReturnOK
    <3>3. ~Holds(Dis) \/ ret # "loop"
      BY <2>1, <2>2, ThreadsAre DEF Owned, ReturnOK, HeldOnce
    <3>4. ret \in {"loop", "run"}
      BY DEF Inv, TypeOK
    <3> QED
      BY <3>1, <3>2, <3>3, <3>4 DEF DisInCallback, Holds, Owned, PlacesOK, ReturnOK
  <2> QED
    BY <2>1, <2>2 DEF Owned, HeldOK
<1> QED
  BY <1>1, <1>2, <1>3, <1>4 DEF TasksSound

-----------------------------------------------------------------------------
(* Packets. *)

\* A step by which the packet job gets nearer to the list.
LEMMA LibraryPkt ==
  ASSUME Inv, Inv', Owned, Owned', PktNotStranded,
         NEW th \in Threads, LibraryStep(th) \/ SpuriousWakeup(th)
  PROVE  PktNotStranded'
<1>0. /\ pktq' = pktq /\ current_task' = current_task /\ ret' = ret
      /\ Dis \in Threads /\ pc \in [Threads -> Places] /\ gl \in GlType
      /\ arg \in [Threads -> Tasks \cup {NULL}] /\ PktTask \in Tasks /\ PktTask # NULL
  BY HeldIs, ThreadsAre, NodesAre
     DEF LibraryStep, SpuriousWakeup, EnqueueTest, SchedTest, SchedAssert, SchedInsert,
         SchedSpin, SyncReturn
<1>1. CASE ~IsUnlinked(gl', PktTask)
  <2>1. PktTask \in Walk(gl', QHead, Nodes)
    BY <1>0, <1>1 DEF Owned, ListOK, Listed, Nodes
  <2> QED
    BY <2>1 DEF PktNotStranded
<1>2. CASE IsUnlinked(gl', PktTask) /\ pktq # <<>>
  <2>1. IsUnlinked(gl, PktTask) /\ (SchedInsert(th) => arg[th] # PktTask)
    <3>1. CASE SchedInsert(th)
      <4>1. /\ arg[th] \in Tasks /\ IsUnlinked(gl, arg[th]) /\ Listed(gl)
            /\ gl' = glthread_add_last(gl, QHead, arg[th])
        BY <3>1, HeldIs DEF SchedInsert, Queued, Owned, HeldOK, ListOK, Holds
      <4> QED
        BY <1>0, <1>2, <4>1, AddLastListed
    <3>2. CASE ~SchedInsert(th)
      <4>1. gl' = gl
        BY <3>2 DEF LibraryStep, SpuriousWakeup, EnqueueTest, SchedTest, SchedAssert,
                    SchedSpin, SyncReturn
      <4> QED
        BY <1>2, <3>2, <4>1
    <3> QED
      BY <3>1, <3>2
  <2>2. PktTask \notin Walk(gl, QHead, Nodes)
    BY <1>0, <2>1, NodesAre, Preceded DEF Owned, ListOK, IsUnlinked
  <2> DEFINE running(p, c) == c = PktTask /\ (p \in {"run", "post"}
                                                \/ (ret = "run" /\ p \in {"enq", "sched", "assert", "crit"}))
             near(p, a) == p = "enq" \/ (a = PktTask /\ p \in {"sched", "assert", "crit"})
  <2>3. running(pc[Dis], current_task) \/ \E u \in Threads : near(pc[u], arg[u])
    BY <1>2, <2>2 DEF PktNotStranded, InCallFromCallback
  <2>4. near(pc[th], arg[th]) => near(pc'[th], arg'[th])
    <3>1. CASE EnqueueTest(th)
      BY <1>0, <2>1, <3>1 DEF EnqueueTest, JobIsQueued
    <3>2. CASE SchedTest(th)
      BY <1>0, <2>1, <3>2 DEF SchedTest
    <3>3. CASE SchedAssert(th)
      BY <1>0, <2>1, <3>3 DEF SchedAssert
    <3>4. CASE SchedInsert(th)
      BY <2>1, <3>4 DEF SchedInsert
    <3>5. CASE SchedSpin(th)
      BY <1>0, <3>5, LastIs DEF SchedSpin, Owned, ListOK
    <3>6. CASE SyncReturn(th) \/ SpuriousWakeup(th)
      BY <3>6 DEF SyncReturn, SpuriousWakeup
    <3> QED
      BY <3>1, <3>2, <3>3, <3>4, <3>5, <3>6 DEF LibraryStep
  <2>5. \A u \in Threads : u # th => /\ arg'[u] = arg[u]
                                     /\ pc'[u] = pc[u] \/ pc[u] = "sleep"
    BY <1>0 DEF LibraryStep, SpuriousWakeup, EnqueueTest, SchedTest, SchedAssert, SchedInsert,
         SchedSpin, SyncReturn, Signals
  <2>6. th = Dis /\ running(pc[Dis], current_task) => running(pc'[Dis], current_task)
    <3> SUFFICES ASSUME th = Dis, running(pc[Dis], current_task)
                 PROVE  running(pc'[Dis], current_task)
      OBVIOUS
    <3>1. BackFrom(th) = ret
      BY DEF BackFrom
    <3>2. CASE EnqueueTest(th)
      BY <1>0, <3>1, <3>2 DEF EnqueueTest
    <3>3. CASE SchedTest(th)
      BY <1>0, <3>1, <3>3 DEF SchedTest
    <3>4. CASE SchedAssert(th)
      BY <1>0, <3>4, ThreadsAre DEF SchedAssert, Owned, PlacesOK
    <3>5. CASE SchedInsert(th)
      <4>1. pc'[Dis] # "syncwait"
        BY DEF Owned, PlacesOK
      <4> QED
        BY <1>0, <3>1, <3>5, <4>1 DEF SchedInsert
    <3>6. CASE SchedSpin(th)
      BY <1>0, <3>6, LastIs DEF SchedSpin, Owned, ListOK
    <3>7. CASE SyncReturn(th) \/ SpuriousWakeup(th)
      BY <3>7 DEF SyncReturn, SpuriousWakeup
    <3> QED
      BY <3>2, <3>3, <3>4, <3>5, <3>6, <3>7 DEF LibraryStep
  <2>7. running(pc'[Dis], current_task) \/ \E u \in Threads : near(pc'[u], arg'[u])
    BY <1>0, <2>3, <2>4, <2>5, <2>6
  <2> QED
    BY <1>0, <2>7 DEF PktNotStranded, InCallFromCallback
<1>3. CASE pktq = <<>>
  BY <1>0, <1>3 DEF PktNotStranded
<1> QED
  BY <1>1, <1>2, <1>3

\* What PktNotStranded asks for when the packet job is not in the list.
Pending ==
  \/ current_task = PktTask /\ (pc[Dis] \in {"run", "post"} \/ InCallFromCallback)
  \/ \E th \in Threads : \/ pc[th] = "enq"
                         \/ arg[th] = PktTask /\ pc[th] \in {"sched", "assert", "crit"}

Served == pktq # <<>> => ~IsUnlinked(gl, PktTask) \/ Pending

\* The list holds the packet job exactly when the job is linked.
LEMMA ServedIs == Inv /\ Owned => (PktNotStranded <=> Served)
<1> SUFFICES ASSUME Inv, Owned PROVE PktNotStranded <=> Served
  OBVIOUS
<1>1. PktTask \in Walk(gl, QHead, Nodes) <=> ~IsUnlinked(gl, PktTask)
  <2>1. PktTask \in Nodes /\ PktTask # QHead
    BY NodesAre DEF Nodes
  <2>2. PktTask \in Walk(gl, QHead, Nodes) <=> gl.left[PktTask] # NULL
    BY <2>1, HeldIs, Preceded DEF Owned, ListOK
  <2>3. IsUnlinked(gl, PktTask) <=> gl.left[PktTask] = NULL
    BY HeldIs, NodesAre, Preceded DEF Owned, ListOK
  <2> QED
    BY <2>2, <2>3
<1> QED
  BY <1>1 DEF PktNotStranded, Served, Pending

\* A new packet makes its thread look for the job; a new job is another one.
LEMMA CallPkt ==
  ASSUME Inv, Inv', Owned, Owned', PktNotStranded,
         ApplicationCall \/ CallbackCall
  PROVE  PktNotStranded'
<1>s. Served /\ (Served' => PktNotStranded')
  <2>1. Served
    BY ServedIs
  <2>2. (PktNotStranded <=> Served)'
    BY ServedIs, PTL
  <2> QED
    BY <2>1, <2>2
<1>0. /\ Dis \in Threads /\ pc \in [Threads -> Places] /\ gl \in GlType
      /\ arg \in [Threads -> Tasks \cup {NULL}] /\ PktTask \in alloc
  BY HeldIs, ThreadsAre DEF Owned, KindsOK
<1>1. ASSUME NEW th \in Threads, NEW t \in Tasks, NEW type, NEW sync, NEW handle,
             CreateJob(th, t, type, sync, handle), pktq' = pktq, current_task' = current_task,
             \/ th # Dis /\ pc[th] = "idle" /\ ret' = ret
             \/ th = Dis /\ pc[th] = "run" /\ ret' = "run"
      PROVE  PktNotStranded'
  <2>1. gl' = gl
    BY <1>0, <1>1, InitSame DEF CreateJob, Owned, ListOK
  <2>2. /\ pc'[th] = "sched"
        /\ \A u \in Threads : u # th => pc'[u] = pc[u] /\ arg'[u] = arg[u]
    BY <1>0, <1>1 DEF CreateJob
  <2>3. Pending => Pending'
    <3>1. CASE th # Dis
      BY <1>0, <1>1, <2>2, <3>1 DEF Pending, InCallFromCallback
    <3>2. CASE th = Dis
      BY <1>0, <1>1, <2>2, <3>2 DEF Pending, InCallFromCallback
    <3> QED
      BY <3>1, <3>2
  <2> QED
    BY <1>s, <1>1, <2>1, <2>3 DEF Served
<1>2. CASE ApplicationCall
  <2>1. ASSUME NEW th \in TimerThreads, NEW t \in Tasks, TimerCreatesJob(th, t)
        PROVE  PktNotStranded'
    BY <1>1, <2>1, ThreadsAre DEF TimerCreatesJob
  <2>2. ASSUME NEW th \in CliThreads, NEW t \in Tasks, CliCreatesJob(th, t)
        PROVE  PktNotStranded'
    BY <1>1, <2>2, ThreadsAre DEF CliCreatesJob
  <2>3. ASSUME NEW th \in RecvThreads, NEW p \in Packets, ReceiverEnqueues(th, p)
        PROVE  PktNotStranded'
    <3>1. th \in Threads /\ pc'[th] = "enq"
      BY <1>0, <2>3, ThreadsAre DEF ReceiverEnqueues, EnqueuePkt
    <3> QED
      BY <3>1 DEF PktNotStranded
  <2> QED
    BY <1>2, <2>1, <2>2, <2>3 DEF ApplicationCall
<1>3. ASSUME NEW t \in Tasks, NEW type, CallbackCreatesJob(t, type) PROVE PktNotStranded'
  BY <1>0, <1>1, <1>3 DEF CallbackCreatesJob, MayCall, InCallback
<1>4. ASSUME NEW p \in Packets, CallbackEnqueues(p) PROVE PktNotStranded'
  <2>1. pc'[Dis] = "enq"
    BY <1>0, <1>4 DEF CallbackEnqueues, EnqueuePkt
  <2> QED
    BY <1>0, <2>1 DEF PktNotStranded
<1>5. CASE CallbackSchedulesAgain
  BY <1>5 DEF CallbackSchedulesAgain, MayCall, PktNotStranded, InCallFromCallback
<1>6. ASSUME NEW t \in Tasks, CallbackCancels(t) PROVE PktNotStranded'
  <2>1. /\ gl' = remove_glthread(gl, t) /\ ~IsUnlinked(gl, t) /\ t # PktTask
        /\ pc' = pc /\ arg' = arg /\ ret' = ret /\ pktq' = pktq /\ current_task' = current_task
    BY <1>6 DEF CallbackCancels, Unlinked, Owned, KindsOK
  <2>2. IsUnlinked(gl', PktTask) <=> IsUnlinked(gl, PktTask)
    BY <1>0, <2>1, NodesAre, RemoveListed DEF Owned, ListOK
  <2>3. Pending' <=> Pending
    BY <2>1 DEF Pending, InCallFromCallback
  <2> QED
    BY <1>s, <2>1, <2>2, <2>3 DEF Served
<1> QED
  BY <1>2, <1>3, <1>4, <1>5, <1>6 DEF CallbackCall

\* pkt_recvr_job_cbk and eve_dis_process_task_post_call: the job ends only when it has
\* found the queue empty.
LEMMA DispatcherPkt ==
  ASSUME Inv, Inv', Owned, Owned', PktNotStranded, DispatcherStep
  PROVE  PktNotStranded'
<1>s. Served /\ (Served' => PktNotStranded')
  <2>1. Served
    BY ServedIs
  <2>2. (PktNotStranded <=> Served)'
    BY ServedIs, PTL
  <2> QED
    BY <2>1, <2>2
<1>0. /\ Dis \in Threads /\ pc \in [Threads -> Places] /\ gl \in GlType
      /\ arg \in [Threads -> Tasks \cup {NULL}] /\ PktTask \in Tasks
      /\ task[PktTask].task_type = "TASK_PKT_Q_JOB"
  BY HeldIs, ThreadsAre, NodesAre DEF Owned, KindsOK
<1>1. CASE DispatcherSleeps
  <2>1. /\ pc[Dis] \in {"loop", "woken"} /\ gl' = gl /\ pktq' = pktq /\ arg' = arg
        /\ \A u \in Threads : u # Dis => pc'[u] = pc[u]
    BY <1>0, <1>1 DEF DispatcherSleeps
  <2>2. Pending => Pending'
    BY <1>0, <2>1 DEF Pending, InCallFromCallback
  <2> QED
    BY <1>s, <2>1, <2>2 DEF Served
<1>2. CASE Dispatch
  <2> DEFINE t == gl.right[QHead]
  <2>1. /\ pc[Dis] \in {"loop", "woken"} /\ pc'[Dis] = "run" /\ t # NULL
        /\ \A u \in Threads : u # Dis => pc'[u] = pc[u]
        /\ gl' = remove_glthread(gl, t) /\ current_task' = t /\ arg' = arg /\ pktq' = pktq
    BY <1>0, <1>2 DEF Dispatch, FirstTask, Dequeued, dequeue_glthread_first
  <2>2. t \in Tasks /\ ~IsUnlinked(gl, t)
    <3>1. t \in Tasks /\ gl.left[t] = QHead
      BY <1>0, <2>1, NodesAre DEF GlType, Owned, ListOK, Listed
    <3> QED
      BY <3>1, NodesAre DEF IsUnlinked
  <2> HIDE DEF t
  <2>3. CASE t = PktTask
    BY <2>1, <2>3 DEF PktNotStranded
  <2>4. CASE t # PktTask
    <3>1. IsUnlinked(gl', PktTask) <=> IsUnlinked(gl, PktTask)
      BY <1>0, <2>1, <2>2, <2>4, RemoveListed DEF Owned, ListOK
    <3>2. Pending => Pending'
      BY <1>0, <2>1 DEF Pending, InCallFromCallback
    <3> QED
      BY <1>s, <2>1, <3>1, <3>2 DEF Served
  <2> QED
    BY <2>3, <2>4
<1>3. CASE CallbackCall
  BY <1>3, CallPkt
<1>4. CASE CallbackTakesPkt
  <2>1. pc'[Dis] = "run" /\ current_task' = PktTask
    BY <1>0, <1>4, HeldIs DEF CallbackTakesPkt, InCallback, Owned, KindsOK, DisInCallback
  <2> QED
    BY <2>1 DEF PktNotStranded
<1>5. CASE CallbackReturns
  <2>1. /\ pc[Dis] = "run" /\ pc'[Dis] = "post" /\ gl' = gl /\ pktq' = pktq /\ arg' = arg
        /\ current_task' = current_task /\ \A u \in Threads : u # Dis => pc'[u] = pc[u]
    BY <1>0, <1>5 DEF CallbackReturns, InCallback
  <2>2. Pending => Pending'
    BY <1>0, <2>1 DEF Pending, InCallFromCallback
  <2> QED
    BY <1>s, <2>1, <2>2 DEF Served
<1>6. CASE PostCallSchedules
  <2>1. /\ pc[Dis] = "post" /\ pc'[Dis] = "sched" /\ gl' = gl /\ pktq' = pktq
        /\ arg'[Dis] = current_task
        /\ \A u \in Threads : u # Dis => pc'[u] = pc[u] /\ arg'[u] = arg[u]
    BY <1>0, <1>6 DEF PostCallSchedules
  <2>2. Pending => Pending'
    BY <1>0, <2>1 DEF Pending, InCallFromCallback
  <2> QED
    BY <1>s, <2>1, <2>2 DEF Served
<1>7. CASE PostCallFinishes
  <2>1. /\ pc[Dis] = "post" /\ gl' = gl /\ pktq' = pktq /\ arg' = arg
        /\ current_task # PktTask
        /\ \A u \in Threads : u # Dis => pc'[u] = pc[u] \/ pc[u] = "syncwait"
    BY <1>0, <1>7 DEF PostCallFinishes, Finished, WaitsFor
  <2>2. Pending => Pending'
    BY <1>0, <2>1 DEF Pending, InCallFromCallback
  <2> QED
    BY <1>s, <2>1, <2>2 DEF Served
<1>8. CASE PostCallStops
  <2>1. /\ pc[Dis] = "post" /\ gl' = gl /\ pktq' = pktq /\ arg' = arg
        /\ current_task = PktTask => pktq = <<>>
        /\ \A u \in Threads : u # Dis => pc'[u] = pc[u]
    BY <1>0, <1>8 DEF PostCallStops, RunsAgain
  <2>2. pktq # <<>> /\ Pending => Pending'
    BY <1>0, <2>1 DEF Pending, InCallFromCallback
  <2> QED
    BY <1>s, <2>1, <2>2 DEF Served
<1> QED
  BY <1>1, <1>2, <1>3, <1>4, <1>5, <1>6, <1>7, <1>8 DEF DispatcherStep

\* No step strands a packet.
LEMMA NextPkt ==
  ASSUME Inv, Inv', Owned, Owned', PktNotStranded, [Next]_vars
  PROVE  PktNotStranded'
<1>1. CASE UNCHANGED vars
  BY <1>1 DEF vars, PktNotStranded, InCallFromCallback
<1>2. CASE Next
  BY <1>2, LibraryPkt, CallPkt, DispatcherPkt DEF Next
<1> QED
  BY <1>1, <1>2

-----------------------------------------------------------------------------
\* event_dispatcher_schedule_task, task_cancel_job, eve_dis_process_task_post_call: for
\* any threads and tasks, receiver threads included, as long as no two threads are
\* between the unlocked test of the packet job's glue and its insertion together, and no
\* command wakes up before its time, the list stays a list, its assertion holds, no task
\* is freed that it or the dispatcher can reach, and a command goes on when its job is
\* done.
THEOREM TasksCorrect ==
  ASSUME NoEarlyReturn
  PROVE  Spec /\ []NoOverlap => []TasksSound
<1>1. Inv /\ Owned /\ NoOverlap /\ [Next]_vars => (Inv /\ Owned)'
  BY NextInv, NextOwned
<1>2. Inv /\ Owned => TasksSound
  BY OwnedSound
<1> QED
  BY InitInv, InitOwned, <1>1, <1>2, PTL DEF Spec

\* pkt_q_enqueue, pkt_recvr_job_cbk: under the same condition, a packet that a receiver
\* thread or a callback puts into the queue never waits there with nobody on the way to
\* serve it.
THEOREM PacketsServed ==
  ASSUME NoEarlyReturn
  PROVE  Spec /\ []NoOverlap => []PktNotStranded
<1>1. Init => PktNotStranded
  BY DEF Init, PktNotStranded
<1>2. Inv /\ Owned /\ PktNotStranded /\ NoOverlap /\ [Next]_vars
        => (Inv /\ Owned /\ PktNotStranded)'
  BY NextInv, NextOwned, NextPkt
<1> QED
  BY InitInv, InitOwned, <1>1, <1>2, PTL DEF Spec
=============================================================================
