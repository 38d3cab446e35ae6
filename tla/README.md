# Verification of the pseudo-IGP protocol stack

This directory holds TLA+ models of the network stack in this repository, the
TLC configurations that check them on small instances, and proofs, checked by
TLAPS, of theorems about them for every size.  The program simulates a topology
of routers in one process: an event dispatcher runs every protocol action as a
job on one thread, a timer wheel on another thread makes jobs of expired timers,
a receiver thread makes jobs of UDP datagrams, a command line on a fourth hands
its commands over as jobs, and on top of that Layer 2, ARP, Layer 3, shortest
paths, an IS-IS-like link-state protocol and two older protocols are implemented.

Every definition is translated from the C source; `PROJECT.json` maps each to
the file and the lines it stands for.  Names are those of the source wherever
there is one.

## The system

| Component | State it keeps | Operations | What makes it correct |
|---|---|---|---|
| Glue thread list (`gluethread/`) | `left`/`right` of nodes inside the objects | init, add next/before/last, priority insert, dequeue, remove, delete list, iterate | the pointers spell the intended sequence; equal keys stay in order of insertion |
| Event dispatcher (`EventDispatcher/`) | task list, packet queue, `ev_dis_state`, `signal_sent`, current task | create, schedule, cancel and repeat jobs; synchronous jobs; packet queue | no lost wakeup, no job lost or run after it was freed, list intact, a command returns when its job is done and not before |
| UDP links (`comm.c`) | sockets, the packet job | the receiver thread enqueues, `send_pkt_out` sends or enqueues | no packet left in a queue whose job is not scheduled |
| Wheel timer (`libtimer/WheelTimer.c`) | slots, cycle, reschedule list, opcode of each element | register, reschedule, de-register, tick | fires exactly when due; nothing passed over, no recurrent timer dropped |
| POSIX timer library (`libtimer/timerlib.c`) | state, threshold, back-off, time left | start, pause, resume, reschedule, restart, cancel, delete; the callback | threshold kept, time kept over a pause |
| IS-IS adjacencies (`isis_adjacency.c`) | adjacency records, two timers each, `adjacency_up_count` | hello received, expiry, deletion | one timer, the right one; no impossible transition; dead neighbours go |
| IS-IS interfaces (`isis_intf.c`) | hello timer, adjacency list, transmit queue | enable, disable, up/down, address changes | an interface that qualifies sends hellos; nothing is left of one that is disabled |
| Reconciliation, LSP generation (`isis_flood.c`, `isis_pkt.c`) | phase flag and timer, generation task, sequence number | enter, prolong, leave; schedule, generate | the LSP follows the adjacencies |
| LSP database and flooding (`isis_lspdb.c`, `isis_flood.c`) | AVL tree of LSPs with reference counts and life-time timers, transmit queue per interface | install (the eight events of its table), remove, flood, on-demand flood | newest wins, exact reference counts, no assertion on numbers fails |
| IS-IS life cycle (`isis_rtr.c`) | pending-work flags, overload data | init, shutdown, overload | the LSP tells the overload; a shutdown ends after its purge LSP |
| Interface groups (`isis_intf_group.c`) | tree of groups, members | join, leave, choose the active member | each LSP once per neighbour |
| Layer-2 map (`isis_layer2map.c`) | ARP entries of protocol IS-IS | map, unmap | no entry outlives its adjacency |
| Layer 2 (`Layer2/`) | interface modes, VLANs, MAC table | qualify, tag, learn, forward | VLAN isolation; what is connected hears |
| ARP (`arp.c`) | entries, pending packets, expiry timers | resolve, answer, expire | pending packets leave once, with the right address, and do not wait for ever |
| Layer 3 (`Layer3/layer3.c`) | routes | look up, forward, local delivery | forwarding follows the tables and ends |
| Route notification (`rt_notif.c`) | flags and lists of changed routes, its jobs | notify, flash | each change told to each subscriber; no route freed while a list holds it |
| SPF (`spf_algo/`) | per-node results, jobs | compute, install | the tables are those of the shortest paths |
| Neighbourship management (`nbrship_mgmt/`) | hellos, adjacencies, trap rules | enable and disable, hello, expiry | adjacencies follow the neighbour's hellos |
| DDCP (`ddcp/`) | query numbers, replies | query, flood, reply | a flood ends; the originator gets the present answers |
| Memory manager (`LinuxMemoryManager/`) | blocks of pages, list of free ones | allocate, split, free, merge | blocks tile the page and no two free ones touch |
| Command parser, command trees (`CommandParser/`, `nwcli.c`, the protocols' command files) | cursor, buffer of values with a checkpoint | a line, modes, negation, loading a file | a handler gets the values of the way the user went, and fits its tree |
| FSM library (`FSMImplementation/`) | tables of transitions | execute, validate an address | each machine decides its language |
| Topologies (`topologies.c`, `graph.c`, `net.c`) | nodes, interfaces, links, MAC addresses | the build functions | links join what fits; addresses are distinct |

They interact in three ways.  *Jobs*: everything a protocol does is a callback
that the dispatcher runs alone, so callbacks do not interleave with each other;
what interleaves is the order of jobs.  *Threads*: the wheel, the command line
and the receiver call the dispatcher's library from threads of their own, under
a mutex that does not cover everything.  *Captured pointers*: a timer's job
carries the argument its timer was registered with; between the expiry and the
job other jobs run, and may stop the timer or free what the argument points to.

The behaviours that are hard to test follow from that: the unlocked tests of
the dispatcher and of the wheel, jobs that arrive late, counters and lists that
several handlers keep, timers that must neither be lost nor doubled, tables of
different routers that are of different ages, and protocol events in an order
nobody wrote a test for.  `PROJECT.json` lists them as hazards, each at its line
with the properties that watch it.

## Modules

| Module | What it models |
|---|---|
| `Glthread` | the list operations of `glthread.c` on `left`/`right` pointers, as operators; used by the dispatcher |
| `GlthreadList` | a system that applies them in any order next to the sequence they should represent |
| `EventDispatcher` | the dispatcher with its threads, at the granularity of its critical sections |
| `WheelTimer` | the wheel thread and an application that registers, reschedules and gives up timers |
| `TimerLib` | one timer of `timerlib.c` with its callback thread |
| `IsisAdjacency` | one router's adjacencies, timers, jobs, interfaces, reconciliation, LSP generation and layer-2 map |
| `IsisIntfGroup` | the interface groups of one router and the interfaces an LSP is flooded on |
| `IsisLspDb` | one router's LSP database, LSP generation, transmit queues and shutdown, among LSPs that the network delivers as it likes |
| `IsisOverload` | overload, its time limit and timer, over shutdowns and restarts |
| `L2Switch` | switches between hosts, while the operator changes modes, VLANs and addresses |
| `Arp` | the ARP table of one node with the packets that wait in it and the IS-IS entries |
| `ArpTable`, `LibTimer`, `DdcpNet`, `LibList`, `LibMemory`, `LibGroups` | `Arp`, `TimerLib`, `Ddcp`, `GlthreadList`, `MemoryManager` and `IsisIntfGroup` as an `INSTANCE` with their properties, as runs and proofs use them; `LibMemory` has the refinement of `Heap` |
| `RouteTable` | the routing table of one node, route notification and flash, the address commands |
| `RouteView` | abstract: what notification promises a subscriber; `RouteTable` implements it |
| `SpfNetwork` | a network whose routers calculate, install and forward while metrics and interfaces change |
| `Nmp` | neighbourship management on the two ends of a link |
| `Ddcp` | data collection over a network |
| `MemoryManager` | the pages and blocks of one family |
| `Heap` | abstract: allocated pieces that never overlap; `MemoryManager` implements it |
| `NetworkCommands` | the command trees as data, and what each handler reads and does |
| `CommandTree` | the parser that walks them |
| `Fsm`, `Topologies` | the machines and `ip_validate`; the topologies and the calls that build them |
| `MC*` | constants of the small instances |
| `*Proofs` | inductive invariants and theorems |

`MCLibraries`, `MCLayer2`, `MCLayer3` and `MCLayer5` put several modules into one
run: an initial state chooses a part and the others stay as they are.  The parts
do not interact in them, and their properties are those of the parts.  One part
is extended (`L2Switch`, `RouteTable`, `Nmp`, ...), others are instances with names
and variables of their own, so that a property is the same definition in a run
and in a theorem.

**EventDispatcher.**  A section between `EV_DIS_LOCK` and `EV_DIS_UNLOCK` is one
step.  The two tests of `event_dispatcher_schedule_task` that read the glue
before the lock (lines 54 and 59) are steps of their own, and so is the test of
`pkt_q_enqueue`.  Tasks are memory that is allocated and freed; the list is
`Glthread`'s pointers, so that a double insertion does to them what it does in C,
including the loop at line 63 that then never ends.  A callback makes up to
`MaxCalls` library calls in any order: it may create jobs, cancel one, repeat
itself, send packets and take packets from the queue.

**WheelTimer.**  Time is counted in ticks.  The list of a slot, which
`glthread_priority_insert` sorts by cycle, is the set of its elements, walked
from the smallest cycle.  `_timer_reschedule` is three steps: opcode and interval
are written before the mutex is taken, and the element is linked under it without
a look whether the wheel thread has freed it since.  Where the code links a freed
element the model does too, and stops there, because the process is undefined.

**IsisAdjacency.**  Every handler is one step, because the dispatcher runs it
alone.  Expiry of a timer and the job it queues are two steps, with anything in
between; addresses of adjacencies are re-used after `free`.  A job that finds
its adjacency freed, or hands `NULL` to the timer library, ends the model with
the reason in `crashed`.  `isis_change_adjacency_state` is modelled with the
missing `break` it has at line 483.  Left out: statistics, tracing, shutdown (in
`IsisLspDb`), groups (in `IsisIntfGroup`).

**IsisIntfGroup.**  Adjacencies here are a list with a state each; the events
are those `IsisAdjacency` makes.  `disturbed` says that a command has moved
members of dynamic groups, or a late job has deleted an adjacency that was up,
after which the first member of a group may be a dead one.  Assertions end the
model.  `crashed = "assert"` is that of the switch to dynamic groups or, when the
protocol ends and cleans up, that no group is left (`isis_rtr.c:78`); neither ever
fails.  `crashed = "no group"` is `assert(intf_grp)` of `isis_intf_group.c:457`, which
does fail on a LAN, where an interface with two neighbours has changed its group,
and in groups that are disturbed, also on the way to the end of the protocol.  The
property allows it there only.  Loops over the
interfaces (`built`, the shutdown) are recursive functions; the loop that deletes
all adjacencies of an interface is what it does in the end (`AllDeleted`), because
their neighbours differ.

**IsisLspDb.**  `isis_install_lsp` with its eight events, the functions that
queue, send, age and remove LSPs, and the shutdown.  A handler is one step, built
from operators on a record of the whole state that are composed in the order of
the calls in the C source.  An LSP is its address with the fields of
`isis_lsp_pkt_t`; `db`, `self_lsp_pkt` and the transmit queues hold addresses, so
that reference counts mean something, and `free` makes an address available
again.  The network is an environment: a received LSP is any that says something
possible, an own one any with a number this router has already used, before a
restart as well (`highest` outlives both shutdown and crash).  So loss,
duplication, delay and reordering are all in it.  `AdjacencyCreated`, `...Up`,
`...Down` and `...Deleted` are what `IsisAdjacency` does to an interface, with
the adjacency counter and the reconciliation timer abstracted to a choice.  An
assertion that fails, a `NULL` that is used or memory that is used after `free`
ends the model with the reason in `crashed`.  Left out: traffic engineering
links, the size limit of an LSP, late jobs of the periodic and reconciliation
timers.

**IsisOverload.**  Commands and the timer's job are one step each; the wheel fires
between any two.  A timer that is changed is moved only at the end of a tick, and
may still fire in it (`late`): with its node if it was rescheduled, with `NULL` if
it was given up.  `meddled` is set once a command has come between a timer and
its job, or a time limit was set during a shutdown: the job then lifts a newer
overload, follows `NULL`, or the shutdown fails the assertion of
`isis_check_delete_node_info`.  All this is in the model.

**L2Switch and Arp.**  A frame in flight is in the dispatcher's packet queue, which
is a stack, and the receive job drains it before a command runs; hosts may send in
between.  `l2switch.c` also sends a flooded or known frame out of the interface it
came in by, if the table says so (lines 274-302): when hosts do not take turns a
frame can turn a learnt address around, which is why two properties speak of
`overlap`.  VLAN tags have the signed width of `tci_vid`.  The commands for modes
and VLANs are compiled out of `nwcli.c`; their operations are modelled as the
handlers would call them.  In `Arp` an entry is an address that `malloc` gives
out, and the expiry job carries it.  A MAC address is six bytes, which `arp.c:277`
copies with `strncpy` and `arp.h:66` compares with `strncmp`: `Cut` is what is left of
an address up to its first zero byte.  Four of the bytes are a hash, so that an
address which is not its own cut can come up, and the instance has one.

**RouteTable.**  A route is an object in up to three lists.  A handler is one step:
what it asks of the table is a sequence of additions, deletions and clearings, and
`Course` is the table before and after each of them, as a recursive function.  So an
address that changes, or a calculation that installs its routes, is done at once,
as the dispatcher does it.  Nothing in the repository calls the flash, which is
modelled as its interface offers it.

**SpfNetwork.**  A change queues one calculation per node; between them the tables
are of different ages.  A packet's hops follow one another once the receive job
has begun.  Links have costs and may be parallel.

**Nmp and Ddcp.**  A job of `Nmp` carries a pointer to the hello or the key it was
registered with; one that follows a freed pointer ends the model.  In `Ddcp` the
handling of one packet is a step, newest first.

**CommandTree.**  A line is a way through the tree of `NetworkCommands`; which
parameter a word means is abstracted.  Every command tree of the program is there
as data, from the registration calls, next to what its handler takes from the
buffer, what it uses unseen, and what operation each command code leads to with
and without `no`.

## Runs

| Run | Instance | Shows |
|---|---|---|
| `libraries` | a list head and five nodes, two keys equal; two memory pages of 8 units with structures of three sizes; every command alone and, in modes, together with a `do` command; short inputs of the machines; timers with thresholds, pauses and back-off; seven topologies; three interfaces in groups, two to one neighbour, or a LAN; two overload time limits | lists spell their sequence; blocks are sound and implement `Heap`; handlers get what they need; machines decide their languages; thresholds and pauses are kept; topologies fit and MAC addresses differ; groups agree, flood once per neighbour, and none is left after a shutdown; the LSP tells the overload |
| `dispatcher_live` | timer and command-line threads, three tasks, a packet, one library call per callback | list and memory safety, no early return of a synchronous command; every job runs, every command returns, every packet is delivered |
| `dispatcher_receiver` | timer and receiver threads, two packets, spurious wakeups | no lost wakeup and no stranded packet, although the races below are in the model |
| `wheel` | two slots, a recurrent and a one-shot timer, intervals of 1 and 3 ticks, 5 ticks | no timer overdue or early, no recurrent one dropped; a freed element is reached by one race only, which the code has (see below) |
| `adjacency` | two neighbours on a link, two addresses, a counter modulo 4, two queued jobs | timers, ARP entries, LSP and hellos are consistent, no assertion fails |
| `adjacency_live` | one neighbour, two addresses, two interface indexes | a silent neighbour is removed |
| `adjacency_upcount` (fails) | one neighbour | INIT to DOWN wraps the counter, and the first adjacency up does not start reconciliation |
| `lspdb` | two interfaces, LSPs of this router and of one other, three addresses, numbers up to 2 | reference counts are exact, no transmission is lost, no assertion on numbers fails, newest wins, database, timers and nodes agree, a shutdown ends only after the purge LSP |
| `layer2` | two switches with a trunk, three hosts in two VLANs, two frames, two commands; an ARP table with two entries, one neighbour's IP address, two MAC addresses of which one begins with a zero byte, two packets | isolation, MAC tables, reachability; entries, pending packets and frames agree, MAC addresses as far as `strncpy` copies them, and packets do not wait for ever |
| `layer3` | a triangle with parallel links, two changes; a table with two routes and prefixes, one client, two flash requests | shortest paths after the calculations, delivery in calm, no endless packet; lists and flags agree, `RouteView` is implemented, subscribers are told |
| `layer5` | both ends of a link, one hello on its way; a triangle with two originators and two changing interfaces | hellos and traps follow the configuration, neighbours are forgotten and found; floods end and answers are present |
| `spf_ecmp` (fails) | six routers, four first hops at equal cost | the union of next hops loses some for which there is room |

The two runs that fail each check one property that a comment or `Notes.txt`
states; `PROJECT.json` quotes the line under "findings".

*Properties are compound* where their parts speak of one picture: `TasksSound`,
`TimersSound`, `QueuesSound`, `DbSound`, `EntriesSound`, `ForwardingSound`,
`RoutesSound`, `GroupsSound`, `OverloadSound`, `CommandsDo` and others are
conjunctions of parts that are named and explained in their modules.

*Bounds.*  Every bound is a constant.  `MaxCalls` and `MaxRecv` limit what one
callback or thread does, not how often callbacks run; tasks and packets are
re-used, so behaviours are unbounded in length.  The races involve two threads
and one task, the list faults two neighbours in the list and the task that is
inserted: three tasks are one more than any of them needs.  In the wheel an
interval of 3 with two slots gives elements one and two cycles ahead, and 5
ticks pass the turn of the wheel twice; the theorems remove the bound.
`MaxJobs` = 2 lets a delete and an expiry job wait together behind a hello;
`CountMod` = 4 lets the counter wrap and is as good as 2^16 because the code
compares it with 0 and 1 only.  In `lspdb` two numbers let an LSP be older than,
equal to and newer than the one in the database, three addresses hold an
outdated LSP that is still queued beside its successor and one of the other
router, and `MaxQueue` and `MaxPending` = 2 let an LSP wait on both interfaces, or twice
in one queue when it was asked for again.  Of the free addresses one stands for
all (`Free`), which changes nothing up to the symmetry of addresses.  In `layer2`
two frames are one that teaches and one that uses what was learnt, and two
commands can move a port out of a VLAN and back; one IP address is enough for the
entry that ARP and IS-IS share, as entries of different addresses have nothing to do
with each other, and of two MAC addresses one has a zero byte in front, of which
nothing is copied.  In `layer3` a TTL of 3 is
one hop more than the longest shortest path, two changes let a calculation run
between the jobs of another, and three jobs per change keep the tables of
different ages; one interface and two prefixes let a direct and an added route
meet.  In `layer5` one frame and two jobs let a hello and an expiry wait
together; two queries from different routers let answers of one come after the
other.  In `libraries` three interfaces are two in one group and one outside; the
memory page of 8 units has room for two blocks and a remainder too small for a
header.  `CHECK_DEADLOCK FALSE` is given where the instance may stop: after an
abort or a crash, when a bounded supply of commands, ticks, frames or packets has
been used up, or when all jobs are done.  Symmetry is used in the runs `adjacency`
and `lspdb`, which check no liveness property, over values that the models treat
alike: addresses of memory, the interfaces of `lspdb`, and the neighbours of
`adjacency`.

*Fairness.*  Dispatcher: a thread that is inside the library is scheduled again,
and the dispatcher's own steps are; nothing forces an application to call the
library.  Everywhere else: queued jobs run and queued packets are received, weak
fairness, which the dispatcher's liveness properties justify.  Timers expire:
in `IsisAdjacency` those of a neighbour that has fallen silent, in `Arp` those of
entries, in `Nmp` those of hellos and adjacencies.  This is strong fairness, because
the model's bound on queued jobs, which the code does not have, can disable a timer
for a while; that the wheel fires what is due is what `wheel` shows and its theorems
prove.

*Refinements.*  `RouteTable` implements `RouteView` with the table as it is looked
up for `rib` and the routes in the notify list for `stale`.  `MemoryManager`
implements `Heap` with the blocks in use for `live`.

## What the checks found

The first two are findings with a run of their own; the others came up while
modelling, are in the models as the code has them, and no property promises
otherwise.  They are listed for whoever works on the code.

* *Adjacencies.*  INIT to DOWN falls into the case of UP (`isis_adjacency.c:483`).
  A late job of the delete timer deletes an adjacency that has left DOWN
  (line 26); a late expiry job hands `NULL` to the timer library.
* *Shortest paths.*  The union of next hops drops some (`spf.c:191`).  `no metric`
  sets the default but compares the value that was typed, so a change may pass in
  silence (`nwcli.c:636-650`).
* *Dispatcher.*  With the receiver thread beside the callbacks the assertion at
  line 59 can fail.  A spurious return of `pthread_cond_wait` (line 81) frees a
  queued task.
* *Wheel.*  Between opcode and interval (line 229) the assertion on the interval
  can fail.  A timer given up in its last tick still fires, with `NULL`.  A
  de-registration writes its opcode while an earlier call for the same timer waits
  in the list: the wheel thread frees the element at once, and the call then writes
  to it and links it (lines 229-236).
* *Life cycle.*  A shutdown aborts when fake nodes are left in the traffic
  engineering database, never ends when the purge LSP is queued nowhere, and
  fails an assertion when a time limit for overload was set while it was pending.
  The overload job tests nothing (see `IsisOverload`); stopping the timer leaves
  `timeout_val`.
* *Groups.*  `assert(intf_grp)` can fail (`isis_intf_group.c:457`) on a LAN or in
  disturbed groups, in a shutdown as well; only the first
  adjacency of an interface decides whether it is active; deleting a static group
  leaks it.
* *Layer 2.*  An ARP entry that is not resolved is used when the outgoing interface
  is known (`layer2.c:253`).  MAC addresses with a zero byte in their hash are cut
  when a reply fills a pending entry (`arp.c:277`), so that frames go to an address
  nobody has, and a new address that differs from the old behind a zero byte is
  not taken over (`arp.h:66`).  VLAN numbers from 2048 on read back negative.
  `build_simple_l2_switch_topo` gives its access ports no VLAN, so its switch
  passes nothing.
* *Layer 3.*  A route deleted between a flash request and the last flash job fails
  the assertions at `layer3.c:317-319`; a second client is served the snapshot of
  the first (`rt_notif.c:181`).  An address on a subnet with a static route
  compares `NULL` (`layer3.c:592`); removing one interface removes a route that two
  share.  Prefixes are compared as text (line 406), and transit packets to a
  directly connected subnet are dropped (lines 203-211).
* *Layer 5.*  `Nmp`: the key of an adjacency leaks, a queued hello job follows a
  freed pointer, and a late expiry deletes a fresh adjacency.  `Ddcp`: a reply of
  another size is freed with a wrong size (`ddcp.c:399`), disabling the protocol
  cleans nothing up, a periodic query uses up one number it never sends, and
  replies of routers that have become unreachable stay.
* *Memory manager.*  A second page of families is kept in a local variable only, so
  that later families are lost (`mm.c:317-322`); `total_memory_in_use_by_app` never
  goes down, and there is no lock.
* *Command line.*  Loading a file within a mode resets the buffer and the
  checkpoint (`parser.c:540`); `run spf all` reads a name that was never set
  (`spf.c:684`); choosing a command from the shown history creates a synchronous
  job inside a job, which never returns; a value that is the beginning of a
  sibling command is taken for it; any beginning of `repeat` repeats.  `ddcp
  interface all` does nothing, up/down and trace flags ignore `no`, and the error
  path of two handlers prints the name of a `NULL` interface.
* *Timer library.*  A one-shot timer that is paused and resumed fires twice; one
  cancelled in its own back-off callback is revived, and one deleted there fails an
  assertion; with less than a millisecond left a pause starts it over.
* *Machines.*  Inputs longer than the buffer are judged by their beginning, and
  empty fields of an address are skipped, so `1..2.3.4` is accepted.  `ip_validate`
  copies an address with `strncpy` and no terminator (`std_fsm.c:554`): of 16
  characters or more, which a line of the command line may have, the first 16 are
  judged together with what the stack holds behind them, so that
  `255.255.255.255.1` may be accepted.  `MachinesRight` promises the right answer for
  shorter ones, and for longer ones only that what is wrong within the first 16 is
  refused.

## Proofs

TLAPS checks the theorems for every value of the constants that satisfies the
named assumptions.  Those of a component stand in its module and TLC evaluates
them in the runs: sets of threads are disjoint, a wheel has a slot, intervals are
positive, `NULL` is no other value, cutting a MAC address a second time changes
nothing, memory that is counted is finite
(`DispatcherAssumption`, `WheelAssumption`, `AdjacencyAssumption`,
`LspDbAssumption`, `ArpAssumption`, `TimerAssumption`, `RouteAssumption`,
`ListAssumption`; for the overload `OverloadAssumption` in its proof module).  Six
say more.  `MemoryAssumption`: a block has a header, and a page is larger than its
own header and one of a block.  `DdcpAssumption`: a link has two nodes of the network
for ends, and every node has an interface for every destination.
`GroupsAssumption`: the neighbours that can be on a link are finitely many, and
`NULL` is no group, interface or list.
`TreeAssumption`: the links of the switches form a tree, with `Toward` its
directions, because the program has no spanning tree in its build.
`SwitchAssumption` gives VLAN tags their 12 bits.  `NmpAssumption` has more keys
than waiting jobs, because `calloc` always finds room for one more.  Two theorems have
a condition of their own, `NoEarlyReturn` with `NoOverlap`, and `VlansOfSwitches`, explained below.

* `EventDispatcherProofs`: types, and that no wakeup is lost.  The invariant
  adds to the type invariant that the places of the threads agree with their
  arguments, that a current task exists while a callback runs, and `SleepOK`:
  while the dispatcher sleeps the list is empty *and* `signal_sent` is down.  It
  is the second half that makes the first inductive, and the reason why the
  stale flag of line 167 would lose wakeups.  It holds with racing receivers and
  spurious wakeups.

  `TasksSound` and `PktNotStranded` are proved with receiver threads, of which the
  program always has one, for every behaviour with `[]NoOverlap`: no two threads are
  at the same time between the test of the packet job's glue (line 54) and its
  insertion under the mutex (line 63).  In that overlap the first is false of the
  code: the assertion at line 59 fails, or the job is linked twice.  The theorem says
  that it is the only race the unlocked tests leave; all others, of the test of
  `pkt_q_enqueue` and of line 54 against enqueuing, dispatching, draining and
  repeating of the packet job by other threads, are in it.  `PktNotStranded` survives
  the overlap too as far as run `dispatcher_receiver` can tell, but its proof rests on
  the list being one.  `NoEarlyReturn` excludes spurious wakeups of a command that
  waits, not of the dispatcher where there are no commands.  The argument is
  ownership: a task other than the packet job is linked, or free, or in the hands of
  one thread, which alone may insert it, and the packet job is unlinked whenever a
  thread is about to insert it (`Owned`); every linked task has been handed over by
  somebody who knows of it (`Listed`).  The pointers are not walked: the nodes some
  node points to are closed under `right`.
* `WheelTimerProofs`: types, `NeverOverdue`, `ElemsKept` and `FiresWhenDue`.  The
  argument is arithmetic: an element's slot and cycle are quotient and remainder
  of one absolute slot number (`DivMod`, `SlotUnique`), the hand advances by one,
  so an element at the hand is due exactly if its cycle is the current one.
  `ElemsKept` says of freed elements that no slot leads to one, and that the list
  does after one race only (`FreedLinkedOnly`); and that no recurrent timer is
  dropped.  The invariant says what the wheel thread has still to do with each element between
  its steps.
* `IsisAdjacencyProofs`: every safety property of the passing run `adjacency`.
  The properties are not inductive alone: a refresh may only happen if a timer is
  there (`TimersMatchState`), the phase may only be prolonged if its timer is
  (`GoodNode`), unmapping is complete only if no entry exists while mapping is
  off (`GoodNode`), and hellos may only be started where none run (`GoodIntf`).
  `Changeable` states what a caller of `isis_change_adjacency_state` owes it, and
  `ChangeKeeps` what it gives back; each handler is then shown to be such a call.
* `IsisLspDbProofs`: all four properties of the run `lspdb`.  A handler is a chain of
  operators on the record of the state, between which the invariant is not true of
  the variables: the handler holds references, or has given up one that is still
  counted.  `Sound(h, x)` and `Current(h, x)` are the invariants of a record `h` with
  `x[p]` such references to `p`; every operator has a lemma from one pair to the next,
  and every handler starts and ends with none.  Because the model's bounds are
  checked when a step ends, the lemmas speak of records that fit them, and say of
  every operator that makes something longer that what it started from did.  The only
  strengthening is `Stopped`: a protocol that has ended holds nothing, from which
  `isis_init` starts anew.  `NewestWins` and `ShutdownAfterPurge` are facts about the
  same chains.
* `LibrariesProofs`: three libraries.  *Overload*: `OverloadSound` is inductive as it
  stands.  `Kept` is what a handler owes `Becomes`, the part that all commands share,
  and `BecomesKeeps` what follows; the timer's own steps are then done one by one.
  *Lists*: `Represents` is proved from `Spells`, which says of each place of the
  sequence what the pointers there are, both ways, and that a node outside keeps
  none.  What every operation does to the pointers is one of two patterns, a node put
  between two (`IsAdded`) or taken out (`IsCut`), and these are shown to spell the
  longer and the shorter sequence.  A walk is the least set closed under a pointer,
  so that what it reaches needs no induction but the least place it would miss.
  *Memory*: the blocks of a page are laid end to end from its header to its end
  (`Laid`), no two free ones side by side (`Merged`), every page has a block in use,
  and the free list has each free block once, biggest first (`Listed`).  An allocation
  takes and may split one block (`TakenFrom`, `SplitFrom`), and a release merges with
  the next and with the previous (`NextDone`, `NextGone`, `PrevFree`).  From that
  `BlocksSound` follows, and that every step is one of `Heap` (`MemoryImplementsHeap`):
  the pieces of cells in use are of the size asked for and overlap nothing.
* `L2SwitchProofs`: isolation needs that the tag of a frame is the VLAN it entered,
  through every hop and every change of the operator.  That tables point to where
  the hosts are, while hosts take turns, needs three facts about the copies of the one
  frame on its way: it comes from where its sender is, the switch before knew the
  sender, and that switch would not have sent it here had it known better.  That connected hosts
  hear needs that for each host still to hear a copy is on its way to it
  (`PromisesKept`); this is proved for VLAN numbers up to 2047 (`VlansOfSwitches`), as
  the others read back negative and their frames are dropped.
* `Layer5Proofs`: three protocols above layer 3.  *Neighbourship*: `ActiveIsSound` is
  inductive.  What an operation makes of the data of one interface is a lemma each;
  that a key can be found for an adjacency is a count of the waiting jobs.
  *Data collection*: `Collected` speaks of the time when nothing is on its way.  The
  invariant says of any time that nobody is ahead of an originator's numbers
  (`NoneAhead`) and, of an originator since whose last query nothing has changed, that
  what it gets is present data (`IsPresent`) and that what a router has still to see,
  or the originator to get, is on its way (`IsUnderWay`).  The routers a flood reaches
  are again a least closed set.
  *Interface groups*: the lists of adjacencies and interfaces are described by their
  elements and by what comes before what (`Before`), not by positions.  `Good` holds
  always: an interface is in the list of its group and in no other, once, its
  adjacencies are to different neighbours on the link.  As long as nothing has
  `disturbed` the groups, an interface is in the group its neighbour asks for
  (`Wanted`) and, on links of two routers, those with an adjacency that is up come
  first (`LiveFirst`, `Placed`).  That the loop which rebuilds the flood list takes
  one member for each group is shown by the least interface it would fail for.
  When the protocol ends, `isis_intf_grp_cleanup` frees what is left; that the way
  there fails no assertion on such links follows from what each interface leaves
  behind (`DisabledIs`).
* `TablesProofs`: three small tables.  *ARP*: whoever waits in an entry is marked so
  and goes to its address, and whatever address an entry has was announced, or is what
  `strncpy` left of one that was (`GoodEntry`, `MacsKnown`).  *Timers*: the counter is that of the calls since the
  timer was set up, the kernel's timer is off unless it runs, and a paused one holds
  the time that was left.  *Routes*: flags and lists agree, and of two changes of one
  destination in the list of changes the older is a deletion (`Latest`), which is why
  a client that is told the list from its end ends up with what is installed.
  Additions, updates and deletions are one kind of change of the table (`Moved`), and
  a handler of any length is shown to keep it by the least step that would not.  With
  that every step of `RouteTable` is a step of `RouteView` or a stutter
  (`ImplementsView`), and what `RouteView` promises holds of the clients
  (`ClientsCurrent`).  A client that waits for the flash either has a route or the
  picture does (`AskedSound`), which gives `FlashComplete`, the safety half of
  `SubscribersTold`.

What stays with TLC: the liveness properties, for which the prover has no rules, and
the invariants of the modules that are data or recursive by nature: `CommandsDo` of
the parser, `MachinesRight` and `TopologySound`, which are about the tables of this
program and have no constants to prove them for, and of `SpfNetwork` the shortest paths
(`SpfTablesShortest`), which need an induction over the calculation and whose reference
for distances is a `RECURSIVE` operator, with the deliveries that rest on them
(`CalmDelivered`).  `FlashComplete` is proved, `ChangesTold`, the other half of
`SubscribersTold`, is liveness.  A spurious return of `pthread_cond_wait` breaks
`SyncJobDone`: the run that checks it switches spurious returns off, the other one
has them.

## Plan

1. *Convergence*: several routers with `IsisLspDb` databases that exchange LSPs
   over links that lose frames, implementing one register per originator that
   only moves to newer versions.
2. *Shutdown with late jobs*: the periodic and reconciliation timers beside those
   of `IsisOverload`, and the size limit of an LSP.

## Not modelled

The text of packets and commands, help, completion and history of the command
line, tracing, socket set-up, Layer 4 and 5 demultiplexing (stateless dispatch),
attributes and links of the traffic engineering database, the AVL tree (a
third-party library), the bit arrays and the spanning tree (not in the build) and
the second copy of the command parser under `cli-integration/`.  Liveness of a
shutdown is not stated because it is false of the code, as described above.
`PROJECT.json` gives the reason for each component.
