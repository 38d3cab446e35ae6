-------------------------------- MODULE Nmp --------------------------------
(***************************************************************************)
(* Neighbourship management (Layer5/nbrship_mgmt/nbrship_mgmt.c) on two    *)
(* routers joined by a link, an interface each.                            *)
(*                                                                         *)
(* A hello is built when the hello timer is registered and sent as it is   *)
(* from then on.  The jobs that timers queue carry pointers: to the hello  *)
(* (pkt_meta_data), which disabling the interface frees, and to the key of *)
(* an adjacency (adj_key), which the job frees itself.  A job that follows *)
(* a freed pointer is the end of the process here.                         *)
(***************************************************************************)
EXTENDS Integers, Sequences, FiniteSets, SequencesExt

CONSTANTS
  Subnets,    \* subnets an interface's address may be on
  Subnet0,    \* the one of the topology
  Keys,       \* addresses of adj_key objects, numbers
  MaxJobs,    \* bound: timer jobs waiting in the dispatcher
  MaxFrames,  \* bound: hellos waiting in the packet queue
  MaxChanges, \* bound: changes of an address
  NULL

Sides == 1..2
Other(s) == 3 - s

\* intf_nmp_t: the hello with its pkt_meta_data, and the adjacency_t with its adj_key_t.
Hello == [subnet : Subnets]
Adjacency == [adj_key : Keys, expiry_timer : {"running", "expired"}]
IntfNmp == [is_enabled : BOOLEAN, hellos : Hello \union {NULL}, adjacency : Adjacency \union {NULL}]

\* The key of hello jobs stands for the pkt_meta_data of the interface.
HELLO == 0

\* A job that a timer has queued, with what its pointer points to.
Job == [side : Sides, key : Keys \union {HELLO}, freed : BOOLEAN]

Frame == [to : Sides, subnet : Subnets]

\* There is always room for one more key (calloc), and NULL is no object.
ASSUME NmpAssumption ==
  /\ Subnet0 \in Subnets
  /\ MaxJobs \in Nat /\ MaxFrames \in Nat /\ MaxChanges \in Nat
  /\ Keys \subseteq Int /\ HELLO \notin Keys
  /\ IsFiniteSet(Keys) /\ Cardinality(Keys) > MaxJobs
  /\ NULL \notin IntfNmp \union Hello \union Adjacency

VARIABLES
  node_nmp,   \* is there a node_nw_prop.nmp (then it is enabled)
  traps,      \* registrations of process_hello_msg
  subnet,     \* of IF_IP and the mask
  intf_nmp,   \* NULL, or is_enabled, hellos and the adjacency to the other router
  jobs,       \* timer jobs waiting; is what they point to freed?
  frames,     \* recvr_pkt_q: hellos waiting, newest first
  changes,    \* number of changes of addresses so far
  crashed     \* why the process ended: "no" while it runs

vars == <<node_nmp, traps, subnet, intf_nmp, jobs, frames, changes, crashed>>

\* intf_nmp_t after calloc
Fresh == [is_enabled |-> FALSE, hellos |-> NULL, adjacency |-> NULL]

Init ==
  /\ node_nmp = [s \in Sides |-> FALSE]
  /\ traps = [s \in Sides |-> 0]
  /\ subnet = [s \in Sides |-> Subnet0]
  /\ intf_nmp = [s \in Sides |-> NULL]
  /\ jobs = <<>>
  /\ frames = <<>>
  /\ changes = 0
  /\ crashed = "no"

-----------------------------------------------------------------------------
(* Memory.                                                                 *)

\* calloc of an adj_key for side s: an address that nothing points to.
new_key(s) ==
  LET held == {jobs[k].key : k \in {j \in DOMAIN jobs : jobs[j].side = s}}
  IN CHOOSE r \in Keys : r \notin held

\* free: jobs of side s that point there are left with the pointer.
FreeIn(js, s, key) ==
  [k \in DOMAIN js |-> IF js[k].side = s /\ js[k].key = key THEN [js[k] EXCEPT !.freed = TRUE]
                       ELSE js[k]]

\* Mutant: hellos go on.
stopped_late(d) == d

\* stop_interface_hellos
stopped(d) == [d EXCEPT !.hellos = NULL]

-----------------------------------------------------------------------------
(* Commands.                                                               *)

\* schedule_hello_on_interface; get_new_hello_pkt takes the address of now.
scheduled(d, s) ==
  IF d.hellos # NULL THEN d ELSE [d EXCEPT !.hellos = [subnet |-> subnet[s]]]

\* nbrship_mgmt_activate_nmp_on_interface
activated(d, s, node_on) ==
  IF d = NULL \/ ~node_on THEN d ELSE scheduled([d EXCEPT !.is_enabled = TRUE], s)

\* nbrship_mgmt_deactivate_nmp_on_interface
deactivated(d) ==
  IF d = NULL \/ ~d.is_enabled THEN d ELSE stopped([d EXCEPT !.is_enabled = FALSE])
HelloFreed(s) ==
  IF intf_nmp[s] = NULL \/ ~intf_nmp[s].is_enabled THEN jobs ELSE FreeIn(jobs, s, HELLO)

\* nbrship_mgmt_enable_disable_device_level
EnableNode(s) ==
  /\ ~node_nmp[s]
  /\ node_nmp' = [node_nmp EXCEPT ![s] = TRUE]
  /\ intf_nmp' = [intf_nmp EXCEPT ![s] = activated(@, s, TRUE)]
  /\ traps' = [traps EXCEPT ![s] = @ + 1]
  /\ UNCHANGED <<subnet, jobs, frames, changes, crashed>>

\* The adjacency stays until it expires.
DisableNode(s) ==
  /\ node_nmp[s]
  /\ node_nmp' = [node_nmp EXCEPT ![s] = FALSE]
  /\ intf_nmp' = [intf_nmp EXCEPT ![s] = deactivated(@)]
  /\ jobs' = HelloFreed(s)
  /\ traps' = [traps EXCEPT ![s] = IF @ > 0 THEN @ - 1 ELSE 0]
  /\ UNCHANGED <<subnet, frames, changes, crashed>>

\* nbrship_mgmt_enable_disable_intf_nbrship_protocol.  The first assertion is in
\* nbrship_mgmt_activate_nmp_on_interface.
EnableIntf(s) ==
  LET d == IF intf_nmp[s] = NULL THEN Fresh ELSE intf_nmp[s] IN
  /\ intf_nmp' = [intf_nmp EXCEPT ![s] = activated(d, s, node_nmp[s])]
  /\ crashed' = IF ~node_nmp[s] /\ d.is_enabled THEN "assert" ELSE crashed
  /\ UNCHANGED <<node_nmp, traps, subnet, jobs, frames, changes>>

\* The timer of the adjacency goes, its key is leaked.
DisableIntf(s) ==
  /\ intf_nmp[s] # NULL
  /\ jobs' = HelloFreed(s)
  /\ intf_nmp' = [intf_nmp EXCEPT ![s] = NULL]
  /\ UNCHANGED <<node_nmp, traps, subnet, frames, changes, crashed>>

\* interface_set_ip_address; nmp_interface_update does nothing.
ConfigIp(s, new) ==
  /\ changes < MaxChanges
  /\ new # subnet[s]
  /\ subnet' = [subnet EXCEPT ![s] = new]
  /\ changes' = changes + 1
  /\ UNCHANGED <<node_nmp, traps, intf_nmp, jobs, frames, crashed>>

-----------------------------------------------------------------------------
(* Timers, their jobs, and hellos.                                         *)

Queue(s, key) ==
  /\ Len(jobs) < MaxJobs
  /\ jobs' = Append(jobs, [side |-> s, key |-> key, freed |-> FALSE])

\* wheel_fn: the hello timer is recurrent, that of the adjacency is not.
HelloTimer(s) ==
  /\ intf_nmp[s] # NULL
  /\ intf_nmp[s].hellos # NULL
  /\ Queue(s, HELLO)
  /\ UNCHANGED <<node_nmp, traps, subnet, intf_nmp, frames, changes, crashed>>

ExpiryTimer(s) ==
  /\ intf_nmp[s] # NULL
  /\ intf_nmp[s].adjacency # NULL
  /\ intf_nmp[s].adjacency.expiry_timer = "running"
  /\ intf_nmp' = [intf_nmp EXCEPT ![s].adjacency.expiry_timer = "expired"]
  /\ Queue(s, intf_nmp[s].adjacency.adj_key)
  /\ UNCHANGED <<node_nmp, traps, subnet, frames, changes, crashed>>

\* Mutant: only where the protocol is active.
deleted_if_active(d) == IF d = NULL \/ ~d.is_enabled THEN d ELSE [d EXCEPT !.adjacency = NULL]

\* delete_interface_adjacency, with the router's id
deleted(d) == IF d = NULL THEN d ELSE [d EXCEPT !.adjacency = NULL]

\* transmit_hellos
TransmitHello(s) ==
  /\ Len(frames) < MaxFrames
  /\ frames' = <<[to |-> Other(s), subnet |-> intf_nmp[s].hellos.subnet]>> \o frames
  /\ jobs' = Tail(jobs)
  /\ UNCHANGED intf_nmp

\* timer_expire_delete_adjacency_cb: whatever has happened to the adjacency since.
\* The key is freed; another job of the same timer may still have it.
ExpireAdjacency(s, key) ==
  /\ intf_nmp' = [intf_nmp EXCEPT ![s] = deleted(@)]
  /\ jobs' = FreeIn(Tail(jobs), s, key)
  /\ UNCHANGED frames

RunJob ==
  /\ jobs # <<>>
  /\ LET j == Head(jobs) IN
       IF j.freed
       THEN crashed' = "freed pointer" /\ UNCHANGED <<intf_nmp, jobs, frames>>
       ELSE /\ IF j.key = HELLO THEN TransmitHello(j.side) ELSE ExpireAdjacency(j.side, j.key)
            /\ UNCHANGED crashed
  /\ UNCHANGED <<node_nmp, traps, subnet, changes>>

\* update_interface_adjacency_from_hello.  A timer that has expired is put back.
Updated(s) ==
  LET d == intf_nmp[s]
      key == IF d.adjacency = NULL THEN new_key(s) ELSE d.adjacency.adj_key
  IN [d EXCEPT !.adjacency = [adj_key |-> key, expiry_timer |-> "running"]]

\* process_hello_msg
RecvHello ==
  /\ frames # <<>>
  /\ LET f == Head(frames)  s == f.to IN
       intf_nmp' = IF /\ traps[s] > 0
                      /\ intf_nmp[s] # NULL
                      /\ intf_nmp[s].is_enabled
                      /\ subnet[s] = f.subnet
                   THEN [intf_nmp EXCEPT ![s] = Updated(s)]
                   ELSE intf_nmp
  /\ frames' = Tail(frames)
  /\ UNCHANGED <<node_nmp, traps, subnet, jobs, changes, crashed>>

Next ==
  /\ crashed = "no"
  /\ \/ \E s \in Sides : EnableNode(s) \/ DisableNode(s) \/ EnableIntf(s) \/ DisableIntf(s)
     \/ \E s \in Sides, new \in Subnets : ConfigIp(s, new)
     \/ \E s \in Sides : HelloTimer(s) \/ ExpiryTimer(s)
     \/ RunJob
     \/ RecvHello

Spec == Init /\ [][Next]_vars

Running(A) == crashed = "no" /\ A

\* Timers expire, and the dispatcher runs what is queued.  Strong fairness of the
\* timers stands for the room the real queue of the dispatcher always has.
Fairness ==
  /\ \A s \in Sides : SF_vars(Running(HelloTimer(s))) /\ SF_vars(Running(ExpiryTimer(s)))
  /\ WF_vars(Running(RunJob))
  /\ WF_vars(Running(RecvHello))

FairSpec == Spec /\ Fairness

-----------------------------------------------------------------------------
(* Properties.                                                             *)

\* Fields have their types, and no queue is longer than its bound.
TypeOK ==
  /\ node_nmp \in [Sides -> BOOLEAN] /\ traps \in [Sides -> Nat]
  /\ subnet \in [Sides -> Subnets]
  /\ intf_nmp \in [Sides -> IntfNmp \union {NULL}]
  /\ jobs \in Seq(Job) /\ Len(jobs) <= MaxJobs
  /\ frames \in Seq(Frame) /\ Len(frames) <= MaxFrames
  /\ changes \in 0..MaxChanges /\ crashed \in {"no", "assert", "freed pointer"}

Hellos(s) == intf_nmp[s] # NULL /\ intf_nmp[s].hellos # NULL
Adjacent(s) == intf_nmp[s] # NULL /\ intf_nmp[s].adjacency # NULL

\* nbrship_mgmt_activate_nmp_on_interface, nmp_get_interface_state,
\* transmit_hellos: in whatever order nodes and interfaces are enabled and disabled,
\* no assertion fails, hellos are sent exactly where the protocol is enabled on the
\* interface and the node, and one trap rule is there exactly for enabled nodes.
ActiveIsSound ==
  /\ TypeOK
  /\ crashed # "assert"
  /\ \A s \in Sides :
       /\ traps[s] = IF node_nmp[s] THEN 1 ELSE 0
       /\ Hellos(s) <=> intf_nmp[s] # NULL /\ intf_nmp[s].is_enabled
       /\ Hellos(s) => node_nmp[s]
  /\ \A k \in DOMAIN jobs :
       jobs[k].key = HELLO /\ ~jobs[k].freed => Hellos(jobs[k].side)

\* timer_expire_delete_adjacency_cb: a router whose neighbour no longer sends hellos
\* loses the adjacency, whatever is disabled or enabled meanwhile.
SilentNbrForgotten ==
  \A s \in Sides : <>[]~Hellos(Other(s)) => <>[](Adjacent(s) => crashed # "no")

\* schedule_hello_on_interface: two routers that have the protocol enabled, with
\* hellos of the subnet they share, become adjacent, and again whenever an expiry
\* has come between.
NbrsMeet ==
  \A s \in Sides :
    <>[](/\ Hellos(s) /\ Hellos(Other(s))
         /\ subnet[s] = intf_nmp[Other(s)].hellos.subnet)
      => []<>(Adjacent(s) \/ crashed # "no")

\* nbrship_mgmt.c: adjacencies follow the hellos of the neighbour, both ways.
NbrsFollowHellos == SilentNbrForgotten /\ NbrsMeet
=============================================================================
