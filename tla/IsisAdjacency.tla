--------------------------- MODULE IsisAdjacency ---------------------------
(***************************************************************************)
(* The adjacencies of one IS-IS router (Layer5/isis): neighbours come and  *)
(* go with the hellos that isis_pkt.c hands to isis_adjacency.c; a change  *)
(* of state counts in adjacency_up_count, starts or prolongs the           *)
(* reconciliation phase of isis_flood.c, asks for a new LSP and adds or    *)
(* removes the neighbour's ARP entry (isis_layer2map.c); isis_intf.c turns *)
(* interfaces on and off underneath.                                       *)
(*                                                                         *)
(* Every handler is a job of the event dispatcher, so handlers do not      *)
(* overlap.  A timer that expires queues a job that carries the address of *)
(* the adjacency; hellos and commands queued before it run first, and may  *)
(* stop the timer or free the adjacency the job still points to.           *)
(*                                                                         *)
(* The list of an interface's adjacencies is the set On(i): the one place  *)
(* where its order counts, the head that a hello from a foreign subnet     *)
(* brings down, is any member.  Statistics, the trace and the interface    *)
(* groups (isis_intf_group.c) are left out, and IS-IS stays enabled on the *)
(* node.                                                                   *)
(***************************************************************************)
EXTENDS Integers, Sequences, FiniteSets

CONSTANTS
  Adjs,        \* the addresses malloc gives out for isis_adjacency_t
  Intfs,       \* interfaces of the router
  Nbrs,        \* router ids of the neighbours
  Addrs,       \* interface addresses (IP and MAC) a hello may carry
  IfIndexes,   \* remote interface indexes a hello may carry
  CountMod,    \* 2^16 in the code: adjacency_up_count is an uint16_t
  MaxJobs      \* bound: timer jobs waiting in the dispatcher

ASSUME AdjacencyAssumption ==
  /\ CountMod \in Nat \ {0}
  /\ MaxJobs \in Nat
  /\ IsFiniteSet(Adjs)

VARIABLES
  adj,        \* the fields of isis_adjacency_t at each address
  ifs,        \* the interfaces: configuration and the hello timer
  node,       \* the fields of isis_node_info_t used here
  lsp,        \* the neighbours in the last self LSP generated
  jobs,       \* timer jobs queued in the dispatcher, oldest first
  silent,     \* neighbours that will never send again
  crashed     \* why the process ended: "no" while it runs

vars == <<adj, ifs, node, lsp, jobs, silent, crashed>>

\* A timer handle is NULL, registered, or registered and expired: the wheel
\* keeps a one-shot element that has fired until it is de-registered.
Timer == {"NULL", "running", "expired"}

AdjFields ==
  [adj_state : {"DOWN", "INIT", "UP"}, intf : Intfs, nbr_rtr_id : Nbrs,
   nbr_intf_ip : Addrs, remote_if_index : IfIndexes,
   expiry_timer : Timer, delete_timer : Timer]

\* What is left at an address that free() has been given.
Freed == [adj_state |-> "FREE"]

IntfFields ==
  [enabled : BOOLEAN, is_up : BOOLEAN, mode : {"none", "L2", "L3"},
   hello_xmit_timer : BOOLEAN]

NodeFields ==
  [adjacency_up_count : 0..(CountMod - 1), lsp_pkt_gen_task : BOOLEAN,
   reconciliation_in_progress : BOOLEAN, reconciliation_timer : Timer,
   layer2_mapping : BOOLEAN, arp : SUBSET Addrs]

Job == [kind : {"expiry", "delete"}, on : Adjs] \union [kind : {"reconciliation"}]

Live == {a \in Adjs : adj[a].adj_state # "FREE"}

On(i) == {a \in Live : adj[a].intf = i}

Up == {a \in Adjs : adj[a].adj_state = "UP"}

\* isis_interface_qualify_to_send_hellos
Qualifies(f) == f.enabled /\ f.is_up /\ f.mode = "L3"

\* isis_init, with the interfaces as the topology is built: up, with an address.
Init ==
  /\ adj = [a \in Adjs |-> Freed]
  /\ ifs = [i \in Intfs |-> [enabled |-> FALSE, is_up |-> TRUE, mode |-> "L3",
                             hello_xmit_timer |-> FALSE]]
  /\ node = [adjacency_up_count |-> 0, lsp_pkt_gen_task |-> TRUE,
             reconciliation_in_progress |-> FALSE, reconciliation_timer |-> "NULL",
             layer2_mapping |-> TRUE, arp |-> {}]
  /\ lsp = {}
  /\ jobs = <<>>
  /\ silent = {}
  /\ crashed = "no"

-----------------------------------------------------------------------------
(* What the calls do to isis_node_info_t. *)

\* isis_schedule_lsp_pkt_generation: one job at a time.
schedule_lsp(n) == [n EXCEPT !.lsp_pkt_gen_task = TRUE]

increment_up_count(n) ==
  [n EXCEPT !.adjacency_up_count = (n.adjacency_up_count + 1) % CountMod]

decrement_up_count(n, k) ==
  [n EXCEPT !.adjacency_up_count = (n.adjacency_up_count - k) % CountMod]

start_reconciliation_timer(t) == IF t = "NULL" THEN "running" ELSE t

\* isis_enter_reconciliation_phase; nothing turns on-demand flooding off.
enter_reconciliation(n) ==
  IF n.reconciliation_in_progress THEN n
  ELSE schedule_lsp([n EXCEPT
         !.reconciliation_in_progress = TRUE,
         !.reconciliation_timer = start_reconciliation_timer(n.reconciliation_timer)])

restart_reconciliation_timer(n) == [n EXCEPT !.reconciliation_timer = "running"]

\* Mutant: the phase ends without an LSP.
exit_reconciliation_quiet(n) ==
  [n EXCEPT !.reconciliation_in_progress = FALSE, !.reconciliation_timer = "NULL"]

exit_reconciliation(n) ==
  IF ~n.reconciliation_in_progress THEN n
  ELSE schedule_lsp([n EXCEPT !.reconciliation_in_progress = FALSE,
                              !.reconciliation_timer = "NULL"])

\* isis_update_layer2_mapping_on_adjacency_up and _down; arp is the set of
\* addresses with an ARP entry of protocol ISIS.
map_up(n, ip) == IF n.layer2_mapping THEN [n EXCEPT !.arp = @ \union {ip}] ELSE n

map_down(n, ips) == IF n.layer2_mapping THEN [n EXCEPT !.arp = @ \ ips] ELSE n

-----------------------------------------------------------------------------
(* isis_change_adjacency_state: what it does to the adjacency r, and to the *)
(* node.  The case of ISIS_ADJ_STATE_INIT has no break: it runs on into the *)
(* case of ISIS_ADJ_STATE_UP, so that INIT goes to DOWN the way UP does.    *)

\* Mutant: the delete timer is not stopped.
to_init_undeleted(r) == [r EXCEPT !.adj_state = "INIT", !.expiry_timer = "running"]

to_init(r) == [r EXCEPT !.adj_state = "INIT", !.delete_timer = "NULL",
                        !.expiry_timer = IF @ = "NULL" THEN "running" ELSE @]

to_up(r) == [r EXCEPT !.adj_state = "UP", !.expiry_timer = "running"]

\* Mutant: the delete timer is not started.
to_down_forever(r) == [r EXCEPT !.adj_state = "DOWN", !.expiry_timer = "NULL"]

to_down(r) == [r EXCEPT !.adj_state = "DOWN", !.expiry_timer = "NULL",
                        !.delete_timer = IF @ = "NULL" THEN "running" ELSE @]

changed(r, new) ==
  CASE new = "DOWN" -> IF r.adj_state = "DOWN" THEN r ELSE to_down(r)
    [] new = "INIT" -> to_init(r)
    [] new = "UP"   -> to_up(r)

came_up(n, r) ==
  LET m == increment_up_count(n) IN
  map_up(CASE m.adjacency_up_count = 1     -> enter_reconciliation(m)
           [] m.adjacency_up_count # 1 /\ m.reconciliation_in_progress
                                           -> restart_reconciliation_timer(m)
           [] OTHER                        -> schedule_lsp(m),
         r.nbr_intf_ip)

went_down(n, r) ==
  LET m == decrement_up_count(n, 1) IN
  map_down(IF m.reconciliation_in_progress /\ m.adjacency_up_count # 0
           THEN restart_reconciliation_timer(m)
           ELSE schedule_lsp(m),
           {r.nbr_intf_ip})

node_changed(n, r, new) ==
  CASE new = "UP" /\ r.adj_state = "INIT"   -> came_up(n, r)
    [] new = "DOWN" /\ r.adj_state # "DOWN" -> went_down(n, r)
    [] OTHER                                -> n

\* The assertions: the two impossible transitions, a handle that must be there
\* when it is refreshed, a running reconciliation that has a timer.
assert_fails(n, r, new) ==
  \/ new = "UP" /\ (r.adj_state = "DOWN" \/ r.expiry_timer = "NULL")
  \/ new = "INIT" /\ r.adj_state # "DOWN"
  \/ /\ n.reconciliation_in_progress
     /\ n.reconciliation_timer = "NULL"
     /\ \/ /\ new = "UP" /\ r.adj_state = "INIT"
           /\ increment_up_count(n).adjacency_up_count # 1
        \/ /\ new = "DOWN" /\ r.adj_state # "DOWN"
           /\ decrement_up_count(n, 1).adjacency_up_count # 0

\* isis_get_next_adj_state_on_receiving_next_hello
next_state(r) == IF r.adj_state = "DOWN" THEN "INIT" ELSE "UP"

ChangeState(a, r, n, new) ==
  /\ adj' = [adj EXCEPT ![a] = changed(r, new)]
  /\ node' = node_changed(n, r, new)
  /\ crashed' = IF assert_fails(n, r, new) THEN "assert" ELSE "no"

-----------------------------------------------------------------------------
(* Hellos. *)

Received(i) == crashed = "no" /\ Qualifies(ifs[i])

\* The first hello of a neighbour: isis_init_adjacency and the delete timer.
FirstHello(i, nbr, ip, ifindex) ==
  /\ Received(i)
  /\ nbr \notin silent
  /\ \A a \in On(i) : adj[a].nbr_rtr_id # nbr
  /\ \E a \in Adjs \ Live :
       adj' = [adj EXCEPT ![a] =
                 [adj_state |-> "DOWN", intf |-> i, nbr_rtr_id |-> nbr,
                  nbr_intf_ip |-> ip, remote_if_index |-> ifindex,
                  expiry_timer |-> "NULL", delete_timer |-> "running"]]
  /\ UNCHANGED <<ifs, node, lsp, jobs, silent, crashed>>

\* Mutant: only the new address is unmapped.
unmap_backup_missing(n, r) == n

\* Before it brings the adjacency down a changed address unmaps the old one.
unmap_backup(n, r) == map_down(n, {r.nbr_intf_ip})

attributes_changed(n, regen_lsp) == IF regen_lsp THEN schedule_lsp(n) ELSE n

\* isis_update_interface_adjacency_from_hello for a known neighbour.
Hello(i, nbr, ip, ifindex) ==
  /\ Received(i)
  /\ nbr \notin silent
  /\ \E a \in On(i) :
       LET old == adj[a]
           new == [old EXCEPT !.nbr_intf_ip = ip, !.remote_if_index = ifindex]
       IN /\ old.nbr_rtr_id = nbr
          /\ IF ip # old.nbr_intf_ip
             THEN ChangeState(a, new, unmap_backup(node, old), "DOWN")
             ELSE ChangeState(a, new,
                    attributes_changed(node, ifindex # old.remote_if_index),
                    next_state(old))
  /\ UNCHANGED <<ifs, lsp, jobs, silent>>

\* A hello whose address is not in the interface's subnet: isis_process_hello_pkt
\* brings down the first adjacency, whoever sent the hello.
ForeignHello(i) ==
  /\ Received(i)
  /\ \E a \in On(i) : ChangeState(a, adj[a], node, "DOWN")
  /\ UNCHANGED <<ifs, lsp, jobs, silent>>

\* The neighbour dies, or its link does.
FallSilent(nbr) ==
  /\ crashed = "no"
  /\ silent' = silent \union {nbr}
  /\ UNCHANGED <<adj, ifs, node, lsp, jobs, crashed>>

-----------------------------------------------------------------------------
(* Timers.  The wheel (WheelTimer) makes a job of an expired timer, with the *)
(* address the timer was registered for.                                     *)

JobsLeft == crashed = "no" /\ Len(jobs) < MaxJobs

ExpiryFires(a) ==
  /\ JobsLeft
  /\ a \in Live /\ adj[a].expiry_timer = "running"
  /\ adj' = [adj EXCEPT ![a].expiry_timer = "expired"]
  /\ jobs' = Append(jobs, [kind |-> "expiry", on |-> a])
  /\ UNCHANGED <<ifs, node, lsp, silent, crashed>>

DeleteFires(a) ==
  /\ JobsLeft
  /\ a \in Live /\ adj[a].delete_timer = "running"
  /\ adj' = [adj EXCEPT ![a].delete_timer = "expired"]
  /\ jobs' = Append(jobs, [kind |-> "delete", on |-> a])
  /\ UNCHANGED <<ifs, node, lsp, silent, crashed>>

ReconciliationFires ==
  /\ JobsLeft
  /\ node.reconciliation_timer = "running"
  /\ node' = [node EXCEPT !.reconciliation_timer = "expired"]
  /\ jobs' = Append(jobs, [kind |-> "reconciliation"])
  /\ UNCHANGED <<adj, ifs, lsp, silent, crashed>>

\* isis_delete_adjacency for each adjacency of S.
DeleteAdjacencies(S) ==
  LET up == S \intersect Up
      n  == map_down(decrement_up_count(node, Cardinality(up)),
                     {adj[a].nbr_intf_ip : a \in up})
  IN /\ adj' = [a \in Adjs |-> IF a \in S THEN Freed ELSE adj[a]]
     /\ node' = IF up # {} THEN schedule_lsp(n) ELSE n

NextJob(kind) ==
  /\ crashed = "no"
  /\ jobs # <<>>
  /\ Head(jobs).kind = kind
  /\ jobs' = Tail(jobs)

\* A job whose adjacency is gone works on freed memory.
UseAfterFree == crashed' = "freed" /\ UNCHANGED <<adj, node>>

\* isis_timer_expire_down_adjacency_cb hands expiry_timer to the timer library
\* without a test.
ExpiryJob ==
  /\ NextJob("expiry")
  /\ LET a == Head(jobs).on IN
       \/ a \notin Live /\ UseAfterFree
       \/ /\ a \in Live
          /\ adj[a].expiry_timer = "NULL"
          /\ crashed' = "null"
          /\ UNCHANGED <<adj, node>>
       \/ /\ a \in Live
          /\ adj[a].expiry_timer # "NULL"
          /\ ChangeState(a, [adj[a] EXCEPT !.expiry_timer = "NULL"], node, "DOWN")
  /\ UNCHANGED <<ifs, lsp, silent>>

\* isis_timer_expire_delete_adjacency_cb
DeleteJob ==
  /\ NextJob("delete")
  /\ LET a == Head(jobs).on IN
       \/ a \notin Live /\ UseAfterFree
       \/ a \in Live /\ DeleteAdjacencies({a}) /\ UNCHANGED crashed
  /\ UNCHANGED <<ifs, lsp, silent>>

\* isis_timer_wrapper_exit_reconciliation_phase
ReconciliationJob ==
  /\ NextJob("reconciliation")
  /\ node' = exit_reconciliation(node)
  /\ UNCHANGED <<adj, ifs, lsp, silent, crashed>>

\* isis_timer_wrapper_lsp_flood: the periodic timer always runs.
PeriodicLsp ==
  /\ crashed = "no"
  /\ node' = schedule_lsp(node)
  /\ UNCHANGED <<adj, ifs, lsp, jobs, silent, crashed>>

\* What isis_encode_all_nbr_tlvs writes of the neighbours that are up.
Content == {<<adj[a].intf, adj[a].nbr_rtr_id, adj[a].nbr_intf_ip,
              adj[a].remote_if_index>> : a \in Up}

\* isis_generate_lsp_pkt
GenerateLsp ==
  /\ crashed = "no"
  /\ node.lsp_pkt_gen_task
  /\ node' = [node EXCEPT !.lsp_pkt_gen_task = FALSE]
  /\ lsp' = Content
  /\ UNCHANGED <<adj, ifs, jobs, silent, crashed>>

-----------------------------------------------------------------------------
(* Commands. *)

\* isis_start_sending_hellos asserts that no hello timer runs.
StartHellos(i, f) ==
  /\ ifs' = [ifs EXCEPT ![i] = [f EXCEPT !.hello_xmit_timer = TRUE]]
  /\ crashed' = IF f.hello_xmit_timer THEN "assert" ELSE "no"

StartIfQualified(i, f) ==
  IF Qualifies(f) THEN StartHellos(i, f)
                  ELSE ifs' = [ifs EXCEPT ![i] = f] /\ UNCHANGED crashed

\* isis_stop_sending_hellos
no_hellos(f) == [f EXCEPT !.hello_xmit_timer = FALSE]

\* isis_enable_protocol_on_interface
EnableIntf(i) ==
  /\ crashed = "no"
  /\ LET f == [ifs[i] EXCEPT !.enabled = TRUE] IN
       IF f.hello_xmit_timer THEN ifs' = [ifs EXCEPT ![i] = f] /\ UNCHANGED crashed
                             ELSE StartIfQualified(i, f)
  /\ UNCHANGED <<adj, node, lsp, jobs, silent>>

\* isis_disable_protocol_on_interface
DisableIntf(i) ==
  /\ crashed = "no"
  /\ ifs[i].enabled
  /\ ifs' = [ifs EXCEPT ![i] = no_hellos([ifs[i] EXCEPT !.enabled = FALSE])]
  /\ DeleteAdjacencies(On(i))
  /\ UNCHANGED <<lsp, jobs, silent, crashed>>

\* "if-up-down" and isis_handle_interface_up_down
IntfUp(i) ==
  /\ crashed = "no"
  /\ ~ifs[i].is_up
  /\ StartIfQualified(i, [ifs[i] EXCEPT !.is_up = TRUE])
  /\ UNCHANGED <<adj, node, lsp, jobs, silent>>

IntfDown(i) ==
  /\ crashed = "no"
  /\ ifs[i].is_up
  /\ LET f == [ifs[i] EXCEPT !.is_up = FALSE] IN
       IF f.enabled THEN /\ ifs' = [ifs EXCEPT ![i] = no_hellos(f)]
                         /\ DeleteAdjacencies(On(i))
                    ELSE /\ ifs' = [ifs EXCEPT ![i] = f]
                         /\ UNCHANGED <<adj, node>>
  /\ UNCHANGED <<lsp, jobs, silent, crashed>>

\* Mutant: nobody is told of the new address.
SetIp_quiet(i) ==
  /\ crashed = "no"
  /\ ifs[i].mode = "none"
  /\ ifs' = [ifs EXCEPT ![i].mode = "L3"]
  /\ UNCHANGED <<adj, node, lsp, jobs, silent, crashed>>

\* interface_set_ip_addr, with isis_handle_interface_ip_addr_changed
SetIp(i) ==
  /\ crashed = "no"
  /\ ifs[i].mode = "none"
  /\ StartIfQualified(i, [ifs[i] EXCEPT !.mode = "L3"])
  /\ UNCHANGED <<adj, node, lsp, jobs, silent>>

ChangeIp(i) ==
  /\ crashed = "no"
  /\ ifs[i].mode = "L3" /\ ifs[i].enabled
  /\ StartIfQualified(i, no_hellos(ifs[i]))
  /\ node' = schedule_lsp(node)
  /\ UNCHANGED <<adj, lsp, jobs, silent>>

\* interface_unset_ip_addr
UnsetIp(i) ==
  /\ crashed = "no"
  /\ ifs[i].mode = "L3"
  /\ LET f == [ifs[i] EXCEPT !.mode = "none"] IN
       IF f.enabled THEN /\ ifs' = [ifs EXCEPT ![i] = no_hellos(f)]
                         /\ DeleteAdjacencies(On(i))
                    ELSE /\ ifs' = [ifs EXCEPT ![i] = f]
                         /\ UNCHANGED <<adj, node>>
  /\ UNCHANGED <<lsp, jobs, silent, crashed>>

\* interface_set_l2_mode tells nobody; there is no way back.
SetL2Mode(i) ==
  /\ crashed = "no"
  /\ ifs[i].mode # "L2"
  /\ ifs' = [ifs EXCEPT ![i].mode = "L2"]
  /\ UNCHANGED <<adj, node, lsp, jobs, silent, crashed>>

\* isis_config_layer2_map and isis_un_config_layer2_map
ConfigLayer2Map ==
  /\ crashed = "no"
  /\ ~node.layer2_mapping
  /\ node' = [node EXCEPT !.layer2_mapping = TRUE,
                          !.arp = @ \union {adj[a].nbr_intf_ip : a \in Up}]
  /\ UNCHANGED <<adj, ifs, lsp, jobs, silent, crashed>>

UnconfigLayer2Map ==
  /\ crashed = "no"
  /\ node.layer2_mapping
  /\ node' = [map_down(node, {adj[a].nbr_intf_ip : a \in Up})
                EXCEPT !.layer2_mapping = FALSE]
  /\ UNCHANGED <<adj, ifs, lsp, jobs, silent, crashed>>

-----------------------------------------------------------------------------

Next ==
  \/ \E i \in Intfs, nbr \in Nbrs, ip \in Addrs, ifindex \in IfIndexes :
       FirstHello(i, nbr, ip, ifindex) \/ Hello(i, nbr, ip, ifindex)
  \/ \E i \in Intfs : ForeignHello(i)
  \/ \E nbr \in Nbrs : FallSilent(nbr)
  \/ \E a \in Adjs : ExpiryFires(a) \/ DeleteFires(a)
  \/ ReconciliationFires
  \/ ExpiryJob \/ DeleteJob \/ ReconciliationJob
  \/ PeriodicLsp \/ GenerateLsp
  \/ \E i \in Intfs : EnableIntf(i) \/ DisableIntf(i) \/ IntfUp(i) \/ IntfDown(i)
  \/ \E i \in Intfs : SetIp(i) \/ ChangeIp(i) \/ UnsetIp(i) \/ SetL2Mode(i)
  \/ ConfigLayer2Map \/ UnconfigLayer2Map

\* The dispatcher runs its jobs, and a timer that nothing refreshes expires: the
\* timers of a neighbour that has fallen silent are such timers.  Strong fairness,
\* because MaxJobs, which the code does not have, can disable them for a while.
Silenced(a) == a \in Live /\ adj[a].nbr_rtr_id \in silent

Fairness ==
  /\ WF_vars(ExpiryJob \/ DeleteJob \/ ReconciliationJob)
  /\ \A a \in Adjs : SF_vars(Silenced(a) /\ (ExpiryFires(a) \/ DeleteFires(a)))

Spec == Init /\ [][Next]_vars /\ Fairness

-----------------------------------------------------------------------------
(* Properties. *)

\* Every field keeps its type; adjacency_up_count stays inside its width.
TypeOK ==
  /\ adj \in [Adjs -> AdjFields \union {Freed}]
  /\ ifs \in [Intfs -> IntfFields]
  /\ node \in NodeFields
  /\ lsp \subseteq Intfs \X Nbrs \X Addrs \X IfIndexes
  /\ jobs \in Seq(Job)
  /\ silent \subseteq Nbrs
  /\ crashed \in {"no", "assert", "null", "freed"}

\* Exactly one of an adjacency's two timers is registered, and it is the one of
\* its state: the delete timer in DOWN, the expiry timer in INIT and UP.  No
\* order of hellos, expiries, late jobs and commands leaves an adjacency that
\* nothing will ever remove, or one with both timers.
TimersMatchState ==
  \A a \in Live :
    IF adj[a].adj_state = "DOWN"
    THEN adj[a].expiry_timer = "NULL" /\ adj[a].delete_timer # "NULL"
    ELSE adj[a].expiry_timer # "NULL" /\ adj[a].delete_timer = "NULL"

\* None of the assertions of isis_adjacency.c, isis_flood.c and isis_intf.c that
\* these handlers reach can fail: no impossible transition, no refresh of a timer
\* that is not there, no reconciliation without its timer, no second hello timer.
AssertsHold == crashed # "assert"

\* isis_change_adjacency_state: over any order of events an adjacency has the timer
\* of its state, and the assertions that rest on that hold.
TimersSound == TimersMatchState /\ AssertsHold

\* An ARP entry that IS-IS put in the table belongs to an adjacency that is up:
\* neither a changed address, a deleted adjacency, a late job nor turning the
\* layer-2 mapping off and on leaves an entry behind.
NoStaleMapping ==
  node.arp \subseteq {adj[a].nbr_intf_ip : a \in Up}

\* The last LSP lists the neighbours that are up, with their addresses and
\* interface indexes, unless a new one is on its way: its job is queued, or the
\* reconciliation phase, which ends in one, is running.
LspNotStale ==
  \/ lsp = Content
  \/ node.lsp_pkt_gen_task
  \/ node.reconciliation_in_progress

\* An interface that qualifies sends hellos, whatever the order in which IS-IS,
\* the interface and its address were configured.
QualifiedSends ==
  crashed = "no" => \A i \in Intfs : Qualifies(ifs[i]) => ifs[i].hello_xmit_timer

\* A neighbour that falls silent loses its adjacency: the expiry timer, the
\* delete timer and their jobs follow each other to the end.
SilentIsRemoved ==
  \A nbr \in Nbrs :
    nbr \in silent ~> (crashed # "no" \/ \A a \in Live : adj[a].nbr_rtr_id # nbr)

\* Notes.txt: "When the ISIS router detects its adjacency has gone upm it enters
\* the reconcillation phase": the first adjacency to come up starts the phase.
FirstUpReconciles ==
  [][Up = {} /\ Up' # {} => node'.reconciliation_in_progress]_vars
=============================================================================
