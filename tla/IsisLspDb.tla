----------------------------- MODULE IsisLspDb -----------------------------
(***************************************************************************)
(* The LSP database of one IS-IS router (Layer5/isis): isis_install_lsp    *)
(* decides what a generated or received LSP does to the database,          *)
(* isis_flood.c queues LSPs on interfaces and sends them, isis_pkt.c       *)
(* counts the references to them, and isis_rtr.c shuts the protocol down   *)
(* once the purge LSP has left every queue.                                *)
(*                                                                         *)
(* Every handler is a job of the event dispatcher or a command that runs   *)
(* as one, hence one step.  The network is an environment that may deliver *)
(* any LSP that exists, at any time, in any order and any number of times. *)
(* A handler is built from operators on the record h of the state, in the  *)
(* order of the calls it makes.                                            *)
(*                                                                         *)
(* Of an LSP's content the number, the purge bit, the on-demand TLV and    *)
(* the listed neighbours count; of the traffic engineering database        *)
(* (ted/ted.c) whether a router has a node and whether it is a fake one.   *)
(* Adjacencies, timers and the counter of adjacencies are IsisAdjacency's: *)
(* here an interface has no adjacency, some, or one that is up, and the    *)
(* tests of the counter may go either way.  Interface groups are dynamic,  *)
(* the default, with one interface to a neighbour and so one in a group.   *)
(* On-demand flooding is on: nothing turns it off.                         *)
(***************************************************************************)
EXTENDS Integers, FiniteSets

CONSTANTS
  Self,      \* this router
  Remotes,   \* the other routers whose LSPs arrive
  Nbrs,      \* the routers whose nodes in the traffic engineering database are modelled
  Pkts,      \* the addresses malloc gives out for isis_lsp_pkt_t
  Intfs,     \* interfaces of the router
  NbrOn,     \* the neighbour at the other end of each interface
  Lists,     \* the neighbours an LSP of another router may list
  NULL,
  MaxSeq,    \* bound: sequence numbers
  MaxQueue,  \* bound: copies of an LSP in one transmit queue
  MaxPending \* bound: pending_lsp_flood_count

Rtrs == Remotes \union {Self}

ASSUME LspDbAssumption ==
  /\ Self \notin Remotes
  /\ Rtrs \subseteq Nbrs
  /\ Lists \subseteq SUBSET Nbrs /\ {} \in Lists
  /\ \A i \in Intfs : NbrOn[i] # Self
  /\ \A i, j \in Intfs : NbrOn[i] = NbrOn[j] => i = j
  /\ NULL \notin Pkts \union Nbrs \union Intfs
  /\ IsFiniteSet(Pkts) /\ IsFiniteSet(Intfs)
  /\ MaxSeq \in Nat /\ MaxQueue \in Nat /\ MaxPending \in Nat

VARIABLES
  pkt,      \* the fields of isis_lsp_pkt_t at each address
  db,       \* lspdb_avl_root: the LSP of each router, or NULL
  ted,      \* the traffic engineering database: the node of each router
  node,     \* the fields of isis_node_info_t used here
  ifs,      \* the fields of isis_intf_info_t used here
  highest,  \* the largest own number this router ever put in an LSP
  crashed   \* why the process ended: "no" while it runs

vars == <<pkt, db, ted, node, ifs, highest, crashed>>

\* expiry_timer, the life-time timer: expired when its job is queued.
PktFields ==
  [rtr_id : Rtrs \union {NULL}, seq_no : 0..MaxSeq, ref_count : Nat,
   flood_queue_count : Nat, flood_eligibility : BOOLEAN,
   installed_in_db : BOOLEAN, expiry_timer : {"NULL", "running", "expired"}]

\* What is left at an address that free() has been given.
Freed ==
  [rtr_id |-> NULL, seq_no |-> 0, ref_count |-> 0, flood_queue_count |-> 0,
   flood_eligibility |-> FALSE, installed_in_db |-> FALSE, expiry_timer |-> "NULL"]

\* Where malloc puts the next LSP: nothing points to a free address, so that
\* one of them stands for all.
Free(h) ==
  LET F == {p \in Pkts : h.pkt[p] = Freed} IN
  IF F = {} THEN {} ELSE {CHOOSE p \in F : TRUE}

NewPkt(r, n) == [Freed EXCEPT !.rtr_id = r, !.seq_no = n, !.ref_count = 1,
                              !.flood_eligibility = TRUE]

\* The transmit queue is emptied in one step, so that its order tells nothing:
\* it is the number of times each LSP is in it.
EmptyQueue == [p \in Pkts |-> 0]

IntfFields ==
  [enabled : BOOLEAN, adjacency : {"none", "some", "up"},
   lsp_xmit_list : [Pkts -> 0..MaxQueue], lsp_xmit_job : BOOLEAN]

Disabled == [enabled |-> FALSE, adjacency |-> "none",
             lsp_xmit_list |-> EmptyQueue, lsp_xmit_job |-> FALSE]

\* shutdown: the admin bit, the pending purge LSP and ISIS_F_DISABLE_LSP_GEN,
\* which are set together.
NodeFields ==
  [enabled : BOOLEAN, self_lsp_pkt : Pkts \union {NULL}, seq_no : 0..MaxSeq,
   lsp_pkt_gen_task : BOOLEAN, pending_lsp_flood_count : Nat,
   reconciliation_in_progress : BOOLEAN, shutdown : BOOLEAN]

Off == [enabled |-> FALSE, self_lsp_pkt |-> NULL, seq_no |-> 0,
        lsp_pkt_gen_task |-> FALSE, pending_lsp_flood_count |-> 0,
        reconciliation_in_progress |-> FALSE, shutdown |-> FALSE]

\* isis_init
Started == [Off EXCEPT !.enabled = TRUE, !.lsp_pkt_gen_task = TRUE]

Init ==
  /\ pkt = [p \in Pkts |-> Freed]
  /\ db = [r \in Rtrs |-> NULL]
  /\ ted = [r \in Nbrs |-> "absent"]
  /\ node = Started
  /\ ifs = [i \in Intfs |-> Disabled]
  /\ highest = 0
  /\ crashed = "no"

\* Copies of the LSPs of S in the transmit queues of J.
Copies(f, J, S) ==
  {c \in J \X S \X (1..MaxQueue) : c[3] <= f[c[1]].lsp_xmit_list[c[2]]}

InQueues(f, J, S) == Cardinality(Copies(f, J, S))

Now == [pkt |-> pkt, db |-> db, ted |-> ted, node |-> node, ifs |-> ifs,
        highest |-> highest, crashed |-> crashed]

\* The bounds of the model, which no code has.
Bounded(h) ==
  /\ h.node.seq_no <= MaxSeq
  /\ \A i \in Intfs, p \in Pkts : h.ifs[i].lsp_xmit_list[p] <= MaxQueue
  /\ h.node.pending_lsp_flood_count <= MaxPending

\* A crash takes the memory of the process with it.
Becomes(h) ==
  /\ Bounded(h)
  /\ crashed' = h.crashed
  /\ IF h.crashed = "no"
     THEN /\ pkt' = h.pkt /\ db' = h.db /\ ted' = h.ted /\ node' = h.node
          /\ ifs' = h.ifs /\ highest' = h.highest
     ELSE /\ pkt' = [p \in Pkts |-> Freed]
          /\ db' = [r \in Rtrs |-> NULL]
          /\ ted' = [r \in Nbrs |-> "absent"]
          /\ node' = Off
          /\ ifs' = [i \in Intfs |-> Disabled]
          /\ highest' = highest

fails(h, cond, why) == IF cond /\ h.crashed = "no" THEN [h EXCEPT !.crashed = why] ELSE h

-----------------------------------------------------------------------------
(* References and timers. *)

\* isis_ref_isis_pkt
ref(h, p) == [h EXCEPT !.pkt[p].ref_count = @ + 1]

\* A timer that has expired has its job queued: when the timer is stopped its
\* data is freed, and the job will work on freed memory.  Nothing else depends on
\* it, so that the model ends here and not when the job runs.
late_job(h, S) == fails(h, \E p \in S : h.pkt[p].expiry_timer = "expired", "freed")

\* isis_deref_isis_pkt, n[p] times for each LSP p: the last reference frees it.
deref(h, n) ==
  LET gone == {p \in Pkts : n[p] > 0 /\ h.pkt[p].ref_count <= n[p]}
      bad  == \E p \in gone : h.pkt[p].ref_count < n[p] \/ h.pkt[p].installed_in_db
  IN [late_job(fails(h, bad, "assert"), gone) EXCEPT !.pkt = [p \in Pkts |->
        IF p \in gone THEN Freed ELSE [h.pkt[p] EXCEPT !.ref_count = @ - n[p]]]]

deref_each(h, S) == deref(h, [p \in Pkts |-> IF p \in S THEN 1 ELSE 0])

\* isis_stop_lsp_pkt_installation_timer frees the data the timer's job gets.
stop_timers(h, S) ==
  [late_job(h, S) EXCEPT !.pkt = [p \in Pkts |->
     IF p \in S THEN [h.pkt[p] EXCEPT !.expiry_timer = "NULL"] ELSE h.pkt[p]]]

start_timer(t) == IF t = "NULL" THEN "running" ELSE t

mark_ineligible(h, p) == [h EXCEPT !.pkt[p].flood_eligibility = FALSE]

-----------------------------------------------------------------------------
(* The database. *)

\* ted_create_or_update_node: a listed neighbour without a node gets a fake one.
ted_install(t, r, nbrs) ==
  [s \in Nbrs |-> IF s = r THEN "real"
                  ELSE IF s \in nbrs /\ t[s] = "absent" THEN "fake" ELSE t[s]]

\* isis_add_lsp_pkt_in_lspdb; avltree_insert leaves an equal key alone.
add(h, p, nbrs) ==
  LET r == h.pkt[p].rtr_id IN
  IF h.pkt[p].installed_in_db THEN h
  ELSE ref([h EXCEPT !.db[r] = IF @ = NULL THEN p ELSE @,
                     !.ted = ted_install(@, r, nbrs),
                     !.pkt[p].installed_in_db = TRUE,
                     !.pkt[p].expiry_timer = IF r = Self THEN @ ELSE start_timer(@)], p)

\* isis_remove_lsp_pkt_from_lspdb of each LSP of S that is installed.
remove(h, S) ==
  LET D == {p \in S : h.pkt[p].installed_in_db} IN
  deref_each(stop_timers([h EXCEPT
    !.pkt = [p \in Pkts |->
       IF p \in D THEN [h.pkt[p] EXCEPT !.installed_in_db = FALSE] ELSE h.pkt[p]],
    !.db = [r \in Rtrs |-> IF @[r] \in D THEN NULL ELSE @[r]],
    !.ted = [r \in Nbrs |-> IF \E p \in D : h.pkt[p].rtr_id = r
                            THEN "absent" ELSE @[r]]], D), D)

\* isis_cleanup_lsdb
cleanup(h) == remove(h, Pkts)

-----------------------------------------------------------------------------
(* Flooding. *)

\* Mutant: the job is started for an LSP that no interface has queued yet.
queue_first_only(h, J, p) ==
  LET Q == {i \in J : h.ifs[i].enabled /\ h.pkt[p].flood_eligibility}
      n == Cardinality(Q)
  IN [h EXCEPT !.pkt[p].ref_count = @ + n,
               !.pkt[p].flood_queue_count = @ + n,
               !.node.pending_lsp_flood_count = @ + n,
               !.ifs = [i \in Intfs |-> IF i \in Q
                          THEN [@[i] EXCEPT !.lsp_xmit_list[p] = @ + 1,
                                  !.lsp_xmit_job = @ \/ h.pkt[p].flood_queue_count = 0]
                          ELSE @[i]]]

\* The queue and the job of each interface of Q.
queue_on(f, Q, p) ==
  [i \in Intfs |-> IF i \in Q
     THEN [f[i] EXCEPT !.lsp_xmit_list[p] = @ + 1, !.lsp_xmit_job = TRUE]
     ELSE f[i]]

\* isis_queue_lsp_pkt_for_transmission on each interface of J.
queue(h, J, p) ==
  LET Q == {i \in J : h.ifs[i].enabled /\ h.pkt[p].flood_eligibility}
      n == Cardinality(Q)
  IN [h EXCEPT !.pkt[p].ref_count = @ + n,
               !.pkt[p].flood_queue_count = @ + n,
               !.node.pending_lsp_flood_count = @ + n,
               !.ifs = queue_on(h.ifs, Q, p)]

\* isis_schedule_lsp_flood: an interface with an adjacency is in the group of its
\* neighbour, of which the first member gets the LSP if its adjacency is up.
flood(h, p, exempt) ==
  queue(h, {i \in Intfs : i # exempt /\ h.ifs[i].adjacency # "some"}, p)

\* The loop over the transmit queues of J, and their job.
emptied(f, J) ==
  [i \in Intfs |-> IF i \in J
     THEN [f[i] EXCEPT !.lsp_xmit_list = EmptyQueue, !.lsp_xmit_job = FALSE]
     ELSE f[i]]

empty(h, J) ==
  LET n == [p \in Pkts |-> InQueues(h.ifs, J, {p})] IN
  deref([fails(h, \E p \in Pkts : h.pkt[p].flood_queue_count < n[p], "assert")
           EXCEPT !.pkt = [p \in Pkts |-> [h.pkt[p] EXCEPT !.flood_queue_count = @ - n[p]]],
                  !.ifs = emptied(h.ifs, J)], n)

\* isis_schedule_lsp_pkt_generation: during the shutdown only the purge LSP.
schedule(h) ==
  IF h.node.shutdown THEN h ELSE [h EXCEPT !.node.lsp_pkt_gen_task = TRUE]

-----------------------------------------------------------------------------
(* isis_install_lsp.  Of its eight events four are for an LSP of this router *)
(* and four for one of another; each has a case for an LSP generated here and *)
(* one for an LSP received.                                                   *)

\* Mutant: the outdated LSP may still be queued.
outdated_eligible(h) ==
  LET old == h.node.self_lsp_pkt IN
  IF old = NULL THEN h
  ELSE [deref_each(h, {old}) EXCEPT !.node.self_lsp_pkt = NULL]

\* isis_create_fresh_lsp_pkt, at address p.
outdated(h) ==
  LET old == h.node.self_lsp_pkt IN
  IF old = NULL THEN h
  ELSE [deref_each(mark_ineligible(h, old), {old}) EXCEPT !.node.self_lsp_pkt = NULL]

numbered(h, n) ==
  [h EXCEPT !.node.seq_no = n, !.highest = IF n > @ THEN n ELSE @]

create_fresh(h, p) ==
  LET n == h.node.seq_no + 1 IN
  [numbered(h, n) EXCEPT !.pkt[p] = NewPkt(Self, n), !.node.self_lsp_pkt = p]

replace(h, old, p, nbrs) == add(mark_ineligible(remove(h, {old}), old), p, nbrs)

\* A generated LSP: fresh, or newer than the one in the database.
install_generated(h, p, nbrs) ==
  LET old == h.db[Self] IN
  IF old = NULL THEN flood(add(h, p, nbrs), p, NULL)
  ELSE IF h.pkt[p].seq_no > h.pkt[old].seq_no
  THEN deref_each(flood(replace(ref(h, old), old, p, nbrs), p, NULL), {old})
  ELSE fails(h, TRUE, "assert")

\* The answer to an on-demand TLV: the self LSP with the next number, written
\* into the LSP itself.
on_demand_flood(h) ==
  LET p == h.node.self_lsp_pkt IN
  IF h.node.lsp_pkt_gen_task \/ h.node.reconciliation_in_progress THEN h
  ELSE IF p = NULL THEN fails(h, TRUE, "null")
  ELSE IF h.pkt[p].flood_eligibility
  THEN LET n == h.node.seq_no + 1 IN
       flood([numbered(h, n) EXCEPT !.pkt[p].seq_no = n], p, NULL)
  ELSE schedule(h)

answer(h, l) == IF l.on_demand THEN on_demand_flood(h) ELSE h

\* An own LSP comes back.
install_own(h, p) ==
  LET old == h.db[Self] IN
  CASE old = NULL \/ h.pkt[p].seq_no > h.pkt[old].seq_no
         -> schedule([h EXCEPT !.node.seq_no = h.pkt[p].seq_no])
    [] old # NULL /\ h.pkt[p].seq_no < h.pkt[old].seq_no -> flood(h, old, NULL)
    [] OTHER -> h

\* Mutant: an older LSP replaces the one in the database.
install_remote_older(h, i, p, l) ==
  LET old == h.db[l.rtr_id] IN
  CASE old = NULL /\ l.purge  -> h
    [] old = NULL /\ ~l.purge -> answer(flood(add(h, p, l.nbrs), p, i), l)
    [] old # NULL /\ l.seq_no # h.pkt[old].seq_no ->
         LET g == ref(h, old)
             m == IF l.purge THEN mark_ineligible(remove(g, {old}), old)
                             ELSE replace(g, old, p, l.nbrs)
         IN deref_each(answer(flood(m, p, i), l), {old})
    [] OTHER -> h

\* An LSP l of another router, received on i.
install_remote(h, i, p, l) ==
  LET old == h.db[l.rtr_id] IN
  CASE old = NULL /\ l.purge  -> h
    [] old = NULL /\ ~l.purge -> answer(flood(add(h, p, l.nbrs), p, i), l)
    [] old # NULL /\ l.seq_no > h.pkt[old].seq_no ->
         LET g == ref(h, old)
             m == IF l.purge THEN mark_ineligible(remove(g, {old}), old)
                             ELSE replace(g, old, p, l.nbrs)
         IN deref_each(answer(flood(m, p, i), l), {old})
    [] old # NULL /\ l.seq_no < h.pkt[old].seq_no -> queue(h, {i}, old)
    [] OTHER -> h

-----------------------------------------------------------------------------
(* The handlers. *)

Running == crashed = "no" /\ node.enabled

\* What an LSP may say; a purge LSP has no TLVs, and of an own one only the number
\* is looked at.
Lsps ==
  {l \in [rtr_id : Rtrs, seq_no : 1..MaxSeq, purge : BOOLEAN,
          on_demand : BOOLEAN, nbrs : Lists] :
     /\ l.rtr_id = Self => ~l.purge
     /\ l.rtr_id = Self \/ l.purge => ~l.on_demand /\ l.nbrs = {}
     /\ l.rtr_id \notin l.nbrs}

\* isis_process_lsp_pkt
Receive(i) ==
  /\ Running /\ ~node.shutdown
  /\ ifs[i].adjacency = "up"
  /\ \E p \in Free(Now), l \in Lsps :
       /\ l.rtr_id = Self => l.seq_no <= highest
       /\ LET h == [Now EXCEPT !.pkt[p] = NewPkt(l.rtr_id, l.seq_no)] IN
          Becomes(deref_each(IF l.rtr_id = Self THEN install_own(h, p)
                                                ELSE install_remote(h, i, p, l), {p}))

\* isis_generate_lsp_pkt; the purge LSP lists nobody.
GenerateLsp ==
  /\ Running
  /\ node.lsp_pkt_gen_task
  /\ node.seq_no < MaxSeq  \* bound
  /\ LET h    == outdated([Now EXCEPT !.node.lsp_pkt_gen_task = FALSE])
         nbrs == IF node.shutdown THEN {}
                 ELSE {NbrOn[i] : i \in {j \in Intfs : ifs[j].adjacency = "up"}}
     IN \E p \in Free(h) :
          Becomes(install_generated(create_fresh(h, p), p, nbrs))

\* isis_disable_protocol_on_interface: the purge of a transmit queue leaves
\* pending_lsp_flood_count as it is.
disable(h, J) ==
  LET e == empty(h, J) IN
  [e EXCEPT !.ifs = [i \in Intfs |-> IF i \in J THEN Disabled ELSE @[i]]]

\* isis_protocol_shutdown_now
shutdown_now(h) ==
  LET self == h.node.self_lsp_pkt
      g    == cleanup(IF self = NULL THEN h ELSE deref_each(h, {self}))
      e    == disable(fails(g, \E r \in Nbrs : g.ted[r] # "absent", "ted"), Intfs)
  IN [e EXCEPT !.node = Off]

\* Mutant: the queues of the other interfaces are not looked at.
purge_sent_here(h) == h.node.shutdown /\ ~h.node.lsp_pkt_gen_task

purge_sent(h) ==
  /\ h.node.pending_lsp_flood_count = 0
  /\ h.node.shutdown
  /\ ~h.node.lsp_pkt_gen_task

\* isis_lsp_xmit_job
XmitJob(i) ==
  /\ Running
  /\ ifs[i].lsp_xmit_job
  /\ LET n == InQueues(ifs, {i}, Pkts)
         h == [empty(Now, {i}) EXCEPT !.node.pending_lsp_flood_count = @ - n]
     IN Becomes(IF purge_sent(h) THEN shutdown_now(h) ELSE h)

\* The life-time timer of a remote LSP expires, and its job removes the LSP.
LifetimeFires(p) ==
  /\ Running
  /\ pkt[p].expiry_timer = "running"
  /\ pkt' = [pkt EXCEPT ![p].expiry_timer = "expired"]
  /\ UNCHANGED <<db, ted, node, ifs, highest, crashed>>

\* isis_lsp_pkt_delete_from_lspdb_timer_cb
LifetimeJob(p) ==
  /\ Running
  /\ pkt[p].expiry_timer = "expired"
  /\ Becomes(remove([Now EXCEPT !.pkt[p].expiry_timer = "NULL"], {p}))

\* isis_timer_wrapper_lsp_flood, and what else asks for an LSP: the overload
\* commands and timer, changed attributes of a neighbour.
PeriodicLsp ==
  /\ Running
  /\ Becomes(schedule(Now))

\* isis_timer_wrapper_exit_reconciliation_phase; a shutdown stops the timer.
ReconciliationJob ==
  /\ Running /\ ~node.shutdown
  /\ node.reconciliation_in_progress
  /\ Becomes(schedule([Now EXCEPT !.node.reconciliation_in_progress = FALSE]))

\* isis_enter_reconciliation_phase re-schedules the periodic timer, which a
\* shutdown has stopped.
enter_reconciliation(h) ==
  IF h.node.reconciliation_in_progress THEN h
  ELSE fails(schedule([h EXCEPT !.node.reconciliation_in_progress = TRUE]),
             h.node.shutdown, "null")

-----------------------------------------------------------------------------
(* Adjacencies and commands.  A shutdown turns the reception of packets off. *)

AdjacencyCreated(i) ==
  /\ Running /\ ~node.shutdown
  /\ ifs[i].enabled /\ ifs[i].adjacency = "none"
  /\ ifs' = [ifs EXCEPT ![i].adjacency = "some"]
  /\ UNCHANGED <<pkt, db, ted, node, highest, crashed>>

AdjacencyUp(i) ==
  /\ Running /\ ~node.shutdown
  /\ ifs[i].adjacency = "some"
  /\ LET h == [Now EXCEPT !.ifs[i].adjacency = "up"] IN
       \/ Becomes(enter_reconciliation(h))
       \/ ~node.reconciliation_in_progress /\ Becomes(schedule(h))

\* From INIT or UP.  In the reconciliation phase its timer is prolonged, which a
\* shutdown has stopped.
AdjacencyDown(i) ==
  /\ Running
  /\ ifs[i].adjacency # "none"
  /\ LET h == [Now EXCEPT !.ifs[i].adjacency = "some"] IN
       \/ Becomes(schedule(h))
       \/ /\ node.reconciliation_in_progress
          /\ Becomes(fails(h, node.shutdown, "timer"))

AdjacencyDeleted(i) ==
  /\ Running
  /\ ifs[i].adjacency # "none"
  /\ LET h == [Now EXCEPT !.ifs[i].adjacency = "none"] IN
       Becomes(IF ifs[i].adjacency = "up" THEN schedule(h) ELSE h)

\* isis_enable_protocol_on_interface
EnableIntf(i) ==
  /\ Running
  /\ ~ifs[i].enabled
  /\ ifs' = [ifs EXCEPT ![i].enabled = TRUE]
  /\ UNCHANGED <<pkt, db, ted, node, highest, crashed>>

DisableIntf(i) ==
  /\ Running
  /\ ifs[i].enabled
  /\ LET h == disable(Now, {i}) IN
       Becomes(IF ifs[i].adjacency = "up" THEN schedule(h) ELSE h)

\* "clear node <node-name> protocol isis lsdb"
ClearLsdb ==
  /\ Running
  /\ Becomes(enter_reconciliation([cleanup(Now) EXCEPT !.node.seq_no = 0]))

\* isis_protocol_shut_down; isis_has_routes is always true, so that without an
\* interface the protocol ends at once.
Shutdown ==
  /\ Running /\ ~node.shutdown
  /\ Becomes(IF \E i \in Intfs : ifs[i].enabled
             THEN [Now EXCEPT !.node.shutdown = TRUE, !.node.lsp_pkt_gen_task = TRUE]
             ELSE shutdown_now([Now EXCEPT !.node.lsp_pkt_gen_task = FALSE]))

\* isis_init
Restart ==
  /\ crashed = "no"
  /\ ~node.enabled
  /\ node' = Started
  /\ UNCHANGED <<pkt, db, ted, ifs, highest, crashed>>

Next ==
  \/ \E i \in Intfs : Receive(i) \/ XmitJob(i)
  \/ GenerateLsp
  \/ \E p \in Pkts : LifetimeFires(p) \/ LifetimeJob(p)
  \/ PeriodicLsp
  \/ ReconciliationJob
  \/ \E i \in Intfs : AdjacencyCreated(i) \/ AdjacencyUp(i)
  \/ \E i \in Intfs : AdjacencyDown(i) \/ AdjacencyDeleted(i)
  \/ \E i \in Intfs : EnableIntf(i) \/ DisableIntf(i)
  \/ ClearLsdb
  \/ Shutdown
  \/ Restart

Spec == Init /\ [][Next]_vars

-----------------------------------------------------------------------------
(* Properties. *)

\* Every field keeps its type.
TypeOK ==
  /\ pkt \in [Pkts -> PktFields]
  /\ db \in [Rtrs -> Pkts \union {NULL}]
  /\ ted \in [Nbrs -> {"absent", "fake", "real"}]
  /\ node \in NodeFields
  /\ ifs \in [Intfs -> IntfFields]
  /\ highest \in 0..MaxSeq
  /\ crashed \in {"no", "assert", "ted", "timer", "null", "freed"}

Truth(b) == IF b THEN 1 ELSE 0

\* ref_count is the number of holders of an LSP, which are the database, the
\* node's self_lsp_pkt and the transmit queues, and flood_queue_count that of the
\* last; memory is freed exactly when nobody holds it; the node's counter of
\* queued LSPs is not too small.  In particular nothing is left after a shutdown,
\* and a disabled interface holds nothing.
CountsExact ==
  /\ \A p \in Pkts :
       LET n == InQueues(ifs, Intfs, {p}) IN
       /\ pkt[p].ref_count =
            Truth(pkt[p].installed_in_db) + Truth(node.self_lsp_pkt = p) + n
       /\ pkt[p].flood_queue_count = n
       /\ pkt[p].ref_count > 0 <=> pkt[p] # Freed
  /\ node.pending_lsp_flood_count >= InQueues(ifs, Intfs, Pkts)
  /\ \A i \in Intfs : ~ifs[i].enabled => ifs[i] = Disabled

\* No wake-up is lost: the transmit job of an interface is scheduled exactly while
\* its queue holds an LSP, so that what a shutdown waits for will be sent.
QueuesServed ==
  \A i \in Intfs : ifs[i].lsp_xmit_job <=> ifs[i].lsp_xmit_list # EmptyQueue

\* The assertions of isis_install_lsp and of the reference counts hold: whatever
\* comes back from the network, and whenever the database was cleared, a router
\* never generates an LSP that is not newer than its own in the database.
AssertsHold == crashed # "assert"

\* The database holds no own LSP but the current one, whose number the counter
\* has reached; no other own LSP can still be queued; and whenever an on-demand
\* TLV may be answered with the current one, it is in the database.
OwnLspCurrent ==
  LET self == node.self_lsp_pkt IN
  /\ db[Self] \in {NULL, self}
  /\ db[Self] # NULL => pkt[self].seq_no <= node.seq_no
  /\ \A p \in Pkts : pkt[p].rtr_id = Self /\ pkt[p].flood_eligibility => p = self
  /\ node.enabled /\ ~node.lsp_pkt_gen_task /\ ~node.reconciliation_in_progress
       => self # NULL /\ db[Self] = self

\* Database, installed_in_db, life-time timers and traffic engineering database
\* tell the same: what is in the tree says so, ages if it is another router's,
\* and has a node that is not a fake; nothing else does.
DbConsistent ==
  /\ \A p \in Pkts :
       /\ pkt[p].installed_in_db <=> \E r \in Rtrs : db[r] = p
       /\ pkt[p].expiry_timer # "NULL" <=> pkt[p].installed_in_db /\ pkt[p].rtr_id # Self
  /\ \A r \in Rtrs : db[r] # NULL => pkt[db[r]].rtr_id = r
  /\ \A r \in Nbrs : ted[r] = "real" <=> r \in Rtrs /\ db[r] # NULL

\* isis_queue_lsp_pkt_for_transmission, isis_deref_isis_pkt, isis_install_lsp: over
\* any sequence of installs, floods, clearings and shutdowns references and wake-ups
\* match the queues, and no assertion about them fails.
QueuesSound == TypeOK /\ CountsExact /\ QueuesServed /\ AssertsHold

\* isis_add_lsp_pkt_in_lspdb, isis_remove_lsp_pkt_from_lspdb: the database agrees with
\* its timers, the traffic engineering database and the router's own LSP.
DbSound == DbConsistent /\ OwnLspCurrent

\* Newest wins: no step replaces an LSP in the database by an older one.
NewestWins ==
  [][\A r \in Rtrs : db[r] # NULL /\ db'[r] # NULL
                       => pkt'[db'[r]].seq_no >= pkt[db[r]].seq_no]_vars

\* The protocol ends only after the purge LSP was generated and every queue but
\* the one just sent was empty.
ShutdownAfterPurge ==
  [][node.shutdown /\ ~node'.enabled /\ crashed' = "no" =>
       /\ ~node.lsp_pkt_gen_task
       /\ Cardinality({i \in Intfs : ifs[i].lsp_xmit_list # EmptyQueue}) <= 1]_vars
=============================================================================
