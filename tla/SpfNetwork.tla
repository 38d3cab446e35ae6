----------------------------- MODULE SpfNetwork -----------------------------
(***************************************************************************)
(* A network of routers whose tables are calculated by                     *)
(* Layer5/spf_algo/spf.c and which forward packets to each other's         *)
(* loopback addresses (Layer3/layer3.c).                                   *)
(*                                                                         *)
(* Every change of a metric or of an interface queues one calculation for  *)
(* each node, as jobs of the dispatcher: between these jobs some nodes     *)
(* have new routes and others old ones, and packets travel meanwhile.  The *)
(* job that receives packets (pkt_recvr_job_cbk of comm.c) goes on until   *)
(* the queue of packets is empty: once it has begun with a packet, the     *)
(* packet's hops follow one another before anything else is done.          *)
(* Interfaces have their addresses; next hops resolve to their neighbour.  *)
(***************************************************************************)
EXTENDS Integers, Sequences, FiniteSets, SequencesExt

CONSTANTS
  NodeList,    \* topo->node_list
  LinkList,    \* the links in the order they were inserted: pairs of nodes
  Costs,       \* metrics of the commands; INTF_METRIC_DEFAULT is among them
  InitialCosts,\* metrics the topology may begin with
  INTF_METRIC_DEFAULT,
  INFINITE_METRIC,
  MAX_NXT_HOPS,
  Ttl,         \* what initialize_ip_hdr sets
  MaxChanges,  \* bound: changes of the configuration
  NULL

Nodes == ToSet(NodeList)
Links == DOMAIN LinkList

\* An interface is one end of a link.
Intfs == Links \X {1, 2}
NodeOf(i) == LinkList[i[1]][i[2]]
Other(i) == <<i[1], 3 - i[2]>>
Nbr(i) == NodeOf(Other(i))

\* node->intf: filled in the order of the links.
IntfsOf ==
  [n \in Nodes |-> SelectSeq(FlattenSeq([l \in Links |-> <<<<l, 1>>, <<l, 2>>>>]),
                             LAMBDA i : NodeOf(i) = n)]

\* Every path that passes a node once is shorter than INFINITE_METRIC.
Metrics == 1..((INFINITE_METRIC - 1) \div Cardinality(Nodes))

SpfAssumption ==
  /\ Costs \subseteq Metrics /\ INTF_METRIC_DEFAULT \in Costs
  /\ InitialCosts \subseteq [Links -> Metrics]

VARIABLES
  cost,     \* link->cost
  is_up,    \* of each interface
  jobs,     \* calculations queued, by node
  table,    \* the non-direct routes of each node: to the loopback of every node
  pkt,      \* one packet, queued for the receive job, flying, or at its end
  silent,   \* has a cost changed without a notification since all tables were calculated
  changes   \* number of changes so far

vars == <<cost, is_up, jobs, table, pkt, silent, changes>>

NoPkt == [at |-> NULL, dst |-> NULL, ttl |-> 0, state |-> "none", calm |-> FALSE]

-----------------------------------------------------------------------------
(* Arrays of next hops.  A next hop is an interface of the root.           *)

NoHops == [k \in 1..MAX_NXT_HOPS |-> NULL]
used(hop) == hop # NULL
HopSet(a) == {hop \in ToSet(a) : used(hop)}

\* spf_union_nexthops_arrays: the index into the destination moves with the one
\* into the source, whether or not something is copied.
union(src, dst) ==
  LET empty == {k \in 1..MAX_NXT_HOPS : dst[k] = NULL}
      j0    == CHOOSE k \in empty : \A m \in empty : k <= m
  IN IF empty = {} THEN dst
     ELSE FoldLeft(LAMBDA d, i :
                     LET j == j0 + i - 1 IN
                     IF j > MAX_NXT_HOPS \/ src[i] = NULL \/ src[i] \in ToSet(d) THEN d
                     ELSE [d EXCEPT ![j] = src[i]],
                   dst, [i \in 1..MAX_NXT_HOPS |-> i])

\* spf_insert_new_nexthop: at the first empty place.
insert(a, hop) ==
  LET empty == {k \in 1..MAX_NXT_HOPS : a[k] = NULL} IN
  IF empty = {} THEN a ELSE [a EXCEPT ![CHOOSE k \in empty : \A m \in empty : k <= m] = hop]

-----------------------------------------------------------------------------
(* compute_spf for one root: metric and nexthops are the scratch fields of *)
(* all nodes, pq the priority list, results the nodes that are done.       *)

\* is_interface_l3_bidirectional
bidirectional(i) == is_up[i] /\ is_up[Other(i)]

Nbrs(n) == SelectSeq(IntfsOf[n], bidirectional)

\* glthread_priority_insert: after those that are not worse.
pq_insert(pq, n, metric) ==
  SelectSeq(pq, LAMBDA m : metric[m] <= metric[n]) \o <<n>>
    \o SelectSeq(pq, LAMBDA m : metric[m] > metric[n])

\* initialize_direct_nbrs: the cheapest of parallel links, or several.
direct(s, oif) ==
  LET n == Nbr(oif)  c == cost[oif[1]] IN
  CASE c < s.metric[n] -> [s EXCEPT !.nexthops[n] = insert(NoHops, oif), !.metric[n] = c]
    [] c = s.metric[n] -> [s EXCEPT !.nexthops[n] = insert(@, oif)]
    [] OTHER -> s

enqueue_nbr(s, oif) ==
  IF Nbr(oif) \in ToSet(s.pq) THEN s
  ELSE [s EXCEPT !.pq = pq_insert(@, Nbr(oif), s.metric)]

\* Mutant: a node that is reached by a shorter path keeps its place in the queue.
relax_in_place(s, n, oif) ==
  LET b == Nbr(oif)  c == s.metric[n] + cost[oif[1]] IN
  CASE c < s.metric[b] -> [s EXCEPT !.metric[b] = c,
                             !.pq = IF b \in ToSet(@) THEN @ ELSE Append(@, b)]
    [] OTHER -> s

\* The body of the loop of spf_explore_nbrs.
relax(s, n, oif) ==
  LET b == Nbr(oif)  c == s.metric[n] + cost[oif[1]] IN
  CASE c < s.metric[b] ->
         LET metric == [s.metric EXCEPT ![b] = c] IN
         [s EXCEPT !.metric = metric, !.nexthops[b] = union(s.nexthops[n], NoHops),
                   !.pq = pq_insert(Remove(@, b), b, metric)]
    [] c = s.metric[b] -> [s EXCEPT !.nexthops[b] = union(s.nexthops[n], @)]
    [] OTHER -> s

\* spf_record_result, spf_explore_nbrs
process(s, n) ==
  LET res == [node |-> n, spf_metric |-> s.metric[n], nexthops |-> union(s.nexthops[n], NoHops)]
      t   == FoldLeft(LAMBDA u, oif : relax(u, n, oif), s, Nbrs(n))
  IN [t EXCEPT !.nexthops[n] = NoHops, !.results = <<res>> \o @]

\* The loop over the priority list.
RECURSIVE explore(_)
explore(s) ==
  IF s.pq = <<>> THEN s.results
  ELSE explore(process([s EXCEPT !.pq = Tail(@)], Head(s.pq)))

spf_results(root) ==
  LET zero == [metric |-> [n \in Nodes |-> IF n = root THEN 0 ELSE INFINITE_METRIC],
               nexthops |-> [n \in Nodes |-> NoHops], pq |-> <<>>, results |-> <<>>]
  IN explore(FoldLeft(enqueue_nbr, FoldLeft(direct, zero, Nbrs(root)), Nbrs(root)))

\* spf_install_routes: the old routes go; empty places of the array are skipped.
RoutesOf(root) ==
  LET results == ToSet(spf_results(root)) IN
  [d \in Nodes |->
     IF \E r \in results : r.node = d /\ HopSet(r.nexthops) # {}
     THEN LET r == CHOOSE q \in results : q.node = d IN
          [spf_metric |-> r.spf_metric, nxthop_idx |-> 1,
           nexthops |-> SelectSeq([k \in 1..MAX_NXT_HOPS |-> r.nexthops[k]], used)]
     ELSE NULL]

Init ==
  /\ cost \in InitialCosts
  /\ is_up = [i \in Intfs |-> TRUE]
  /\ jobs = <<>>
  /\ table = [n \in Nodes |-> RoutesOf(n)]
  /\ pkt = NoPkt
  /\ silent = FALSE
  /\ changes = 0

\* The receive job is at work.
Receiving == pkt.state = "flying"

-----------------------------------------------------------------------------
(* Commands.                                                               *)

\* compute_spf_all_nodes
all_nodes == jobs \o NodeList

Change == changes < MaxChanges /\ changes' = changes + 1

\* A packet that travels through a change is not promised anything.
Disturbed == [pkt EXCEPT !.calm = FALSE]

\* intf_config_handler compares the value of the command with the metric.
metric_changed(l, given) == given # cost[l]

\* CMDCODE_INTF_CONFIG_METRIC.  "no metric" takes a value as well, which is what
\* is compared, and sets the default.
ConfigMetric(l, given, enable) ==
  LET new == IF enable THEN given ELSE INTF_METRIC_DEFAULT IN
  /\ Change
  /\ cost' = [cost EXCEPT ![l] = new]
  /\ jobs' = IF metric_changed(l, given) THEN all_nodes ELSE jobs
  /\ silent' = (silent \/ (new # cost[l] /\ jobs' = jobs))
  /\ pkt' = Disturbed
  /\ UNCHANGED <<is_up, table>>

\* CMDCODE_CONF_INTF_UP_DOWN, spf_algo_interface_update
UpDown(i) ==
  /\ Change
  /\ is_up' = [is_up EXCEPT ![i] = ~@]
  /\ jobs' = all_nodes
  /\ pkt' = Disturbed
  /\ UNCHANGED <<cost, table, silent>>

\* CMDCODE_RUN_SPF_ALL
RunSpfAll ==
  /\ Change
  /\ jobs' = all_nodes
  /\ UNCHANGED <<cost, is_up, table, pkt, silent>>

\* CMDCODE_RUN_SPF
RunSpf(n) ==
  /\ Change
  /\ table' = [table EXCEPT ![n] = RoutesOf(n)]
  /\ pkt' = Disturbed
  /\ UNCHANGED <<cost, is_up, jobs, silent>>

\* compute_spf_via_job.  When the nodes are through, nothing is silent any more.
SpfJob ==
  /\ jobs # <<>>
  /\ table' = [table EXCEPT ![Head(jobs)] = RoutesOf(Head(jobs))]
  /\ jobs' = Tail(jobs)
  /\ silent' = (silent /\ table' # [n \in Nodes |-> RoutesOf(n)])
  /\ UNCHANGED <<cost, is_up, pkt, changes>>

-----------------------------------------------------------------------------
(* One packet.                                                             *)

\* Mutant: the index is not turned round.
next_idx_on(r) == r.nxthop_idx + 1

\* l3_route_get_active_nexthop: the next hops of a route take turns.
next_idx(r) == IF r.nxthop_idx = Len(r.nexthops) THEN 1 ELSE r.nxthop_idx + 1

\* demote_packet_to_layer3 and the third case of layer3_ip_pkt_recv_from_layer2:
\* no route, a hop that is not there, or an interface that is down, is the end.
LeavesFrom(n, p) ==
  LET r == table[n][p.dst]
      there == r # NULL /\ r.nxthop_idx <= Len(r.nexthops)
      hop == r.nexthops[r.nxthop_idx]
      lost == [p EXCEPT !.state = "lost"]
  IN IF ~there THEN pkt' = lost /\ UNCHANGED table
     ELSE /\ table' = [table EXCEPT ![n][p.dst].nxthop_idx = next_idx(r)]
          /\ pkt' = IF is_up[hop] THEN [p EXCEPT !.at = Nbr(hop)] ELSE lost

\* layer3_ping_fn.  It is calm when every table is of the links as they are.
Send(n, dst) ==
  /\ pkt.state \notin {"queued", "flying"}
  /\ n # dst
  /\ LeavesFrom(n, [at |-> n, dst |-> dst, ttl |-> Ttl, state |-> "queued",
                    calm |-> jobs = <<>> /\ ~silent])
  /\ UNCHANGED <<cost, is_up, jobs, silent, changes>>

\* Mutant: the counter of the packet is not decremented.
ttl_left_same(p) == p.ttl

ttl_left(p) == p.ttl - 1

\* layer3_ip_pkt_recv_from_layer2
Recv ==
  /\ pkt.state \in {"queued", "flying"}
  /\ \/ /\ pkt.at = pkt.dst
        /\ pkt' = [pkt EXCEPT !.state = "delivered"]
        /\ UNCHANGED table
     \/ /\ pkt.at # pkt.dst
        /\ IF table[pkt.at][pkt.dst] # NULL /\ ttl_left(pkt) = 0
           THEN pkt' = [pkt EXCEPT !.state = "lost", !.ttl = 0] /\ UNCHANGED table
           ELSE LeavesFrom(pkt.at, [pkt EXCEPT !.ttl = ttl_left(pkt), !.state = "flying"])
  /\ UNCHANGED <<cost, is_up, jobs, silent, changes>>

Next ==
  \/ Recv
  \/ /\ ~Receiving
     /\ \/ \E l \in Links, c \in Costs, enable \in BOOLEAN : ConfigMetric(l, c, enable)
        \/ \E i \in Intfs : UpDown(i)
        \/ RunSpfAll
        \/ \E n \in Nodes : RunSpf(n)
        \/ SpfJob
        \/ \E n, d \in Nodes : Send(n, d)

Spec == Init /\ [][Next]_vars

\* Packets that arrive are handled.
Fairness == WF_vars(Recv)
FairSpec == Spec /\ Fairness

-----------------------------------------------------------------------------
(* Reference: distances by Bellman and Ford, and the first hops of all     *)
(* shortest paths.                                                         *)

LinkCosts(n, b) == {cost[i[1]] : i \in {j \in Intfs : NodeOf(j) = n /\ Nbr(j) = b /\ bidirectional(j)}}
Least(S) == CHOOSE x \in S : \A y \in S : x <= y

Shorter(D) ==
  [n, b \in Nodes |->
     Least({D[n, b]} \union UNION {{c + D[a, b] : c \in LinkCosts(n, a)} : a \in Nodes})]

RECURSIVE Relaxed(_)
Relaxed(D) == LET E == Shorter(D) IN IF E = D THEN D ELSE Relaxed(E)

Dist == Relaxed([n, b \in Nodes |-> IF n = b THEN 0 ELSE INFINITE_METRIC])

\* The interfaces over which n is on a shortest path to b.
FirstHops(D, n, b) ==
  {i \in Intfs : NodeOf(i) = n /\ bidirectional(i) /\ cost[i[1]] + D[Nbr(i), b] = D[n, b]}

-----------------------------------------------------------------------------
(* Properties.                                                             *)

\* compute_spf: once the queued calculations are done, the table of every node
\* leads to exactly the nodes it can reach, at the least metric, over first hops
\* of shortest paths only.  (A metric changed without a notification, which the
\* command to remove a metric does, is left out.)
TablesShortest ==
  jobs = <<>> /\ ~silent =>
    LET D == Dist IN
    \A n \in Nodes : \A d \in Nodes \ {n} :
      LET r == table[n][d] IN
      IF D[n, d] >= INFINITE_METRIC THEN r = NULL
      ELSE r # NULL /\ r.spf_metric = D[n, d] /\ ToSet(r.nexthops) \subseteq FirstHops(D, n, d)

\* spf_explore_nbrs, spf.c:429: "do union of old and new nexthops since both
\* nexthops are valid": every first hop of a shortest path is in the table, as far
\* as there is room.
EcmpComplete ==
  jobs = <<>> /\ ~silent =>
    LET D == Dist IN
    \A n \in Nodes : \A d \in Nodes \ {n} :
      table[n][d] # NULL /\ Cardinality(FirstHops(D, n, d)) <= MAX_NXT_HOPS
        => FirstHops(D, n, d) \subseteq ToSet(table[n][d].nexthops)

\* layer3_ip_pkt_recv_from_layer2: a packet that was sent with all tables up to date
\* and meets no change is delivered if its destination can be reached.
CalmDelivered ==
  pkt.state = "lost" /\ pkt.calm =>
    Dist[pkt.at, pkt.dst] >= INFINITE_METRIC

\* layer3_ip_pkt_recv_from_layer2: while tables change, packets may travel in
\* loops, but none travels for ever: the job that receives packets comes to its end.
PacketsEnd == pkt.state = "queued" ~> pkt.state \in {"delivered", "lost"}
=============================================================================
