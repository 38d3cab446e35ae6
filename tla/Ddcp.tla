-------------------------------- MODULE Ddcp --------------------------------
(***************************************************************************)
(* Distributed data collection (Layer5/ddcp/ddcp.c) over a network of      *)
(* routers: a query is flooded, and every router that has not seen it yet  *)
(* answers with its data by a packet to the router that asked.             *)
(*                                                                         *)
(* The job that receives packets (pkt_recvr_job_cbk of comm.c) handles     *)
(* them, and those they give rise to, the newest first, until none is      *)
(* left; commands and timer jobs come before or after it.  Routes do not   *)
(* change (module SpfNetwork), and next hops are resolved (module Arp).    *)
(***************************************************************************)
EXTENDS Integers, Sequences, FiniteSets, SequencesExt

CONSTANTS
  Nodes,
  LinkList,     \* the links in the order they were inserted: pairs of nodes
  NextHop,      \* [Nodes -> [Nodes -> interface]]: the routes to loopback addresses
  Originators,  \* routers that are told to collect
  Changing,     \* interfaces that commands reconfigure
  InitialL3,    \* sets of interfaces that may have an address at first
  MaxQueries,   \* bound: the last query of each originator (the first is 0)
  MaxJobs,      \* bound: timer jobs waiting in the dispatcher
  MaxChanges,   \* bound: changes of interfaces
  NULL

\* Both ends of a link are routers, and routes leave over interfaces.
DdcpAssumption ==
  /\ LinkList \in Seq(Nodes \X Nodes)
  /\ NextHop \in [Nodes -> [Nodes -> (DOMAIN LinkList) \X {1, 2}]]
  /\ Originators \subseteq Nodes
  /\ Changing \subseteq (DOMAIN LinkList) \X {1, 2}
  /\ InitialL3 \subseteq SUBSET ((DOMAIN LinkList) \X {1, 2})
  /\ NULL \notin (DOMAIN LinkList) \X {1, 2}
  /\ NULL \notin [seq_no : Nat, ip_reach : SUBSET ((DOMAIN LinkList) \X {1, 2})]

\* An interface is one end of a link; node->intf is filled in the order of links.
Intfs == (DOMAIN LinkList) \X {1, 2}
NodeOf(i) == LinkList[i[1]][i[2]]
Peer(i) == <<i[1], 3 - i[2]>>
AllIntfs == [k \in 1..(2 * Len(LinkList)) |-> <<(k + 1) \div 2, 2 - (k % 2)>>]

\* The members of S in s, in their order: SelectSeq, whose definition the proofs
\* could not expand.
Only(s, S) ==
  LET f[k \in 0..Len(s)] == IF k = 0 THEN <<>>
                            ELSE IF s[k] \in S THEN Append(f[k - 1], s[k]) ELSE f[k - 1]
  IN f[Len(s)]

VARIABLES
  ddcp,      \* interfaces with the protocol enabled
  l3,        \* interfaces with an address (IS_INTF_L3_MODE)
  up,        \* interfaces that are up
  queries,   \* ddcp_query_head: the newest query seen of every originator, or NONE
  replies,   \* ddcp_reply_head: the reply kept of every router, or NULL
  periodic,  \* originators with a periodic_ddcp_query_wt_elem
  jobs,      \* timer jobs waiting, by originator
  pkts,      \* recvr_pkt_q, the newest first
  draining,  \* is the receive job at work
  calm,      \* originators whose last query nothing has disturbed
  changes,   \* number of changes so far
  crashed    \* why the process ended: "no" while it runs

vars == <<ddcp, l3, up, queries, replies, periodic, jobs, pkts, draining, calm, changes, crashed>>
config == <<ddcp, l3, up>>

NONE == -1

\* ddcp_get_ip_reach_data: the part of a reply that changes.
IpReach(n) == {i \in l3 : NodeOf(i) = n}

Init ==
  /\ ddcp = Intfs
  /\ l3 \in InitialL3
  /\ up = Intfs
  /\ queries = [n \in Nodes |-> [o \in Nodes |-> NONE]]
  /\ replies = [n \in Nodes |-> [m \in Nodes |-> NULL]]
  /\ periodic = {}
  /\ jobs = <<>>
  /\ pkts = <<>>
  /\ draining = FALSE
  /\ calm = {}
  /\ changes = 0
  /\ crashed = "no"

-----------------------------------------------------------------------------
(* Sending.                                                                *)

Query(o, i, seq) == [kind |-> "query", iif |-> Peer(i), of |-> o, seq_no |-> seq]

\* ddcp_send_ddcp_query_out, send_pkt_out
TakesPart == ddcp \intersect l3 \intersect up

Before(j, i) == j[1] < i[1] \/ (j[1] = i[1] /\ j[2] < i[2])
Others(n, exempted) == {i \in Intfs \ {exempted} : NodeOf(i) = n}

\* Mutant: the first interface that does not take part ends the loop.
sending_until(n, exempted) ==
  Only(AllIntfs, {i \in Others(n, exempted) : \A j \in Others(n, exempted) :
                    j = i \/ Before(j, i) => j \in TakesPart})

\* The loop of ddcp_flood_ddcp_query_out: other interfaces are passed over.
sending(n, exempted) == Only(AllIntfs, Others(n, exempted) \intersect TakesPart)

\* ddcp_flood_ddcp_query_out: the last interface is on top.
flood(n, o, seq, exempted) ==
  LET out == sending(n, exempted) IN Reverse([k \in DOMAIN out |-> Query(o, out[k], seq)])

\* ddcp_update_ddcp_db_self_query_info
self_seq(n) == IF queries[n][n] = NONE THEN 0 ELSE queries[n][n] + 1

Asks(n) ==
  /\ queries[n][n] < MaxQueries[n]
  /\ queries' = [queries EXCEPT ![n][n] = self_seq(n)]
  /\ pkts' = flood(n, n, self_seq(n), NULL) \o pkts
  /\ calm' = calm \union {n}

-----------------------------------------------------------------------------
(* Commands and timers: not while the receive job runs.                    *)

\* CMDCODE_RUN_DDCP_QUERY
RunQuery(n) ==
  /\ Asks(n)
  /\ UNCHANGED <<config, replies, periodic, jobs, draining, changes, crashed>>

\* CMDCODE_RUN_DDCP_QUERY_PERIODIC: takes a number that is never sent; if the
\* queries are periodic already, that is all.
RunQueryPeriodic(n) ==
  /\ queries[n][n] < MaxQueries[n]
  /\ queries' = [queries EXCEPT ![n][n] = self_seq(n)]
  /\ calm' = calm \ {n}
  /\ periodic' = periodic \union {n}
  /\ UNCHANGED <<config, replies, jobs, pkts, draining, changes, crashed>>

TimerFires(n) ==
  /\ n \in periodic
  /\ Len(jobs) < MaxJobs
  /\ jobs' = Append(jobs, n)
  /\ UNCHANGED <<config, queries, replies, periodic, pkts, draining, calm, changes, crashed>>

\* wrapper_ddcp_flood_ddcp_query_out
QueryJob ==
  /\ jobs # <<>>
  /\ Asks(Head(jobs))
  /\ jobs' = Tail(jobs)
  /\ UNCHANGED <<config, replies, periodic, draining, changes, crashed>>

Flip(S, i) == IF i \in S THEN S \ {i} ELSE S \union {i}

\* "protocol ddcp interface", "ip-address" and "if-up-down" of an interface.
ConfigIntf(i) ==
  /\ changes < MaxChanges
  /\ changes' = changes + 1
  /\ \/ ddcp' = Flip(ddcp, i) /\ UNCHANGED <<l3, up>>
     \/ l3' = Flip(l3, i) /\ UNCHANGED <<ddcp, up>>
     \/ up' = Flip(up, i) /\ UNCHANGED <<ddcp, l3>>
  /\ calm' = {}
  /\ UNCHANGED <<queries, replies, periodic, jobs, pkts, draining, crashed>>

-----------------------------------------------------------------------------
(* Receiving.                                                              *)

\* A reply on its way from m to o leaves n, unless its interface is down.
\* Without an address on that interface ARP may fail.
Sent(n, o, reply) ==
  LET oif == NextHop[n][o]  r == [reply EXCEPT !.iif = Peer(oif)] IN
  (IF oif \in up THEN {<<r>>} ELSE {<<>>}) \union (IF oif \in l3 THEN {} ELSE {<<>>})

\* Mutant: a query that has been seen is taken for a new one.
should_process_again(n, p) == p.iif \in ddcp /\ queries[n][p.of] <= p.seq_no

\* ddcp_db_should_process_ddcp_query
should_process(n, p) == p.iif \in ddcp /\ queries[n][p.of] < p.seq_no

\* ddcp_process_ddcp_query_msg: the query goes on, the reply is on top.  The
\* assertion is in ddcp_db_should_process_ddcp_query.
RecvQuery(n, p) ==
  IF p.iif \in ddcp /\ p.of = n /\ queries[n][n] = NONE
  THEN crashed' = "assert" /\ UNCHANGED <<queries, replies>> /\ pkts' = Tail(pkts)
  ELSE IF should_process(n, p)
  THEN LET reply == [kind |-> "reply", iif |-> NULL, of |-> p.of, from |-> n,
                     seq_no |-> p.seq_no, ip_reach |-> IpReach(n)] IN
       /\ queries' = [queries EXCEPT ![n][p.of] = p.seq_no]
       /\ \E r \in Sent(n, p.of, reply) : pkts' = r \o flood(n, p.of, p.seq_no, p.iif) \o Tail(pkts)
       /\ UNCHANGED <<replies, crashed>>
  ELSE pkts' = Tail(pkts) /\ UNCHANGED <<queries, replies, crashed>>

newer(old, p) == old.seq_no < p.seq_no

\* ddcp_add_or_update_ddcp_reply_msg.  A reply of another size is freed with a
\* wrong size (tcp_ip_free_pkt_buffer): undefined, here the end.
Keep(n, p) ==
  LET old == replies[n][p.from]
      new == [seq_no |-> p.seq_no, ip_reach |-> p.ip_reach]
  IN IF old # NULL /\ newer(old, p) /\ Cardinality(old.ip_reach) # Cardinality(p.ip_reach)
     THEN crashed' = "free" /\ UNCHANGED replies
     ELSE /\ replies' = IF old = NULL \/ newer(old, p)
                        THEN [replies EXCEPT ![n][p.from] = new] ELSE replies
          /\ UNCHANGED crashed

\* ddcp_process_ddcp_reply_msg, or layer3_ip_pkt_recv_from_layer2 on the way
RecvReply(n, p) ==
  /\ IF p.of = n
     THEN Keep(n, p) /\ pkts' = Tail(pkts)
     ELSE /\ \E r \in Sent(n, p.of, p) : pkts' = r \o Tail(pkts)
          /\ UNCHANGED <<replies, crashed>>
  /\ UNCHANGED queries

\* pkt_recvr_job_cbk, layer2_frame_recv: an interface without address drops it.
Recv ==
  /\ pkts # <<>>
  /\ LET p == Head(pkts)  n == NodeOf(p.iif) IN
       \/ p.iif \notin l3 /\ pkts' = Tail(pkts) /\ UNCHANGED <<queries, replies, crashed>>
       \/ p.iif \in l3 /\ p.kind = "query" /\ RecvQuery(n, p)
       \/ p.iif \in l3 /\ p.kind = "reply" /\ RecvReply(n, p)
  /\ draining' = (pkts' # <<>>)
  /\ UNCHANGED <<config, periodic, jobs, calm, changes>>

Next ==
  /\ crashed = "no"
  /\ \/ Recv
     \/ /\ ~draining
        /\ \/ \E n \in Originators : RunQuery(n) \/ RunQueryPeriodic(n) \/ TimerFires(n)
           \/ QueryJob
           \/ \E i \in Changing : ConfigIntf(i)

Spec == Init /\ [][Next]_vars

\* The dispatcher runs the receive job.
Fairness == WF_vars(crashed = "no" /\ Recv)
FairSpec == Spec /\ Fairness

-----------------------------------------------------------------------------
(* Properties.                                                             *)

\* Routers that those in S pass a query on to, and those whose replies they hear.
Asked(S) == {NodeOf(Peer(i)) : i \in {j \in TakesPart : /\ NodeOf(j) \in S
                                                      /\ Peer(j) \in ddcp \intersect l3}}
HasWay(i) == {i, Peer(i)} \subseteq l3 /\ i \in up
Heard(S, o) == {m \in Nodes : LET i == NextHop[m][o] IN HasWay(i) /\ NodeOf(Peer(i)) \in S}

\* Routers that a query of o reaches over interfaces that take part, and those
\* whose reply finds its way: the least sets with o.
Reached(o) == {m \in Nodes : \A S \in SUBSET Nodes : o \in S /\ Asked(S) \subseteq S => m \in S}
Answers(o) == {m \in Nodes : \A S \in SUBSET Nodes : o \in S /\ Heard(S, o) \subseteq S => m \in S}

\* ddcp_process_ddcp_query_msg, ddcp_add_or_update_ddcp_reply_msg: when all packets
\* of a query that no change has disturbed are handled, its originator holds, of
\* every router that the query and the way back connect, the answer to this query
\* with the router's present data, whatever queries of other routers, or older ones,
\* were about; and the assertion on the originator's own entry holds.
Collected ==
  /\ crashed # "assert"
  /\ pkts = <<>> /\ crashed = "no" =>
       \A o \in calm : \A m \in (Reached(o) \intersect Answers(o)) \ {o} :
         /\ replies[o][m] # NULL
         /\ replies[o][m].seq_no = queries[o][o]
         /\ replies[o][m].ip_reach = IpReach(m)

\* ddcp_db_should_process_ddcp_query: although queries run in circles, every flood
\* dies out and the receive job comes to its end.
FloodsEnd == draining ~> ~draining \/ crashed # "no"
=============================================================================
