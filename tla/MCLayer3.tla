------------------------------ MODULE MCLayer3 ------------------------------
(* Layer 3, each part on its own: an initial state chooses the routing     *)
(* table of one node with one interface and two prefixes, or a network of  *)
(* routers on a triangle with a pair of parallel links, in which there are *)
(* two paths to choose from, and loops between two nodes while the tables  *)
(* change; the other stays as it is.                                       *)
EXTENDS RouteTable
CONSTANTS r0, r1, r2, Costs, INTF_METRIC_DEFAULT, INFINITE_METRIC, MAX_NXT_HOPS, Ttl, MaxChanges

VARIABLES
  part,   \* the part that runs
  cost, is_up, spf_jobs, table, pkt, silent, changes

networkVars == <<cost, is_up, spf_jobs, table, pkt, silent, changes>>

Network == INSTANCE SpfNetwork WITH
  NodeList <- <<r0, r1, r2>>,
  LinkList <- <<<<r0, r1>>, <<r0, r1>>, <<r1, r2>>, <<r2, r0>>>>,
  InitialCosts <- {<<1, 1, 3, 1>>},
  jobs <- spf_jobs
ASSUME Network!SpfAssumption

Layer3Init ==
  /\ part \in {"network", "table"}
  /\ Init /\ Network!Init

TableNext == part = "table" /\ Next /\ UNCHANGED part /\ UNCHANGED networkVars
NetworkNext == part = "network" /\ Network!Next /\ UNCHANGED part /\ UNCHANGED vars
Layer3Next == TableNext \/ NetworkNext

\* In the part that does not run nothing is enabled, and fairness asks nothing.
Layer3Spec == Layer3Init /\ [][Layer3Next]_<<part, vars, networkVars>> /\ Fairness /\ Network!Fairness

\* Module SpfNetwork: the tables that spf.c leaves are shortest.
SpfTablesShortest == part = "network" => Network!TablesShortest
\* Module SpfNetwork: packets that no change of spf.c's tables disturbs arrive.
CalmDelivered == Network!CalmDelivered
\* Module SpfNetwork: no packet is forwarded for ever.
PacketsEnd == Network!PacketsEnd
=============================================================================
