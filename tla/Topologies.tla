----------------------------- MODULE Topologies -----------------------------
(***************************************************************************)
(* The topologies the program can be built with (topologies.c), and the    *)
(* calls that build them (graph.c, net.c, Layer2/layer2.c): every call of  *)
(* a build function is one step.  Costs are left out.                      *)
(*                                                                         *)
(* The MAC address of an interface is a 32-bit hash of its name and the    *)
(* name of its node: names are read character by character, and numbers    *)
(* of 32 bits are four bytes, the lowest first, as memcpy puts them into   *)
(* the address.                                                            *)
(***************************************************************************)
EXTENDS Integers, Sequences, FiniteSets, SequencesExt, TLC

CONSTANTS MAX_INTF_PER_NODE, MAX_VLAN_MEMBERSHIP, NULL

VARIABLES
  topo,     \* the build function
  step,     \* calls made so far
  nodes,    \* loopback address, direct routes, and interfaces in the order of node->intf
  links,    \* pairs of interfaces, each a node and a name
  failed    \* why an assertion failed: "no" if none has
vars == <<topo, step, nodes, links, failed>>

Node(n) == [call |-> "create_graph_node", node |-> n]
Link(n, i, m, j) == [call |-> "insert_link_between_two_nodes", ends |-> <<<<n, i>>, <<m, j>>>>]
Loopback(n, addr) == [call |-> "node_set_loopback_address", node |-> n, addr |-> addr]
Address(n, i, addr) == [call |-> "node_set_intf_ip_address", node |-> n, intf |-> i, addr |-> addr]
Mode(n, i, mode) == [call |-> "node_set_intf_l2_mode", node |-> n, intf |-> i, mode |-> mode]
Vlan(n, i, v) == [call |-> "node_set_intf_vlan_membership", node |-> n, intf |-> i, vlan |-> v]

-----------------------------------------------------------------------------
(* MAC addresses.                                                          *)

Ascii ==
  ("0" :> 48 @@ "1" :> 49 @@ "2" :> 50 @@ "3" :> 51 @@ "4" :> 52 @@ "5" :> 53 @@ "6" :> 54 @@ "7" :> 55
   @@ "8" :> 56 @@ "9" :> 57 @@ "H" :> 72 @@ "L" :> 76 @@ "R" :> 82 @@ "S" :> 83 @@ "W" :> 87
   @@ "_" :> 95 @@ "e" :> 101 @@ "h" :> 104 @@ "r" :> 114 @@ "t" :> 116)

NODE_NAME_SIZE == 16
IF_NAME_SIZE == 16

\* A name in its buffer, with zeros behind it.
Buffer(name, size) == [k \in 1..size |-> IF k <= Len(name) THEN Ascii[SubSeq(name, k, k)] ELSE 0]

\* Sums of bytes to a number of 32 bits.
Number32(sums) ==
  LET carry[k \in 0..4] == IF k = 0 THEN 0 ELSE (sums[k] + carry[k - 1]) \div 256
  IN [k \in 1..4 |-> (sums[k] + carry[k - 1]) % 256]

Times(v, w) ==
  LET sum(k) == FoldLeft(LAMBDA s, i : s + v[i] * w[k + 1 - i], 0, [i \in 1..k |-> i])
  IN Number32([k \in 1..4 |-> sum(k)])

\* Mutant: every character starts again.
hash_code_of_last(buffer) ==
  FoldLeft(LAMBDA v, c : Times(Number32(<<c, 0, 0, 0>>), <<97, 0, 0, 0>>), <<0, 0, 0, 0>>, buffer)

\* hash_code
hash_code(buffer) ==
  FoldLeft(LAMBDA v, c : Times(Number32([v EXCEPT ![1] = @ + c]), <<97, 0, 0, 0>>), <<0, 0, 0, 0>>, buffer)

\* interface_assign_mac_address
interface_assign_mac_address(n, i) ==
  Times(hash_code(Buffer(n, NODE_NAME_SIZE)), hash_code(Buffer(i, IF_NAME_SIZE)))

-----------------------------------------------------------------------------
(* The build functions.                                                    *)

build_first_topo ==
  <<Node("R0_re"), Node("R1_re"), Node("R2_re"), Link("R0_re", "eth0", "R1_re", "eth1"),
    Link("R1_re", "eth2", "R2_re", "eth3"), Link("R0_re", "eth4", "R2_re", "eth5"),
    Loopback("R0_re", <<122, 1, 1, 0>>), Address("R0_re", "eth4", <<40, 1, 1, 1>>),
    Address("R0_re", "eth0", <<20, 1, 1, 1>>), Loopback("R1_re", <<122, 1, 1, 1>>),
    Address("R1_re", "eth1", <<20, 1, 1, 2>>), Address("R1_re", "eth2", <<30, 1, 1, 1>>),
    Loopback("R2_re", <<122, 1, 1, 2>>), Address("R2_re", "eth3", <<30, 1, 1, 2>>),
    Address("R2_re", "eth5", <<40, 1, 1, 2>>)>>

build_simple_l2_switch_topo ==
  <<Node("H1"), Node("H2"), Node("H3"), Node("H4"), Node("L2SW"), Link("H1", "eth5", "L2SW", "eth4"),
    Link("H2", "eth8", "L2SW", "eth3"), Link("H3", "eth6", "L2SW", "eth2"), Link("H4", "eth7", "L2SW", "eth1"),
    Loopback("H1", <<122, 1, 1, 1>>), Address("H1", "eth5", <<10, 1, 1, 2>>), Loopback("H2", <<122, 1, 1, 2>>),
    Address("H2", "eth8", <<10, 1, 1, 4>>), Loopback("H3", <<122, 1, 1, 3>>),
    Address("H3", "eth6", <<10, 1, 1, 1>>), Loopback("H4", <<122, 1, 1, 4>>),
    Address("H4", "eth7", <<10, 1, 1, 3>>), Mode("L2SW", "eth1", "ACCESS"), Mode("L2SW", "eth2", "ACCESS"),
    Mode("L2SW", "eth3", "ACCESS"), Mode("L2SW", "eth4", "ACCESS")>>

build_square_topo ==
  <<Node("R1"), Node("R2"), Node("R3"), Node("R4"), Link("R1", "eth0", "R2", "eth1"),
    Link("R2", "eth2", "R3", "eth3"), Link("R3", "eth4", "R4", "eth5"), Link("R4", "eth6", "R1", "eth7"),
    Loopback("R1", <<122, 1, 1, 1>>), Address("R1", "eth0", <<10, 1, 1, 1>>),
    Address("R1", "eth7", <<40, 1, 1, 2>>), Loopback("R2", <<122, 1, 1, 2>>),
    Address("R2", "eth1", <<10, 1, 1, 2>>), Address("R2", "eth2", <<20, 1, 1, 1>>),
    Loopback("R3", <<122, 1, 1, 3>>), Address("R3", "eth3", <<20, 1, 1, 2>>),
    Address("R3", "eth4", <<30, 1, 1, 1>>), Loopback("R4", <<122, 1, 1, 4>>),
    Address("R4", "eth5", <<30, 1, 1, 2>>), Address("R4", "eth6", <<40, 1, 1, 1>>)>>

build_linear_topo ==
  <<Node("H1"), Node("H2"), Node("H3"), Link("H1", "eth1", "H2", "eth2"), Link("H2", "eth3", "H3", "eth4"),
    Loopback("H1", <<122, 1, 1, 1>>), Loopback("H2", <<122, 1, 1, 2>>), Loopback("H3", <<122, 1, 1, 3>>),
    Address("H1", "eth1", <<10, 1, 1, 1>>), Address("H2", "eth2", <<10, 1, 1, 2>>),
    Address("H2", "eth3", <<20, 1, 1, 2>>), Address("H3", "eth4", <<20, 1, 1, 1>>)>>

build_dualswitch_topo ==
  <<Node("H1"), Loopback("H1", <<122, 1, 1, 1>>), Node("H2"), Loopback("H2", <<122, 1, 1, 2>>), Node("H3"),
    Loopback("H3", <<122, 1, 1, 3>>), Node("H4"), Loopback("H4", <<122, 1, 1, 4>>), Node("H5"),
    Loopback("H5", <<122, 1, 1, 5>>), Node("H6"), Loopback("H6", <<122, 1, 1, 6>>), Node("L2SW1"),
    Node("L2SW2"), Link("H1", "eth1", "L2SW1", "eth2"), Link("H2", "eth3", "L2SW1", "eth7"),
    Link("H3", "eth4", "L2SW1", "eth6"), Link("L2SW1", "eth5", "L2SW2", "eth7"),
    Link("H5", "eth8", "L2SW2", "eth9"), Link("H4", "eth11", "L2SW2", "eth12"),
    Link("H6", "eth11", "L2SW2", "eth10"), Address("H1", "eth1", <<10, 1, 1, 1>>),
    Address("H2", "eth3", <<10, 1, 1, 2>>), Address("H3", "eth4", <<10, 1, 1, 3>>),
    Address("H4", "eth11", <<10, 1, 1, 4>>), Address("H5", "eth8", <<10, 1, 1, 5>>),
    Address("H6", "eth11", <<10, 1, 1, 6>>), Mode("L2SW1", "eth2", "ACCESS"), Vlan("L2SW1", "eth2", 10),
    Mode("L2SW1", "eth7", "ACCESS"), Vlan("L2SW1", "eth7", 10), Mode("L2SW1", "eth5", "TRUNK"),
    Vlan("L2SW1", "eth5", 10), Vlan("L2SW1", "eth5", 11), Mode("L2SW1", "eth6", "ACCESS"),
    Vlan("L2SW1", "eth6", 11), Mode("L2SW2", "eth7", "TRUNK"), Vlan("L2SW2", "eth7", 10),
    Vlan("L2SW2", "eth7", 11), Mode("L2SW2", "eth9", "ACCESS"), Vlan("L2SW2", "eth9", 10),
    Mode("L2SW2", "eth10", "ACCESS"), Vlan("L2SW2", "eth10", 10), Mode("L2SW2", "eth12", "ACCESS"),
    Vlan("L2SW2", "eth12", 11)>>

parallel_links_topology ==
  <<Node("R0"), Node("R1"), Link("R0", "eth0", "R1", "eth5"), Link("R0", "eth1", "R1", "eth6"),
    Link("R0", "eth2", "R1", "eth7"), Link("R0", "eth3", "R1", "eth8"), Link("R0", "eth4", "R1", "eth9"),
    Loopback("R0", <<122, 1, 1, 1>>), Loopback("R1", <<122, 1, 1, 2>>), Address("R0", "eth0", <<10, 1, 1, 1>>),
    Address("R0", "eth1", <<20, 1, 1, 1>>), Address("R0", "eth2", <<30, 1, 1, 1>>),
    Address("R0", "eth3", <<40, 1, 1, 1>>), Address("R0", "eth4", <<50, 1, 1, 1>>),
    Address("R1", "eth5", <<10, 1, 1, 2>>), Address("R1", "eth6", <<20, 1, 1, 2>>),
    Address("R1", "eth7", <<30, 1, 1, 2>>), Address("R1", "eth8", <<40, 1, 1, 2>>),
    Address("R1", "eth9", <<50, 1, 1, 2>>)>>

cross_link_topology ==
  <<Node("R0"), Node("R1"), Node("R2"), Node("R3"), Node("R4"), Node("R5"), Link("R0", "eth0", "R1", "eth1"),
    Link("R0", "eth14", "R5", "eth15"), Link("R1", "eth2", "R2", "eth3"), Link("R2", "eth8", "R3", "eth9"),
    Link("R2", "eth7", "R4", "eth6"), Link("R2", "eth4", "R5", "eth5"), Link("R3", "eth10", "R4", "eth11"),
    Link("R4", "eth13", "R5", "eth12"), Loopback("R0", <<122, 1, 1, 0>>), Loopback("R1", <<122, 1, 1, 1>>),
    Loopback("R2", <<122, 1, 1, 2>>), Loopback("R3", <<122, 1, 1, 3>>), Loopback("R4", <<122, 1, 1, 4>>),
    Loopback("R5", <<122, 1, 1, 5>>), Address("R0", "eth0", <<10, 1, 1, 1>>),
    Address("R0", "eth14", <<80, 1, 1, 1>>), Address("R1", "eth1", <<10, 1, 1, 2>>),
    Address("R1", "eth2", <<20, 1, 1, 1>>), Address("R2", "eth3", <<20, 1, 1, 2>>),
    Address("R2", "eth8", <<50, 1, 1, 1>>), Address("R2", "eth4", <<30, 1, 1, 1>>),
    Address("R2", "eth7", <<40, 1, 1, 2>>), Address("R3", "eth9", <<50, 1, 1, 2>>),
    Address("R3", "eth10", <<60, 1, 1, 1>>), Address("R4", "eth6", <<40, 1, 1, 1>>),
    Address("R4", "eth11", <<60, 1, 1, 2>>), Address("R4", "eth13", <<70, 1, 1, 2>>),
    Address("R5", "eth5", <<30, 1, 1, 2>>), Address("R5", "eth12", <<70, 1, 1, 1>>),
    Address("R5", "eth15", <<80, 1, 1, 2>>)>>

Builds ==
  [build_first_topo |-> build_first_topo, build_simple_l2_switch_topo |-> build_simple_l2_switch_topo,
   build_square_topo |-> build_square_topo, build_linear_topo |-> build_linear_topo,
   build_dualswitch_topo |-> build_dualswitch_topo, parallel_links_topology |-> parallel_links_topology,
   cross_link_topology |-> cross_link_topology]

-----------------------------------------------------------------------------
(* The calls.                                                              *)

Init ==
  /\ topo \in DOMAIN Builds
  /\ step = 0
  /\ nodes = <<>>
  /\ links = <<>>
  /\ failed = "no"

\* init_intf_nw_prop, and the MAC address.
NewInterface(n, i) ==
  [name |-> i, mac |-> interface_assign_mac_address(n, i), addr |-> NULL, mode |-> "L2_MODE_UNKNOWN", vlans |-> <<>>]

\* node_get_intf_by_name: the first of that name.
Slots(n, i) == {k \in DOMAIN nodes[n].intf : nodes[n].intf[k].name = i}
Slot(n, i) == CHOOSE k \in Slots(n, i) : \A j \in Slots(n, i) : k <= j

create_graph_node(c) ==
  /\ nodes' = (c.node :> [lb_addr |-> NULL, routes |-> {}, intf |-> <<>>]) @@ nodes
  /\ UNCHANGED <<links, failed>>

\* get_node_intf_available_slot: a node that is full has none, and the index is -1.
insert_link_between_two_nodes(c) ==
  /\ nodes' = [n \in DOMAIN nodes |->
                 [nodes[n] EXCEPT !.intf = @ \o LET mine == SelectSeq(c.ends, LAMBDA e : e[1] = n) IN
                                                [k \in DOMAIN mine |-> NewInterface(n, mine[k][2])]]]
  /\ links' = Append(links, c.ends)
  /\ failed' = IF \E e \in ToSet(c.ends) : Len(nodes[e[1]].intf) >= MAX_INTF_PER_NODE THEN "no slot" ELSE "no"

\* apply_mask with a mask of 24 bits, and the keys of rt_table_add_direct_route.
Subnet(addr) == SubSeq(addr, 1, 3)

node_set_loopback_address(c) ==
  /\ nodes' = [nodes EXCEPT ![c.node].lb_addr = c.addr, ![c.node].routes = @ \union {c.addr}]
  /\ UNCHANGED <<links, failed>>

\* interface_set_l2_mode: an interface with an address loses it.
WithMode(s, mode) ==
  IF s.addr # NULL THEN [s EXCEPT !.addr = NULL, !.mode = mode]
  ELSE IF s.mode = "TRUNK" /\ mode = "ACCESS" THEN [s EXCEPT !.mode = mode, !.vlans = <<>>]
  ELSE [s EXCEPT !.mode = mode]

\* interface_set_vlan: one for an access interface, the last call decides.
WithVlan(s, v) ==
  IF s.addr # NULL \/ s.mode = "L2_MODE_UNKNOWN" THEN s
  ELSE IF s.mode = "ACCESS" THEN [s EXCEPT !.vlans = <<v>>]
  ELSE IF v \in ToSet(s.vlans) \/ Len(s.vlans) = MAX_VLAN_MEMBERSHIP THEN s
  ELSE [s EXCEPT !.vlans = Append(@, v)]

\* node_set_intf_ip_address, node_set_intf_l2_mode, node_set_intf_vlan_membership assert
\* that the interface is there.
SetInterface(c, changed(_)) ==
  IF Slots(c.node, c.intf) = {} THEN failed' = "no interface" /\ UNCHANGED <<nodes, links>>
  ELSE /\ nodes' = [nodes EXCEPT ![c.node].intf[Slot(c.node, c.intf)] = changed(@),
                                 ![c.node].routes = IF c.call = "node_set_intf_ip_address"
                                                    THEN @ \union {Subnet(c.addr)} ELSE @]
       /\ UNCHANGED <<links, failed>>

Call(c) ==
  CASE c.call = "create_graph_node" -> create_graph_node(c)
    [] c.call = "insert_link_between_two_nodes" -> insert_link_between_two_nodes(c)
    [] c.call = "node_set_loopback_address" -> node_set_loopback_address(c)
    [] c.call = "node_set_intf_ip_address" -> SetInterface(c, LAMBDA s : [s EXCEPT !.addr = c.addr])
    [] c.call = "node_set_intf_l2_mode" -> SetInterface(c, LAMBDA s : WithMode(s, c.mode))
    [] c.call = "node_set_intf_vlan_membership" -> SetInterface(c, LAMBDA s : WithVlan(s, c.vlan))

Next ==
  /\ failed = "no"
  /\ step < Len(Builds[topo])
  /\ Call(Builds[topo][step + 1])
  /\ step' = step + 1
  /\ UNCHANGED topo

Spec == Init /\ [][Next]_vars

-----------------------------------------------------------------------------

Ports == UNION {{<<n, k>> : k \in DOMAIN nodes[n].intf} : n \in DOMAIN nodes}
Port(p) == nodes[p[1]].intf[p[2]]
End(e) == nodes[e[1]].intf[Slot(e[1], e[2])]
L3Mode(s) == s.addr # NULL
Addressed == {p \in Ports : L3Mode(Port(p))}

\* is_interface_l3_bidirectional
l3_bidirectional(l) == L3Mode(End(l[1])) /\ L3Mode(End(l[2])) /\ Subnet(End(l[1]).addr) = Subnet(End(l[2]).addr)

\* topologies.c, net.c: no call fails, whatever the topology, and MAC addresses are
\* distinct, though only hashes, as are in the end the names of interfaces on a node,
\* addresses and router ids; a node has one direct route for each of its addresses; a link joins
\* two interfaces of one subnet, or switches, and then trunks carry the same VLANs.
TopologySound ==
  /\ failed = "no"
  /\ \A p, q \in Ports : p # q => Port(p).mac # Port(q).mac
  /\ step = Len(Builds[topo]) =>
       /\ \A p, q \in Ports : p # q /\ p[1] = q[1] => Port(p).name # Port(q).name
       /\ \A p, q \in Addressed : p # q => Port(p).addr # Port(q).addr
       /\ \A n, m \in DOMAIN nodes : n # m /\ nodes[n].lb_addr = nodes[m].lb_addr => nodes[n].lb_addr = NULL
       /\ \A n \in DOMAIN nodes :
            Cardinality(nodes[n].routes) = Cardinality({p \in Addressed : p[1] = n})
                                            + (IF nodes[n].lb_addr = NULL THEN 0 ELSE 1)
       /\ \A l \in ToSet(links) :
            \/ l3_bidirectional(l)
            \/ /\ \E e \in ToSet(l) : End(e).mode # "L2_MODE_UNKNOWN"
               /\ \A e \in ToSet(l) : L3Mode(End(e)) \/ End(e).mode # "L2_MODE_UNKNOWN"
               /\ End(l[1]).mode = "TRUNK" /\ End(l[2]).mode = "TRUNK" =>
                    ToSet(End(l[1]).vlans) = ToSet(End(l[2]).vlans)
=============================================================================
