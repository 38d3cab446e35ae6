----------------------------- MODULE MCL2Switch -----------------------------
(* Two switches, as in the dual-switch topology of topologies.c: two hosts on *)
(* the first and one on the second, in two VLANs, and a trunk between; or the second  *)
(* interface of the first switch is routed.                                   *)
EXTENDS L2Switch
CONSTANTS h1, h2, h3, a1, a2, t1, t2, a3, sw1, sw2, va

MCHosts == {h1, h2, h3}
MCSlots == <<a1, a2, t1, t2, a3>>
MCPorts == {a1, a2, t1, t2, a3}
MCNodeOf == [p \in MCPorts |-> IF p \in {a1, a2, t1} THEN sw1 ELSE sw2]
MCPeer == [i \in MCHosts \union MCPorts |->
  CASE i = h1 -> a1 [] i = a1 -> h1 [] i = h2 -> a2 [] i = a2 -> h2
    [] i = h3 -> a3 [] i = a3 -> h3 [] i = t1 -> t2 [] i = t2 -> t1]
MCToward == [s \in {sw1, sw2} |-> [h \in MCHosts |->
  IF s = sw1 THEN (CASE h = h1 -> a1 [] h = h2 -> a2 [] h = h3 -> t1)
  ELSE IF h = h3 THEN a3 ELSE t2]]
Access(v) == [is_up |-> TRUE, is_ipadd_config |-> FALSE, mode |-> "ACCESS", vlans |-> {v}]
Trunk == [is_up |-> TRUE, is_ipadd_config |-> FALSE, mode |-> "TRUNK", vlans |-> Vlans]
Routed == [is_up |-> TRUE, is_ipadd_config |-> TRUE, mode |-> "UNKNOWN", vlans |-> {}]
Conf(f1, f2, f3) == [p \in MCPorts |->
  CASE p = a1 -> f1 [] p = a2 -> f2 [] p = a3 -> f3 [] OTHER -> Trunk]
RoutedConf == Conf(Access(va), Routed, Access(va))
MCConfs == {Conf(Access(10), Access(va), Access(10)), RoutedConf}
=============================================================================
