------------------------------ MODULE MCLayer2 ------------------------------
(* Layer 2, each part on its own: an initial state chooses the switches of *)
(* MCL2Switch, or the ARP table of one node with a neighbour; the other    *)
(* stays as it is.  Of the MAC addresses m2 has a zero byte in front: the  *)
(* copy that strncpy makes of it is all zeros, and strncmp finds the two   *)
(* equal.                                                                  *)
EXTENDS MCL2Switch, ArpTable, TLC
CONSTANTS n1, n2, eth1, eth2, m1, m2

VARIABLE part   \* the part that runs

MCIntfOf == n1 :> eth1 @@ n2 :> eth2
MCCut == m1 :> m1 @@ m2 :> NoMac @@ NoMac :> NoMac
ASSUME A!ArpAssumption

Layer2Init ==
  /\ part \in {"switches", "arp"}
  /\ Init /\ A!Init
  /\ part = "arp" => \A p \in Ports : intf[p] = RoutedConf[p]

SwitchesNext == part = "switches" /\ Next /\ UNCHANGED part /\ UNCHANGED arpVars
ArpNext == part = "arp" /\ A!Next /\ UNCHANGED part /\ UNCHANGED vars
Layer2Next == SwitchesNext \/ ArpNext

\* Among the switches no timer runs, and fairness asks nothing.
Layer2Spec == Layer2Init /\ [][Layer2Next]_<<part, vars, arpVars>> /\ A!Fairness
=============================================================================
