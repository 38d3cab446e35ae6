------------------------------ MODULE L2Switch ------------------------------
(***************************************************************************)
(* Layer-2 switches (Layer2/layer2.c, layer2.h and l2switch.c) between     *)
(* hosts: a frame is qualified by the interface that receives it, tagged   *)
(* with the VLAN of an access interface, learnt from, and sent out of one  *)
(* interface or flooded, untagged or not, while the operator changes       *)
(* modes, VLANs and addresses of the interfaces.                           *)
(*                                                                         *)
(* A frame in flight is in the packet queue of the event dispatcher, which *)
(* is a stack; the copies a handler sends are on top, and the receive job   *)
(* goes on until the queue is empty, before any command is executed; but a *)
(* host may send (the receiver thread takes frames from outside) while     *)
(* copies of an earlier frame still wait.  A host is an                    *)
(* interface in L3 mode with nothing behind it.  A table of VLAN slots is  *)
(* the set of its entries that are not 0.                                  *)
(***************************************************************************)
EXTENDS Integers, Sequences, FiniteSets, SequencesExt

CONSTANTS
  Hosts,       \* interfaces of hosts; the name stands for the MAC address too
  Slots,       \* interfaces of the switches, each in the order of its slots
  Switches,
  NodeOf,      \* the switch an interface of Slots belongs to
  Peer,        \* the interface at the other end of the link
  Toward,      \* [Switches -> [Hosts -> interface]]: the way to a host in the tree of links
  InitConfs,   \* configurations topologies.c may build: of each port its address, mode, VLANs
  Vlans,       \* VLAN numbers the operator uses
  VidMod,      \* 2^12: tci_vid is a signed field of 12 bits
  MAX_VLAN_MEMBERSHIP,
  MaxFrames,   \* bound: frames the hosts send
  MaxCommands, \* bound: configuration commands
  BROADCAST, NULL

Ports == ToSet(Slots)
Intfs == Hosts \union Ports

IntfConf == [is_up : BOOLEAN, is_ipadd_config : BOOLEAN,
             mode : {"ACCESS", "TRUNK", "UNKNOWN"}, vlans : SUBSET Vlans]

\* What topologies.c may build: an L2 mode or an address, and room in the table of VLANs.
Buildable(c) ==
  /\ c.mode = "UNKNOWN" => c.vlans = {}
  /\ c.mode # "UNKNOWN" => ~c.is_ipadd_config
  /\ Cardinality(c.vlans) <= IF c.mode = "ACCESS" THEN 1 ELSE MAX_VLAN_MEMBERSHIP

ASSUME SwitchAssumption ==
  /\ Vlans \subseteq 1..4095
  /\ VidMod = 4096
  /\ MAX_VLAN_MEMBERSHIP \in Nat \ {0} /\ MaxFrames \in Nat
  /\ Slots \in Seq(Ports)
  /\ Hosts \intersect Ports = {}
  /\ NodeOf \in [Ports -> Switches]
  /\ Peer \in [Intfs -> Intfs] /\ \A i \in Intfs : Peer[Peer[i]] = i
  /\ \A h \in Hosts : Peer[h] \in Ports
  /\ \A conf \in InitConfs : conf \in [Ports -> IntfConf] /\ \A p \in Ports : Buildable(conf[p])
  /\ BROADCAST \notin Hosts /\ NULL \notin Ports

\* The links form a tree: at a port to a host only that host is near, and a link
\* between two switches leads towards a host in one direction.
ASSUME TreeAssumption ==
  /\ Toward \in [Switches -> [Hosts -> Ports]]
  /\ \A s \in Switches, h \in Hosts : NodeOf[Toward[s][h]] = s
  /\ \A p \in Ports, h \in Hosts :
       IF Peer[p] \in Hosts THEN Toward[NodeOf[p]][h] = p <=> Peer[p] = h
       ELSE Toward[NodeOf[p]][h] = p <=> Toward[NodeOf[Peer[p]]][h] # Peer[p]

VARIABLES
  intf,      \* interface -> is_up, is_ipadd_config, intf_l2_mode and vlans
  mac_table, \* switch -> MAC address -> oif, or NULL
  pkt_q,     \* frames in the packet queue, the next one first
  draining,  \* is the receive job at work
  got,       \* <<number of the frame, host>>: what the hosts accepted
  promised,  \* the same pairs: what must arrive unless the operator interferes
  overlap,   \* a host has sent while a frame of another was in the queue
  sent, commands   \* counters for the bounds

vars == <<intf, mac_table, pkt_q, draining, got, promised, overlap, sent, commands>>

Untagged == 0 - VidMod   \* no 802.1Q header; no tag reads back as this

\* id and vlan are not in the frame: they say which frame it is, and in which
\* VLAN the last access interface it entered untagged has put it.
Frame == [id : 1..MaxFrames, src : Hosts, dst : Hosts \union {BROADCAST},
          tag : Vlans \union {Untagged}, at : Intfs, vlan : Vlans \union {0}]

HostIntf == [is_up |-> TRUE, is_ipadd_config |-> TRUE, mode |-> "UNKNOWN", vlans |-> {}]

Init ==
  /\ \E conf \in InitConfs : intf = [i \in Intfs |-> IF i \in Hosts THEN HostIntf ELSE conf[i]]
  /\ mac_table = [s \in Switches |-> [h \in Hosts |-> NULL]]
  /\ pkt_q = <<>> /\ draining = FALSE /\ got = {} /\ promised = {} /\ overlap = FALSE
  /\ sent = 0 /\ commands = 0

-----------------------------------------------------------------------------
(* Frames. *)

\* GET_802_1Q_VLAN_ID: the 12 bits are sign-extended.  As an uint32_t the
\* negative result is a number above 4095: like it, it equals no VLAN.
Vid(tag) == LET v == tag % VidMod IN IF v < VidMod \div 2 THEN v ELSE v - VidMod

\* is_pkt_vlan_tagged
Tagged(f) == f.tag # Untagged

\* get_access_intf_operating_vlan_id
AccessVlan(i) == IF intf[i].vlans = {} THEN 0 ELSE CHOOSE v \in intf[i].vlans : TRUE

\* is_trunk_interface_vlan_enabled; an unused slot holds 0.
TrunkEnabled(i, v) ==
  \/ v \in intf[i].vlans
  \/ v = 0 /\ Cardinality(intf[i].vlans) < MAX_VLAN_MEMBERSHIP

\* l2_frame_recv_qualify_on_interface
Qualifies(f, i) ==
  CASE intf[i].mode = "ACCESS" -> \/ ~Tagged(f)
                                  \/ AccessVlan(i) # 0 /\ Vid(f.tag) = AccessVlan(i)
    [] intf[i].mode = "TRUNK"  -> Tagged(f) /\ TrunkEnabled(i, Vid(f.tag))
    [] OTHER -> /\ intf[i].is_ipadd_config
                /\ ~Tagged(f)
                /\ f.dst \in {i, BROADCAST}

\* send_pkt_out: the frame is queued for the other end of the link.  Frames sent are
\* a set of one or none here; Stacked gives them the order of the queue.
send_pkt_out(f, oif) == IF intf[oif].is_up THEN {[f EXCEPT !.at = Peer[oif]]} ELSE {}

\* untag_pkt_with_vlan_id
Untag(f) == [f EXCEPT !.tag = Untagged]

\* Mutant: case 3 of the access interface does not compare the VLANs.
SwitchSendAnyVlan(f, oif) ==
  IF intf[oif].mode = "ACCESS" THEN send_pkt_out(Untag(f), oif) ELSE send_pkt_out(f, oif)

\* l2_switch_send_pkt_out
SwitchSend(f, oif) ==
  CASE intf[oif].mode = "ACCESS" /\ ~Tagged(f) /\ AccessVlan(oif) = 0 ->
         send_pkt_out(f, oif)
    [] intf[oif].mode = "ACCESS" /\ Tagged(f) /\ AccessVlan(oif) = Vid(f.tag) ->
         send_pkt_out(Untag(f), oif)
    [] /\ intf[oif].mode = "TRUNK" /\ Tagged(f)
       /\ Vid(f.tag) # 0 /\ TrunkEnabled(oif, Vid(f.tag)) ->
         send_pkt_out(f, oif)
    [] OTHER -> {}

\* The interfaces of a switch that take part.
L2Ports(s) == {p \in Ports : NodeOf[p] = s /\ intf[p].mode \in {"ACCESS", "TRUNK"}}

\* l2_switch_flood_pkt_out: every interface has a copy of its own.
Flood(f, s, iif) == UNION {SwitchSend(f, p) : p \in L2Ports(s) \ {iif}}

\* The table of interfaces is walked in the order of its slots, and each copy is
\* put on top of the queue: the last slot is served first.
SlotOf(f) == CHOOSE k \in DOMAIN Slots : Slots[k] = Peer[f.at]
Stacked(F) ==
  {o \in BoundedSeq(F, Len(Slots)) :
     /\ ToSet(o) = F
     /\ \A j, k \in DOMAIN o : j < k => SlotOf(o[j]) > SlotOf(o[k])}

\* l2_switch_perform_mac_learning, mac_table_entry_add: the newest interface wins.
Learn(t, src, iif) == [t EXCEPT ![src] = iif]

\* Mutant: a frame to an unknown address is dropped.
ForwardKnown(f, s, t, iif) ==
  IF f.dst = BROADCAST THEN Flood(f, s, iif)
  ELSE IF t[f.dst] = NULL THEN {} ELSE SwitchSend(f, t[f.dst])

\* l2_switch_forward_frame
Forward(f, s, t, iif) ==
  IF f.dst = BROADCAST \/ t[f.dst] = NULL THEN Flood(f, s, iif)
  ELSE SwitchSend(f, t[f.dst])

\* layer2_frame_recv tags a frame that came in untagged by an access interface
\* that is in a VLAN (tag_pkt_with_vlan_id).
TagOnEntry(f, i) ==
  IF Tagged(f) \/ intf[i].mode # "ACCESS" THEN f
  ELSE [f EXCEPT !.vlan = AccessVlan(i),
                 !.tag = IF AccessVlan(i) = 0 THEN Untagged ELSE AccessVlan(i)]

-----------------------------------------------------------------------------
(* Hosts and switches. *)

\* What must arrive: the VLAN of h leads to g over interfaces that are up, access
\* at both ends and trunks that carry it between switches.
Carries(p, v) ==
  /\ intf[p].is_up
  /\ IF Peer[p] \in Hosts THEN intf[p].mode = "ACCESS" /\ AccessVlan(p) = v
     ELSE intf[p].mode = "TRUNK" /\ v \in intf[p].vlans

Connected(h, g) ==
  \A s \in Switches : LET p == Toward[s][h]  q == Toward[s][g]
                      IN p # q => /\ Carries(p, AccessVlan(Peer[h]))
                                  /\ Carries(q, AccessVlan(Peer[h]))

\* The interface of a host stays up, and its frame is on top of the queue.
SendFrame(h, dst) ==
  /\ sent < MaxFrames
  /\ sent' = sent + 1
  /\ pkt_q' = <<[id |-> sent', src |-> h, dst |-> dst, tag |-> Untagged,
                 at |-> Peer[h], vlan |-> 0]>> \o pkt_q
  /\ overlap' = (overlap \/ pkt_q # <<>>)
  /\ promised' = promised \union
       {<<sent', g>> : g \in {g \in Hosts \ {h} : /\ dst \in {g, BROADCAST}
                                                   /\ intf[Peer[h]].mode = "ACCESS"
                                                   /\ Connected(h, g)}}
  /\ UNCHANGED <<intf, mac_table, draining, got, commands>>

\* pkt_recvr_job_cbk, layer2_frame_recv, l2_switch_recv_frame
ReceiveFrame ==
  /\ pkt_q # <<>>
  /\ LET f == Head(pkt_q)  i == f.at IN
     IF ~Qualifies(f, i) THEN
       /\ pkt_q' = Tail(pkt_q)
       /\ UNCHANGED <<mac_table, got>>
     ELSE IF intf[i].is_ipadd_config THEN
       /\ pkt_q' = Tail(pkt_q)
       /\ got' = IF i \in Hosts THEN got \union {<<f.id, i>>} ELSE got
       /\ UNCHANGED mac_table
     ELSE LET s == NodeOf[i] IN
       /\ mac_table' = [mac_table EXCEPT ![s] = Learn(@, f.src, i)]
       /\ \E o \in Stacked(Forward(TagOnEntry(f, i), s, mac_table'[s], i)) :
            pkt_q' = o \o Tail(pkt_q)
       /\ UNCHANGED got
  /\ draining' = (pkt_q' # <<>>)
  /\ UNCHANGED <<intf, promised, overlap, sent, commands>>

-----------------------------------------------------------------------------
(* The operator. *)

Command(p, new) ==
  /\ ~draining
  /\ commands < MaxCommands
  /\ commands' = commands + 1
  /\ intf' = [intf EXCEPT ![p] = new]
  /\ promised' = {}
  /\ UNCHANGED <<mac_table, pkt_q, draining, got, overlap, sent>>

\* interface_set_l2_mode
SetL2Mode(p, m) ==
  /\ intf[p].mode # m
  /\ Command(p, IF intf[p].is_ipadd_config
                THEN [intf[p] EXCEPT !.is_ipadd_config = FALSE, !.mode = m]
                ELSE IF intf[p].mode = "TRUNK"
                THEN [intf[p] EXCEPT !.mode = m, !.vlans = {}]
                ELSE [intf[p] EXCEPT !.mode = m])

\* interface_set_vlan
SetVlan(p, v) ==
  /\ ~intf[p].is_ipadd_config
  /\ v \notin intf[p].vlans
  /\ \/ /\ intf[p].mode = "ACCESS"
        /\ Command(p, [intf[p] EXCEPT !.vlans = {v}])
     \/ /\ intf[p].mode = "TRUNK"
        /\ Cardinality(intf[p].vlans) < MAX_VLAN_MEMBERSHIP
        /\ Command(p, [intf[p] EXCEPT !.vlans = @ \union {v}])

\* interface_set_ip_addr
SetIpAddr(p) ==
  /\ intf[p].mode = "UNKNOWN"
  /\ ~intf[p].is_ipadd_config
  /\ Command(p, [intf[p] EXCEPT !.is_ipadd_config = TRUE])

\* interface_unset_ip_addr
UnsetIpAddr(p) ==
  /\ intf[p].is_ipadd_config
  /\ Command(p, [intf[p] EXCEPT !.is_ipadd_config = FALSE])

\* config interface up | down
UpDown(p) == Command(p, [intf[p] EXCEPT !.is_up = ~@])

Next ==
  \/ \E h \in Hosts : \E dst \in (Hosts \ {h}) \union {BROADCAST} : SendFrame(h, dst)
  \/ ReceiveFrame
  \/ \E p \in Ports :
       \/ \E m \in {"ACCESS", "TRUNK"} : SetL2Mode(p, m)
       \/ \E v \in Vlans : SetVlan(p, v)
       \/ SetIpAddr(p) \/ UnsetIpAddr(p) \/ UpDown(p)

Spec == Init /\ [][Next]_vars

-----------------------------------------------------------------------------
(* What must hold. *)

\* Fields have their types, and the table of an access interface has one VLAN at most.
TypeOK ==
  /\ intf \in [Intfs -> IntfConf]
  /\ \A i \in Intfs : Cardinality(intf[i].vlans) <=
       (IF intf[i].mode = "ACCESS" THEN 1 ELSE MAX_VLAN_MEMBERSHIP)
  /\ mac_table \in [Switches -> [Hosts -> Ports \union {NULL}]]
  /\ pkt_q \in Seq(Frame) /\ {draining, overlap} \subseteq BOOLEAN
  /\ got \subseteq (1..MaxFrames) \X Hosts /\ promised \subseteq (1..MaxFrames) \X Hosts

\* VLAN isolation: a frame leaves an access interface only in the VLAN in which it
\* entered the switches, over any number of trunks (the cases of layer2.h and
\* l2switch.c), and never goes from a host to a host past a switch's VLANs.
VlanIsolation ==
  [][\A f \in ToSet(pkt_q') \ ToSet(pkt_q) :
       Peer[f.at] \in Ports /\ intf[Peer[f.at]].mode = "ACCESS"
         => ~Tagged(f) /\ f.vlan = AccessVlan(Peer[f.at])]_vars

\* Modes, VLAN tables and MAC tables keep their types.  A learnt interface is in an
\* L2 mode for ever: l2switch.c:160 asserts it of the interface a frame is sent out
\* of.  And as long as the hosts take turns, it is the one behind which the host
\* is, so that no frame turns in circles.
MacTableSound ==
  /\ TypeOK
  /\ \A s \in Switches, h \in Hosts : mac_table[s][h] # NULL =>
       /\ ~intf[mac_table[s][h]].is_ipadd_config
       /\ overlap \/ mac_table[s][h] = Toward[s][h]

\* When the queue is empty, every frame between two hosts that the configuration
\* connects has arrived, whatever the tables had learnt before the operator's
\* last command, if the hosts have taken turns.
ConnectedHostsHear == pkt_q = <<>> /\ ~overlap => promised \subseteq got

\* l2_switch_recv_frame: what the switches learn never keeps a host from hearing.
ForwardingSound == MacTableSound /\ ConnectedHostsHear
=============================================================================
