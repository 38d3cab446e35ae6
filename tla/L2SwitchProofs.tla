--------------------------- MODULE L2SwitchProofs ---------------------------
(***************************************************************************)
(* VLAN isolation for any switches and links, and the soundness of what    *)
(* switches learn for any tree of links, any number of hosts, frames and   *)
(* commands.                                                               *)
(*                                                                         *)
(* Isolation needs that the tag of a frame is the VLAN it entered.  That   *)
(* tables point to where the hosts are needs that a frame comes from where *)
(* its sender is, that the switch before it knew the sender, and that this *)
(* switch would not have sent it here had it known better; that hosts hear *)
(* needs a frame on its way for everyone who is still to hear.             *)
(***************************************************************************)
EXTENDS L2Switch, SequenceTheorems, FiniteSetTheorems, TLAPS

\* Numbers above are read back as negative (Vid), and their frames are not forwarded:
\* what follows needs it only for the frames that must arrive.
VlansOfSwitches == Vlans \subseteq 1..2047

\* Interfaces of hosts stay as they are, those of switches as they can be built.
ConfSound ==
  /\ \A h \in Hosts : intf[h] = HostIntf
  /\ \A p \in Ports : Buildable(intf[p])

TagsSound == \A k \in DOMAIN pkt_q : Tagged(pkt_q[k]) => pkt_q[k].vlan = pkt_q[k].tag

\* A learnt interface is in an L2 mode.
LearntSound == \A s \in Switches, h \in Hosts :
  mac_table[s][h] # NULL => intf[mac_table[s][h]].mode # "UNKNOWN"

\* While hosts take turns there are only copies of the last frame.
Alone ==
  /\ \A k \in DOMAIN pkt_q : pkt_q[k].id = sent /\ pkt_q[k].dst # pkt_q[k].src
  /\ \A j, k \in DOMAIN pkt_q : pkt_q[j].src = pkt_q[k].src /\ pkt_q[j].dst = pkt_q[k].dst

\* Frames that come from where their sender is, and from a switch that knew the
\* sender, and the receiver nowhere else.
Right == {f \in Frame : f.at \in Ports =>
  LET p == Peer[f.at] IN
  /\ f.at = Toward[NodeOf[f.at]][f.src]
  /\ p \in Ports => /\ mac_table[NodeOf[p]][f.src] # NULL
                    /\ f.dst # BROADCAST => mac_table[NodeOf[p]][f.dst] \in {NULL, p}}

\* Tables point to the hosts, and a switch nearer to a known host knows it too.
TablesSound == \A s \in Switches, h \in Hosts : mac_table[s][h] # NULL =>
  /\ mac_table[s][h] = Toward[s][h]
  /\ LET p == Peer[Toward[s][h]] IN p \in Ports => mac_table[NodeOf[p]][h] # NULL

\* Frames that are at g, or at a switch on the side that is away from g, in the VLAN
\* of their sender.
OnWay(g) == {f \in Frame :
  LET v == AccessVlan(Peer[f.src]) IN
  /\ f.dst \in {g, BROADCAST} /\ g \in Hosts \ {f.src}
  /\ intf[Peer[f.src]].mode = "ACCESS" /\ Connected(f.src, g)
  /\ \/ f.at = g /\ ~Tagged(f)
     \/ /\ f.at \in Ports /\ Toward[NodeOf[f.at]][g] # f.at
        /\ IF Peer[f.at] \in Hosts THEN ~Tagged(f) ELSE f.tag = v /\ v # 0}

PromisesKept == \A m \in promised \ got :
  \E k \in DOMAIN pkt_q : pkt_q[k].id = m[1] /\ pkt_q[k] \in OnWay(m[2])

TurnsSound ==
  /\ Alone
  /\ \A k \in DOMAIN pkt_q : pkt_q[k] \in Right
  /\ TablesSound
  /\ VlansOfSwitches => PromisesKept

IInv ==
  /\ TypeOK /\ sent \in 0..MaxFrames
  /\ ConfSound /\ TagsSound /\ LearntSound
  /\ ~overlap => TurnsSound

-----------------------------------------------------------------------------
(* Frames and how they are sent. *)

\* is_pkt_vlan_tagged, GET_802_1Q_VLAN_ID: equal to a VLAN only if the tag is, and
\* always if the sign bit is not set.
LEMMA VidIsTag ==
  ASSUME NEW tag \in Vlans \union {Untagged}
  PROVE  /\ \A v \in Vlans : Vid(tag) = v => tag = v
         /\ tag # Untagged => Vid(tag) # 0
         /\ tag # Untagged /\ tag < 2048 => Vid(tag) = tag
         /\ Untagged \notin Vlans \union {0}
<1>1. Vlans \subseteq 1..4095 /\ VidMod = 4096 /\ Untagged = -4096
  BY SwitchAssumption DEF Untagged
<1>2. Vid(tag) = LET v == tag % 4096 IN IF v < 2048 THEN v ELSE v - 4096
  BY <1>1 DEF Vid
<1>3. CASE tag = Untagged
  BY <1>1, <1>2, <1>3
<1>4. CASE tag \in Vlans
  <2>1. tag \in 1..4095 /\ \A v \in Vlans : v \in 1..4095
    BY <1>1, <1>4
  <2>2. tag % 4096 = tag
    BY <2>1
  <2> QED BY <1>1, <1>2, <2>1, <2>2, SMTT(30)
<1> QED BY <1>3, <1>4

LEMMA FrameFields ==
  ASSUME NEW f \in Frame
  PROVE  /\ f.id \in 1..MaxFrames /\ f.src \in Hosts /\ f.dst \in Hosts \union {BROADCAST}
         /\ f.tag \in Vlans \union {Untagged} /\ f.at \in Intfs /\ f.vlan \in Vlans \union {0}
BY DEF Frame

LEMMA AccessVlanType ==
  ASSUME TypeOK, NEW i \in Intfs
  PROVE  AccessVlan(i) \in Vlans \union {0}
<1>1. intf[i].vlans \subseteq Vlans
  BY DEF TypeOK, IntfConf
<1> QED BY <1>1 DEF AccessVlan

\* The VLAN of a frame as the switch sees it after layer2_frame_recv.
InVlan(f) == f.vlan = IF Tagged(f) THEN f.tag ELSE 0

LEMMA EntryTags ==
  ASSUME TypeOK, NEW f \in Frame, NEW p \in Ports, p = f.at,
         Tagged(f) => f.vlan = f.tag, Qualifies(f, p), ~intf[p].is_ipadd_config
  PROVE  LET g == TagOnEntry(f, p) IN
         /\ g \in Frame /\ InVlan(g)
         /\ g.id = f.id /\ g.src = f.src /\ g.dst = f.dst /\ g.at = f.at
         /\ intf[p].mode \in {"ACCESS", "TRUNK"}
         /\ IF Tagged(f) THEN g = f
            ELSE g.tag = IF AccessVlan(p) = 0 THEN Untagged ELSE AccessVlan(p)
<1>1. intf[p].mode \in {"ACCESS", "TRUNK", "UNKNOWN"}
  BY DEF TypeOK, IntfConf, Intfs
<1>2. intf[p].mode \in {"ACCESS", "TRUNK"}
  BY <1>1 DEF Qualifies
<1>3. intf[p].mode = "TRUNK" => Tagged(f)
  BY DEF Qualifies
<1>4. AccessVlan(p) \in Vlans \union {0}
  BY AccessVlanType DEF Intfs
<1>5. CASE Tagged(f)
  BY <1>2, <1>5 DEF TagOnEntry, InVlan
<1>6. CASE ~Tagged(f)
  <2> DEFINE v == AccessVlan(p)  t == IF v = 0 THEN Untagged ELSE v
  <2>1. TagOnEntry(f, p) = [f EXCEPT !.vlan = v, !.tag = t]
    BY <1>2, <1>3, <1>6 DEF TagOnEntry
  <2>2. t \in Vlans \union {Untagged} /\ (v # 0 => t # Untagged)
    BY <1>4, VidIsTag
  <2> HIDE DEF v, t
  <2>3. [f EXCEPT !.vlan = v, !.tag = t] \in Frame
    BY <1>4, <2>2 DEF Frame, v
  <2>4. InVlan([f EXCEPT !.vlan = v, !.tag = t])
    BY <2>2 DEF InVlan, Tagged, Frame, t
  <2> QED BY <1>2, <1>6, <2>1, <2>3, <2>4 DEF Frame, t, v
<1> QED BY <1>5, <1>6

\* l2_switch_send_pkt_out: what goes out of an interface, and in which VLAN.
LEMMA SendFacts ==
  ASSUME TypeOK, NEW f \in Frame, NEW p \in Ports, NEW g \in SwitchSend(f, p)
  PROVE  /\ g \in Frame
         /\ g.at = Peer[p] /\ g.id = f.id /\ g.src = f.src /\ g.dst = f.dst /\ g.vlan = f.vlan
         /\ intf[p].mode \in {"ACCESS", "TRUNK"}
         /\ intf[p].mode = "ACCESS" => ~Tagged(g)
         /\ intf[p].mode = "TRUNK" => g.tag = f.tag
         /\ intf[p].mode = "ACCESS" /\ InVlan(f) => g.vlan = AccessVlan(p)
<1>1. Peer[p] \in Intfs
  BY SwitchAssumption DEF Intfs
<1>2. /\ [f EXCEPT !.at = Peer[p]] \in Frame
      /\ [Untag(f) EXCEPT !.at = Peer[p]] \in Frame
  BY <1>1 DEF Frame, Untag
<1>3. \/ intf[p].mode = "ACCESS" /\ ~Tagged(f) /\ AccessVlan(p) = 0 /\ g = [f EXCEPT !.at = Peer[p]]
      \/ /\ intf[p].mode = "ACCESS" /\ Tagged(f) /\ AccessVlan(p) = Vid(f.tag)
         /\ g = [Untag(f) EXCEPT !.at = Peer[p]]
      \/ intf[p].mode = "TRUNK" /\ Tagged(f) /\ Vid(f.tag) # 0 /\ g = [f EXCEPT !.at = Peer[p]]
  BY DEF SwitchSend, send_pkt_out
<1>4. f.tag \in Vlans \union {Untagged} /\ AccessVlan(p) \in Vlans \union {0}
  BY FrameFields, AccessVlanType DEF Intfs
<1>5. AccessVlan(p) = Vid(f.tag) /\ Tagged(f) => f.tag = AccessVlan(p)
  BY <1>4, VidIsTag DEF Tagged
<1> QED BY <1>2, <1>3, <1>5 DEF Frame, Untag, Tagged, InVlan

\* l2_switch_forward_frame
LEMMA ForwardFacts ==
  ASSUME NEW f \in Frame, NEW s \in Switches, NEW iif \in Ports,
         NEW t \in [Hosts -> Ports \union {NULL}], NEW g \in Forward(f, s, t, iif)
  PROVE  \E p \in Ports :
           /\ g \in SwitchSend(f, p)
           /\ \/ p \in L2Ports(s) \ {iif} /\ (f.dst = BROADCAST \/ t[f.dst] = NULL)
              \/ f.dst \in Hosts /\ p = t[f.dst]
<1>1. f.dst \in Hosts \union {BROADCAST}
  BY FrameFields
<1>2. CASE f.dst = BROADCAST \/ t[f.dst] = NULL
  BY <1>2 DEF Forward, Flood, L2Ports
<1>3. CASE f.dst # BROADCAST /\ t[f.dst] # NULL
  BY <1>1, <1>3 DEF Forward
<1> QED BY <1>2, <1>3

\* The packet queue q after the frames of F were put on top of what waits.
Follows(new, F, q) ==
  /\ new \in Seq(Frame)
  /\ \A k \in DOMAIN new : new[k] \in F \/ \E j \in DOMAIN q : new[k] = q[j]
  /\ \A f \in F : \E k \in DOMAIN new : new[k] = f
  /\ \A j \in DOMAIN q : j > 1 => \E k \in DOMAIN new : new[k] = q[j]

LEMMA StackedFacts ==
  ASSUME NEW F \in SUBSET Frame, NEW o \in Stacked(F), NEW q \in Seq(Frame), q # <<>>,
         NEW new, new = o \o Tail(q)
  PROVE  Follows(new, F, q)
<1>1. o \in Seq(F) /\ ToSet(o) = F
  <2>1. PICK m \in 0..Len(Slots) : o \in [1..m -> F]
    BY DEF Stacked, BoundedSeq, SeqOf
  <2>2. m \in Nat
    BY <2>1, SwitchAssumption
  <2> QED BY <2>1, <2>2 DEF Stacked
<1>2. o \in Seq(Frame) /\ Tail(q) \in Seq(Frame)
  BY <1>1
<1>3. /\ Len(Tail(q)) = Len(q) - 1 /\ \A j \in 1..Len(Tail(q)) : Tail(q)[j] = q[j + 1]
  OBVIOUS
<1>4. /\ new \in Seq(Frame)
      /\ DOMAIN new = 1..(Len(o) + Len(Tail(q)))
      /\ \A k \in 1..(Len(o) + Len(Tail(q))) :
           new[k] = IF k <= Len(o) THEN o[k] ELSE Tail(q)[k - Len(o)]
  BY <1>2, ConcatProperties, LenProperties
<1>5. /\ DOMAIN o = 1..Len(o) /\ DOMAIN q = 1..Len(q) /\ Len(o) \in Nat /\ Len(q) \in Nat \ {0}
      /\ F = {o[k] : k \in 1..Len(o)}
  BY <1>1 DEF ToSet
<1>6. ASSUME NEW k \in DOMAIN new PROVE new[k] \in F \/ \E j \in DOMAIN q : new[k] = q[j]
  BY <1>3, <1>4, <1>5
<1>7. ASSUME NEW f \in F PROVE \E k \in DOMAIN new : new[k] = f
  <2>1. PICK k \in 1..Len(o) : o[k] = f
    BY <1>5
  <2>2. k \in DOMAIN new /\ new[k] = f
    BY <1>3, <1>4, <1>5, <2>1
  <2> QED BY <2>2
<1>8. ASSUME NEW j \in DOMAIN q, j > 1 PROVE \E k \in DOMAIN new : new[k] = q[j]
  <2>1. /\ Len(o) + j - 1 \in DOMAIN new /\ new[Len(o) + j - 1] = q[j]
    BY <1>3, <1>4, <1>5, <1>8
  <2> QED BY <2>1
<1> QED BY <1>4, <1>6, <1>7, <1>8 DEF Follows

-----------------------------------------------------------------------------
(* The steps. *)

LEMMA InitHolds == Init => IInv
<1> SUFFICES ASSUME Init PROVE IInv
  OBVIOUS
<1>1. PICK conf \in InitConfs : intf = [i \in Intfs |-> IF i \in Hosts THEN HostIntf ELSE conf[i]]
  BY DEF Init
<1>2. /\ conf \in [Ports -> IntfConf] /\ \A p \in Ports : Buildable(conf[p])
      /\ Hosts \intersect Ports = {} /\ NULL \notin Ports /\ MaxFrames \in Nat
      /\ MAX_VLAN_MEMBERSHIP \in Nat \ {0}
  BY SwitchAssumption
<1>3. HostIntf \in IntfConf /\ Cardinality(HostIntf.vlans) = 0
  BY FS_EmptySet DEF HostIntf, IntfConf
<1>4. intf \in [Intfs -> IntfConf]
  BY <1>1, <1>2, <1>3 DEF Intfs
<1>5. ConfSound
  BY <1>1, <1>2 DEF ConfSound, Intfs
<1>6. \A i \in Intfs : Cardinality(intf[i].vlans) <=
        (IF intf[i].mode = "ACCESS" THEN 1 ELSE MAX_VLAN_MEMBERSHIP)
  <2>1. ASSUME NEW h \in Hosts PROVE intf[h].mode # "ACCESS" /\ Cardinality(intf[h].vlans) = 0
    BY <1>3, <1>5 DEF ConfSound, HostIntf
  <2>2. ASSUME NEW p \in Ports
        PROVE  Cardinality(intf[p].vlans) <=
                 (IF intf[p].mode = "ACCESS" THEN 1 ELSE MAX_VLAN_MEMBERSHIP)
    BY <1>5 DEF ConfSound, Buildable
  <2> QED BY <1>2, <2>1, <2>2 DEF Intfs
<1>7. TypeOK
  <2>1. mac_table \in [Switches -> [Hosts -> Ports \union {NULL}]]
    BY DEF Init
  <2>2. pkt_q \in Seq(Frame)
    BY EmptySeq DEF Init
  <2>3. {draining, overlap} \subseteq BOOLEAN
    BY Zenon DEF Init
  <2>4. got = {} /\ promised = {}
    BY DEF Init
  <2> QED BY <1>4, <1>6, <2>1, <2>2, <2>3, <2>4 DEF TypeOK
<1>8. TagsSound /\ LearntSound /\ TurnsSound
  BY DEF Init, TagsSound, LearntSound, TurnsSound, Alone, TablesSound, PromisesKept
<1> QED BY <1>2, <1>5, <1>7, <1>8 DEF IInv, Init

\* config: an interface of a switch gets a state it can be built in, and keeps an L2 mode.
LEMMA CommandKeeps ==
  ASSUME IInv, NEW p \in Ports, NEW new \in IntfConf, Buildable(new), Command(p, new),
         intf[p].mode # "UNKNOWN" => new.mode # "UNKNOWN"
  PROVE  IInv'
<1>1. /\ intf' = [intf EXCEPT ![p] = new] /\ promised' = {}
      /\ UNCHANGED <<mac_table, pkt_q, draining, got, overlap, sent>>
  BY DEF Command
<1>2. Hosts \intersect Ports = {} /\ Ports \subseteq Intfs /\ NULL \notin Ports
  BY SwitchAssumption DEF Intfs
<1>3. TypeOK'
  BY <1>1, <1>2 DEF IInv, TypeOK, Buildable
<1>4. ConfSound'
  BY <1>1, <1>2 DEF IInv, ConfSound, TypeOK, Intfs
<1>5. TagsSound'
  BY <1>1 DEF IInv, TagsSound
<1>6. LearntSound'
  <2> SUFFICES ASSUME NEW s \in Switches, NEW h \in Hosts, mac_table[s][h] # NULL
               PROVE  intf'[mac_table[s][h]].mode # "UNKNOWN"
    BY <1>1 DEF LearntSound
  <2>1. mac_table[s][h] \in Intfs /\ intf[mac_table[s][h]].mode # "UNKNOWN"
    BY <1>2 DEF IInv, TypeOK, LearntSound
  <2> QED BY <1>1, <2>1 DEF IInv, TypeOK
<1>7. ~overlap => Alone' /\ TablesSound' /\ (\A k \in DOMAIN pkt_q : pkt_q[k] \in Right)'
  BY <1>1 DEF IInv, TurnsSound, Alone, TablesSound, Right
<1>8. PromisesKept'
  BY <1>1 DEF PromisesKept
<1> QED BY <1>1, <1>3, <1>4, <1>5, <1>6, <1>7, <1>8 DEF IInv, TurnsSound

LEMMA OperatorKeeps ==
  ASSUME IInv, NEW p \in Ports,
         \/ \E m \in {"ACCESS", "TRUNK"} : SetL2Mode(p, m)
         \/ \E v \in Vlans : SetVlan(p, v)
         \/ SetIpAddr(p) \/ UnsetIpAddr(p) \/ UpDown(p)
  PROVE  IInv'
<1>1. /\ intf[p] \in IntfConf /\ Buildable(intf[p])
      /\ Cardinality({}) = 0 /\ MAX_VLAN_MEMBERSHIP \in Nat \ {0}
  BY SwitchAssumption, FS_EmptySet DEF IInv, TypeOK, ConfSound, Intfs
<1>2. IsFiniteSet(intf[p].vlans) /\ Cardinality(intf[p].vlans) \in Nat
  <2>1. IsFiniteSet(Vlans)
    <3>1. Vlans \subseteq 1..4095
      BY SwitchAssumption
    <3>2. Vlans \in SUBSET Nat /\ \A v \in Vlans : v <= 4095
      BY <3>1
    <3> QED BY <3>2, FS_BoundedSetOfNaturals
  <2>2. intf[p].vlans \subseteq Vlans
    BY <1>1 DEF IntfConf
  <2>3. IsFiniteSet(intf[p].vlans)
    BY <2>1, <2>2, FS_Subset
  <2> QED BY <2>3, FS_CardinalityType
<1> DEFINE c == intf[p]
<1>3. ASSUME NEW m \in {"ACCESS", "TRUNK"}, SetL2Mode(p, m) PROVE IInv'
  <2> DEFINE new == IF c.is_ipadd_config THEN [c EXCEPT !.is_ipadd_config = FALSE, !.mode = m]
                    ELSE IF c.mode = "TRUNK" THEN [c EXCEPT !.mode = m, !.vlans = {}]
                    ELSE [c EXCEPT !.mode = m]
  <2>1. Command(p, new) /\ c.mode # m
    BY <1>3 DEF SetL2Mode
  <2>2. new \in IntfConf /\ new.mode = m
    BY <1>1 DEF IntfConf
  <2>3. Buildable(new)
    BY <1>1, <1>2, <2>1 DEF Buildable, IntfConf
  <2> HIDE DEF new
  <2> QED BY <2>1, <2>2, <2>3, CommandKeeps
<1>4. ASSUME NEW v \in Vlans, SetVlan(p, v) PROVE IInv'
  <2>1. CASE c.mode = "ACCESS" /\ Command(p, [c EXCEPT !.vlans = {v}])
    <3> DEFINE new == [c EXCEPT !.vlans = {v}]
    <3>1. new \in IntfConf /\ new.mode = c.mode /\ new.vlans = {v}
             /\ new.is_ipadd_config = c.is_ipadd_config
      BY <1>1 DEF IntfConf
    <3>2. Buildable(new)
      BY <1>1, <2>1, <3>1, FS_Singleton DEF Buildable
    <3> HIDE DEF new
    <3> QED BY <2>1, <3>1, <3>2, CommandKeeps DEF new
  <2>2. CASE /\ c.mode = "TRUNK" /\ Cardinality(c.vlans) < MAX_VLAN_MEMBERSHIP
             /\ Command(p, [c EXCEPT !.vlans = @ \union {v}])
    <3> DEFINE new == [c EXCEPT !.vlans = @ \union {v}]
    <3>1. new \in IntfConf /\ new.mode = c.mode /\ new.vlans = c.vlans \union {v}
             /\ new.is_ipadd_config = c.is_ipadd_config
      BY <1>1 DEF IntfConf
    <3> HIDE DEF new
    <3>2. /\ Cardinality(new.vlans) \in Nat
          /\ Cardinality(new.vlans) = Cardinality(c.vlans) \/ Cardinality(new.vlans) = Cardinality(c.vlans) + 1
      <4>1. Cardinality(c.vlans \union {v}) =
              IF v \in c.vlans THEN Cardinality(c.vlans) ELSE Cardinality(c.vlans) + 1
        BY <1>2, FS_AddElement
      <4> QED BY <1>2, <3>1, <4>1
    <3>3. Buildable(new)
      BY <1>1, <1>2, <2>2, <3>1, <3>2 DEF Buildable
    <3> QED BY <2>2, <3>1, <3>3, CommandKeeps DEF new
  <2> QED BY <1>4, <2>1, <2>2 DEF SetVlan
<1>5. CASE SetIpAddr(p)
  <2> DEFINE new == [c EXCEPT !.is_ipadd_config = TRUE]
  <2>1. new \in IntfConf /\ Buildable(new) /\ new.mode = c.mode /\ c.mode = "UNKNOWN"
    BY <1>1, <1>5 DEF IntfConf, Buildable, SetIpAddr
  <2> HIDE DEF new
  <2> QED BY <1>5, <2>1, CommandKeeps DEF SetIpAddr, new
<1>6. CASE UnsetIpAddr(p)
  <2> DEFINE new == [c EXCEPT !.is_ipadd_config = FALSE]
  <2>1. new \in IntfConf /\ Buildable(new) /\ new.mode = c.mode
    BY <1>1 DEF IntfConf, Buildable
  <2> HIDE DEF new
  <2> QED BY <1>6, <2>1, CommandKeeps DEF UnsetIpAddr, new
<1>7. CASE UpDown(p)
  <2> DEFINE new == [c EXCEPT !.is_up = ~@]
  <2>1. new \in IntfConf /\ Buildable(new) /\ new.mode = c.mode
    BY <1>1 DEF IntfConf, Buildable
  <2> HIDE DEF new
  <2> QED BY <1>7, <2>1, CommandKeeps DEF UpDown, new
<1> QED BY <1>3, <1>4, <1>5, <1>6, <1>7

-----------------------------------------------------------------------------
(* Hosts send. *)

\* What frames may be on the way to a host depends on the configuration only.
LEMMA SameConf ==
  ASSUME intf' = intf, NEW g
  PROVE  OnWay(g)' = OnWay(g)
BY DEF OnWay, AccessVlan, Connected, Carries, Tagged

LEMMA SendKeeps ==
  ASSUME IInv, NEW h \in Hosts, NEW dst \in (Hosts \ {h}) \union {BROADCAST}, SendFrame(h, dst)
  PROVE  IInv'
<1> DEFINE new == [id |-> sent + 1, src |-> h, dst |-> dst, tag |-> Untagged,
                   at |-> Peer[h], vlan |-> 0]
           heard == {g \in Hosts \ {h} : /\ dst \in {g, BROADCAST}
                                         /\ intf[Peer[h]].mode = "ACCESS" /\ Connected(h, g)}
<1>1. /\ sent < MaxFrames /\ sent' = sent + 1 /\ pkt_q' = <<new>> \o pkt_q
      /\ overlap' = (overlap \/ pkt_q # <<>>)
      /\ promised' = promised \union {<<sent + 1, g>> : g \in heard}
      /\ UNCHANGED <<intf, mac_table, draining, got, commands>>
  BY DEF SendFrame
<1>2. /\ Peer[h] \in Ports /\ Peer[Peer[h]] = h /\ BROADCAST \notin Hosts
      /\ MaxFrames \in Nat /\ Hosts \intersect Ports = {}
  BY SwitchAssumption DEF Intfs
<1>3. sent + 1 \in 1..MaxFrames
  BY <1>1, <1>2 DEF IInv
<1>4. new \in Frame
  BY <1>2, <1>3 DEF Frame, Intfs
<1>5. pkt_q \in Seq(Frame) /\ ~Tagged(new)
  BY DEF IInv, TypeOK, Tagged
<1>6. new.id = sent + 1 /\ new.src = h /\ new.dst = dst /\ new.at = Peer[h]
  OBVIOUS
<1> HIDE DEF new
<1>7. /\ pkt_q' \in Seq(Frame) /\ pkt_q'[1] = new /\ 1 \in DOMAIN pkt_q'
      /\ \A k \in DOMAIN pkt_q' : pkt_q'[k] = new \/ \E j \in DOMAIN pkt_q : pkt_q'[k] = pkt_q[j]
  BY <1>1, <1>4, <1>5
<1>8. TypeOK'
  <2>1. promised' \subseteq (1..MaxFrames) \X Hosts
    BY <1>1, <1>3 DEF IInv, TypeOK
  <2>2. {draining, overlap}' \subseteq BOOLEAN
    BY <1>1, Zenon DEF IInv, TypeOK
  <2> QED BY <1>1, <1>7, <2>1, <2>2 DEF IInv, TypeOK
<1>9. ConfSound' /\ LearntSound' /\ sent' \in 0..MaxFrames
  BY <1>1, <1>3 DEF IInv, ConfSound, LearntSound
<1>10. TagsSound'
  BY <1>5, <1>7 DEF IInv, TagsSound, Tagged
<1>11. ASSUME ~overlap' PROVE TurnsSound'
  <2>1. ~overlap /\ pkt_q = <<>> /\ TurnsSound
    BY <1>1, <1>11 DEF IInv
  <2>2. \A k \in DOMAIN pkt_q' : pkt_q'[k] = new
    BY <1>7, <2>1
  <2>3. Alone'
    BY <1>1, <1>2, <1>6, <2>2 DEF Alone
  <2>4. new \in Right'
    <3>1. Peer[h] = Toward[NodeOf[Peer[h]]][h]
      BY <1>2, TreeAssumption
    <3> QED BY <1>2, <1>4, <1>6, <3>1 DEF Right
  <2>5. TablesSound'
    BY <1>1, <2>1 DEF TurnsSound, TablesSound
  <2>6. ASSUME VlansOfSwitches, NEW m \in promised' \ got'
        PROVE  \E k \in DOMAIN pkt_q' : pkt_q'[k].id = m[1] /\ pkt_q'[k] \in OnWay(m[2])'
    <3>1. m \notin promised
      BY <1>1, <2>1, <2>6 DEF TurnsSound, PromisesKept
    <3>2. PICK g \in heard : m = <<sent + 1, g>>
      BY <1>1, <2>6, <3>1
    <3>3. Toward[NodeOf[Peer[h]]][g] # Peer[h]
      BY <1>2, <3>2, TreeAssumption
    <3>4. new \in OnWay(g)
      BY <1>2, <1>4, <1>5, <1>6, <3>2, <3>3 DEF OnWay
    <3> QED BY <1>1, <1>6, <1>7, <3>2, <3>4, SameConf
  <2> QED BY <2>2, <2>3, <2>4, <2>5, <2>6 DEF TurnsSound, PromisesKept
<1> QED BY <1>8, <1>9, <1>10, <1>11 DEF IInv

-----------------------------------------------------------------------------
(* Frames arrive. *)

\* A frame on its way is accepted wherever it is, and the interface that leads on
\* carries its VLAN.
LEMMA WayFacts ==
  ASSUME IInv, VlansOfSwitches, NEW g, NEW f \in Right, f \in OnWay(g)
  PROVE  LET v == AccessVlan(Peer[f.src])  q == Toward[NodeOf[f.at]][g] IN
         /\ Qualifies(f, f.at) /\ g \in Hosts \ {f.src} /\ f.dst \in {g, BROADCAST}
         /\ \/ f.at = g /\ intf[f.at].is_ipadd_config /\ f.at \notin Ports
            \/ /\ f.at \in Ports /\ ~intf[f.at].is_ipadd_config
               /\ q \in L2Ports(NodeOf[f.at]) \ {f.at} /\ Carries(q, v)
               /\ \/ intf[f.at].mode = "ACCESS" /\ AccessVlan(f.at) = v /\ ~Tagged(f)
                  \/ f.tag = v /\ v # 0
<1> DEFINE v == AccessVlan(Peer[f.src])  p == f.at  q == Toward[NodeOf[p]][g]
<1>1. /\ f \in Frame /\ g \in Hosts \ {f.src} /\ f.src \in Hosts /\ f.dst \in {g, BROADCAST}
      /\ intf[Peer[f.src]].mode = "ACCESS" /\ Connected(f.src, g)
  BY FrameFields DEF OnWay
<1>2. Hosts \intersect Ports = {} /\ NodeOf \in [Ports -> Switches] /\ Peer[f.src] \in Intfs
  BY <1>1, SwitchAssumption DEF Intfs
<1>3. v \in Vlans \union {0} /\ (\A w \in Vlans : w \in 1..2047)
  BY <1>2, AccessVlanType DEF VlansOfSwitches, IInv
<1>4. CASE p = g /\ ~Tagged(f)
  BY <1>1, <1>2, <1>4 DEF IInv, ConfSound, HostIntf, Qualifies
<1>5. CASE /\ p \in Ports /\ q # p
           /\ IF Peer[p] \in Hosts THEN ~Tagged(f) ELSE f.tag = v /\ v # 0
  <2>1. NodeOf[p] \in Switches /\ q \in Ports /\ NodeOf[q] = NodeOf[p]
    BY <1>1, <1>2, <1>5, TreeAssumption
  <2>2. p = Toward[NodeOf[p]][f.src]
    BY <1>5 DEF Right
  <2>3. Carries(p, v) /\ Carries(q, v)
    BY <1>1, <1>5, <2>1, <2>2 DEF Connected
  <2>4. intf[p].mode \in {"ACCESS", "TRUNK"} /\ intf[q].mode \in {"ACCESS", "TRUNK"}
    BY <2>3 DEF Carries
  <2>5. ~intf[p].is_ipadd_config
    BY <1>5, <2>4 DEF IInv, ConfSound, Buildable
  <2>6. q \in L2Ports(NodeOf[p]) \ {p}
    BY <1>5, <2>1, <2>4 DEF L2Ports
  <2>7. CASE Peer[p] \in Hosts
    <3>1. intf[p].mode = "ACCESS" /\ AccessVlan(p) = v /\ ~Tagged(f)
      BY <1>5, <2>3, <2>7 DEF Carries
    <3>2. Qualifies(f, p)
      BY <3>1 DEF Qualifies
    <3> QED BY <1>1, <1>5, <2>3, <2>5, <2>6, <3>1, <3>2
  <2>8. CASE Peer[p] \notin Hosts
    <3>1. intf[p].mode = "TRUNK" /\ v \in intf[p].vlans /\ f.tag = v /\ v # 0
      BY <1>5, <2>3, <2>8 DEF Carries
    <3>2. v \in Vlans
      BY <1>3, <3>1
    <3>3. Vid(v) = v /\ v # Untagged
      BY <1>3, <3>2, VidIsTag, SMTT(30)
    <3>4. Qualifies(f, p)
      BY <3>1, <3>3 DEF Qualifies, Tagged, TrunkEnabled
    <3> QED BY <1>1, <1>5, <2>3, <2>5, <2>6, <3>1, <3>4
  <2> QED BY <2>7, <2>8
<1> QED BY <1>4, <1>5 DEF OnWay

\* One switch further: what it sends towards g is on its way to g.
LEMMA WayGoesOn ==
  ASSUME IInv, VlansOfSwitches, NEW g, NEW f \in Right, f \in OnWay(g), f.at \in Ports,
         Tagged(f) => f.vlan = f.tag
  PROVE  \E y \in SwitchSend(TagOnEntry(f, f.at), Toward[NodeOf[f.at]][g]) :
           y \in OnWay(g) /\ y.id = f.id
<1> DEFINE v == AccessVlan(Peer[f.src])  p == f.at  q == Toward[NodeOf[p]][g]
           x == TagOnEntry(f, p)
<1>1. /\ Qualifies(f, p) /\ ~intf[p].is_ipadd_config /\ g \in Hosts \ {f.src}
      /\ q \in L2Ports(NodeOf[p]) \ {p} /\ Carries(q, v)
      /\ \/ intf[p].mode = "ACCESS" /\ AccessVlan(p) = v /\ ~Tagged(f)
         \/ f.tag = v /\ v # 0
  <2>1. f.at # g
    BY SwitchAssumption DEF OnWay
  <2> QED BY <2>1, WayFacts
<1>2. /\ f \in Frame /\ f.src \in Hosts /\ f.dst \in {g, BROADCAST}
      /\ intf[Peer[f.src]].mode = "ACCESS" /\ Connected(f.src, g)
  BY FrameFields DEF OnWay
<1>3. /\ x \in Frame /\ x.id = f.id /\ x.src = f.src /\ x.dst = f.dst
      /\ IF Tagged(f) THEN x = f
         ELSE x.tag = IF AccessVlan(p) = 0 THEN Untagged ELSE AccessVlan(p)
  BY <1>1, <1>2, EntryTags DEF IInv
<1> HIDE DEF x
<1>4. v \in Vlans \union {0} /\ (\A w \in Vlans : w \in 1..2047)
  BY <1>2, AccessVlanType, SwitchAssumption DEF VlansOfSwitches, Intfs, IInv
<1>5. v \in Vlans => Vid(v) = v /\ v # Untagged /\ v # 0
  BY <1>4, VidIsTag, SMTT(30)
<1>6. x.tag = IF v = 0 THEN Untagged ELSE v
  BY <1>1, <1>3, <1>4, <1>5 DEF Tagged
<1>7. q \in Ports /\ intf[q].is_up /\ Peer[q] \in Intfs /\ Peer[Peer[q]] = q
      /\ NodeOf[p] \in Switches /\ Hosts \intersect Ports = {}
  BY <1>1, SwitchAssumption DEF L2Ports, Carries, Intfs
<1>8. CASE Peer[q] \in Hosts
  <2>1. Peer[q] = g
    BY <1>1, <1>7, <1>8, TreeAssumption DEF L2Ports
  <2>2. intf[q].mode = "ACCESS" /\ AccessVlan(q) = v
    BY <1>1, <1>8 DEF Carries
  <2> DEFINE y == [x EXCEPT !.tag = Untagged, !.at = Peer[q]]
  <2>3. y \in SwitchSend(x, q)
    <3>1. CASE v = 0
      <4>1. y = [x EXCEPT !.at = Peer[q]]
        BY <1>3, <1>6, <3>1 DEF Frame
      <4> QED BY <1>6, <1>7, <2>2, <3>1, <4>1 DEF SwitchSend, Tagged, send_pkt_out
    <3>2. CASE v # 0
      <4>1. Tagged(x) /\ AccessVlan(q) = Vid(x.tag)
        BY <1>4, <1>5, <1>6, <2>2, <3>2 DEF Tagged
      <4>2. y = [Untag(x) EXCEPT !.at = Peer[q]]
        BY <1>3 DEF Frame, Untag
      <4> QED BY <1>7, <2>2, <4>1, <4>2 DEF SwitchSend, send_pkt_out
    <3> QED BY <3>1, <3>2
  <2>4. y \in Frame /\ y.src = f.src /\ y.dst = f.dst /\ y.at = g /\ ~Tagged(y) /\ y.id = f.id
    BY <1>3, <1>7, <2>1 DEF Frame, Tagged
  <2> HIDE DEF y
  <2>5. y \in OnWay(g)
    BY <1>1, <1>2, <2>4 DEF OnWay
  <2> QED BY <2>3, <2>4, <2>5 DEF x
<1>9. CASE Peer[q] \notin Hosts
  <2>1. intf[q].mode = "TRUNK" /\ v \in intf[q].vlans
    BY <1>1, <1>9 DEF Carries
  <2>2. v \in Vlans
    BY <1>7, <2>1 DEF IInv, TypeOK, IntfConf, Intfs
  <2> DEFINE y == [x EXCEPT !.at = Peer[q]]
  <2>3. x.tag = v /\ Tagged(x)
    BY <1>5, <1>6, <2>2 DEF Tagged
  <2>4. y \in SwitchSend(x, q)
    BY <1>5, <1>7, <2>1, <2>2, <2>3 DEF SwitchSend, send_pkt_out, TrunkEnabled
  <2>5. /\ y \in Frame /\ y.src = f.src /\ y.dst = f.dst /\ y.at = Peer[q] /\ y.tag = v
        /\ y.id = f.id
    BY <1>3, <1>7, <2>3 DEF Frame
  <2> HIDE DEF y
  <2>6. Toward[NodeOf[Peer[q]]][g] # Peer[q] /\ Peer[q] \in Ports
    <3>1. NodeOf[q] = NodeOf[p]
      BY <1>1 DEF L2Ports
    <3>2. Toward[NodeOf[q]][g] = q
      BY <3>1
    <3> HIDE DEF q
    <3> QED BY <1>1, <1>7, <1>9, <3>2, TreeAssumption DEF Intfs
  <2>7. y \in OnWay(g)
    BY <1>1, <1>2, <1>5, <1>7, <2>2, <2>5, <2>6 DEF OnWay
  <2> QED BY <2>4, <2>5, <2>7 DEF x
<1> QED BY <1>8, <1>9

\* layer2_frame_recv: the frame is dropped, or promoted to layer 3.
LEMMA TakenKeeps ==
  ASSUME IInv, ReceiveFrame, NEW f, f = Head(pkt_q),
         ~Qualifies(f, f.at) \/ intf[f.at].is_ipadd_config
  PROVE  IInv'
<1>1. pkt_q \in Seq(Frame) /\ pkt_q # <<>>
  BY DEF ReceiveFrame, IInv, TypeOK
<1>2. /\ f \in Frame /\ f = pkt_q[1] /\ 1 \in DOMAIN pkt_q
      /\ Tail(pkt_q) \in Seq(Frame)
      /\ \A k \in DOMAIN Tail(pkt_q) : k + 1 \in DOMAIN pkt_q /\ Tail(pkt_q)[k] = pkt_q[k + 1]
      /\ \A k \in DOMAIN pkt_q : k # 1 => k - 1 \in DOMAIN Tail(pkt_q) /\ Tail(pkt_q)[k - 1] = pkt_q[k]
  BY <1>1
<1>3. /\ pkt_q' = Tail(pkt_q) /\ mac_table' = mac_table
      /\ got' = IF Qualifies(f, f.at) /\ f.at \in Hosts THEN got \union {<<f.id, f.at>>} ELSE got
      /\ draining' = (pkt_q' # <<>>)
      /\ UNCHANGED <<intf, promised, overlap, sent, commands>>
  BY DEF ReceiveFrame
<1>4. TypeOK'
  <2>1. got' \subseteq (1..MaxFrames) \X Hosts
    BY <1>2, <1>3, FrameFields DEF IInv, TypeOK
  <2>2. {draining, overlap}' \subseteq BOOLEAN
    BY <1>3, Zenon DEF IInv, TypeOK
  <2> QED BY <1>2, <1>3, <2>1, <2>2 DEF IInv, TypeOK
<1>5. ConfSound' /\ LearntSound' /\ sent' \in 0..MaxFrames
  BY <1>3 DEF IInv, ConfSound, LearntSound
<1>6. TagsSound'
  BY <1>2, <1>3 DEF IInv, TagsSound, Tagged
<1>7. ASSUME ~overlap' PROVE TurnsSound'
  <2>1. TurnsSound
    BY <1>3, <1>7 DEF IInv
  <2>2. Alone' /\ TablesSound'
    BY <1>2, <1>3, <2>1 DEF TurnsSound, Alone, TablesSound
  <2>3. \A k \in DOMAIN pkt_q' : pkt_q'[k] \in Right'
    BY <1>2, <1>3, <2>1 DEF TurnsSound, Right
  <2>4. ASSUME VlansOfSwitches, NEW m \in promised' \ got'
        PROVE  \E k \in DOMAIN pkt_q' : pkt_q'[k].id = m[1] /\ pkt_q'[k] \in OnWay(m[2])'
    <3>1. m \in promised \ got /\ m = <<m[1], m[2]>>
      BY <1>3, <2>4 DEF IInv, TypeOK
    <3>2. PICK k \in DOMAIN pkt_q : pkt_q[k].id = m[1] /\ pkt_q[k] \in OnWay(m[2])
      BY <2>1, <2>4, <3>1 DEF TurnsSound, PromisesKept
    <3>3. k # 1
      <4> SUFFICES ASSUME k = 1 PROVE FALSE
        OBVIOUS
      <4>1. f \in OnWay(m[2]) /\ f \in Right /\ f.id = m[1]
        BY <1>2, <2>1, <3>2 DEF TurnsSound
      <4>2. Qualifies(f, f.at) /\ intf[f.at].is_ipadd_config /\ f.at = m[2] /\ f.at \in Hosts
        BY <2>4, <4>1, WayFacts
      <4> QED BY <1>3, <2>4, <3>1, <4>1, <4>2
    <3>4. k - 1 \in DOMAIN pkt_q' /\ pkt_q'[k - 1] = pkt_q[k]
      BY <1>2, <1>3, <3>3
    <3>5. OnWay(m[2])' = OnWay(m[2])
      BY <1>3, SameConf
    <3> QED BY <3>2, <3>4, <3>5
  <2> QED BY <2>2, <2>3, <2>4 DEF TurnsSound, PromisesKept
<1> QED BY <1>4, <1>5, <1>6, <1>7 DEF IInv

\* l2_switch_recv_frame, l2_switch_forward_frame, while hosts take turns: what is sent
\* is a copy of f, comes from the right side, and leaves for where it is on its way to.
LEMMA CopiesRight ==
  ASSUME TypeOK, TurnsSound, NEW p \in Ports, NEW s \in Switches, s = NodeOf[p],
         NEW f \in Right, f.at = p, f.dst # f.src,
         NEW x \in Frame, x.id = f.id, x.src = f.src, x.dst = f.dst,
         NEW t \in [Hosts -> Ports \union {NULL}],
         t[f.src] = p, \A h \in Hosts \ {f.src} : t[h] = mac_table[s][h],
         mac_table'[s] = t, \A r \in Switches \ {s} : mac_table'[r] = mac_table[r],
         NEW y \in Forward(x, s, t, p)
  PROVE  y \in Right' /\ y.id = f.id /\ y.src = f.src /\ y.dst = f.dst
<1>1. /\ f \in Frame /\ f.src \in Hosts /\ f.dst \in Hosts \union {BROADCAST}
      /\ BROADCAST \notin Hosts /\ NULL \notin Ports /\ Hosts \intersect Ports = {}
  BY FrameFields, SwitchAssumption DEF Right
<1>2. \E q \in Ports :
        /\ y \in SwitchSend(x, q)
        /\ \/ q \in L2Ports(s) \ {p} /\ (x.dst = BROADCAST \/ t[x.dst] = NULL)
           \/ x.dst \in Hosts /\ q = t[x.dst]
  BY ForwardFacts
<1>3. \A q \in Ports : NodeOf[q] \in Switches
  BY SwitchAssumption
<1>4. PICK q \in Ports :
        /\ y \in SwitchSend(x, q)
        /\ \/ q \in L2Ports(s) \ {p} /\ (f.dst = BROADCAST \/ t[f.dst] = NULL)
           \/ f.dst \in Hosts /\ q = t[f.dst]
  BY <1>2
<1>5. y \in Frame /\ y.at = Peer[q] /\ y.id = f.id /\ y.src = f.src /\ y.dst = f.dst
  BY <1>4, SendFacts
<1>6. p = Toward[s][f.src] /\ TablesSound
  BY DEF Right, TurnsSound
<1>7. NodeOf[q] = s /\ q # p /\ (f.dst # BROADCAST => t[f.dst] \in {NULL, q})
  <2>1. CASE q \in L2Ports(s) \ {p} /\ (f.dst = BROADCAST \/ t[f.dst] = NULL)
    BY <2>1 DEF L2Ports
  <2>2. CASE f.dst \in Hosts /\ q = t[f.dst]
    <3>1. q = mac_table[s][f.dst] /\ q # NULL /\ q = Toward[s][f.dst]
      <4>1. q = mac_table[s][f.dst]
        BY <2>2
      <4>2. q # NULL
        BY <1>1
      <4> QED BY <1>6, <2>2, <4>1, <4>2 DEF TablesSound
    <3>2. NodeOf[q] = s
      BY <1>1, <2>2, <3>1, TreeAssumption
    <3>3. q # p
      <4> SUFFICES ASSUME q = p PROVE FALSE
        OBVIOUS
      <4>0. \A h \in Hosts :
              IF Peer[p] \in Hosts THEN Toward[s][h] = p <=> Peer[p] = h
              ELSE Toward[s][h] = p <=> Toward[NodeOf[Peer[p]]][h] # Peer[p]
        BY TreeAssumption
      <4>1. CASE Peer[p] \in Hosts
        <5>1. Toward[s][f.src] = p /\ Toward[s][f.dst] = p
          BY <1>6, <3>1
        <5>2. Peer[p] = f.src /\ Peer[p] = f.dst
          BY <1>1, <2>2, <4>0, <4>1, <5>1
        <5> QED BY <5>2
      <4>2. CASE Peer[p] \notin Hosts
        <5>1. Peer[p] \in Ports
          BY <4>2, SwitchAssumption DEF Intfs
        <5> DEFINE r == NodeOf[Peer[p]]
        <5>2. r \in Switches
          BY <5>1, SwitchAssumption
        <5>3. mac_table[r][f.dst] # NULL
          <6>1. mac_table[s][f.dst] # NULL /\ Peer[Toward[s][f.dst]] = Peer[p]
            BY <3>1
          <6>2. \A h \in Hosts : mac_table[s][h] # NULL /\ Peer[Toward[s][h]] \in Ports
                  => mac_table[NodeOf[Peer[Toward[s][h]]]][h] # NULL
            BY <1>6 DEF TablesSound
          <6> QED BY <2>2, <5>1, <6>1, <6>2
        <5>4. mac_table[r][f.dst] = Peer[p]
          BY <1>1, <2>2, <5>1, <5>3 DEF Right
        <5>5. mac_table[r][f.dst] = Toward[r][f.dst]
          BY <1>6, <2>2, <5>2, <5>3 DEF TablesSound
        <5>6. Toward[r][f.dst] # Peer[p]
          BY <2>2, <3>1, <4>0, <4>2
        <5> QED BY <5>4, <5>5, <5>6
      <4> QED BY <4>1, <4>2
    <3> QED BY <2>2, <3>2, <3>3
  <2> QED BY <1>4, <2>1, <2>2
<1>8. ASSUME Peer[q] \in Ports
      PROVE  /\ Peer[q] = Toward[NodeOf[Peer[q]]][f.src]
             /\ Peer[Peer[q]] = q
  <2>1. Toward[NodeOf[q]][f.src] # q
    BY <1>6, <1>7
  <2>2. Peer[Peer[q]] = q
    BY SwitchAssumption DEF Intfs
  <2> QED BY <1>1, <1>8, <2>1, <2>2, TreeAssumption
<1> QED BY <1>1, <1>3, <1>5, <1>7, <1>8 DEF Right

LEMMA ForwardKeeps ==
  ASSUME IInv, ReceiveFrame, NEW f, f = Head(pkt_q),
         Qualifies(f, f.at), ~intf[f.at].is_ipadd_config
  PROVE  IInv'
<1> DEFINE p == f.at  s == NodeOf[p]  x == TagOnEntry(f, p)
           t == [mac_table[s] EXCEPT ![f.src] = p]
           F == Forward(x, s, t, p)
<1>1. pkt_q \in Seq(Frame) /\ pkt_q # <<>>
  BY DEF ReceiveFrame, IInv, TypeOK
<1>2. f \in Frame /\ f = pkt_q[1] /\ 1 \in DOMAIN pkt_q /\ f.src \in Hosts
  BY <1>1, FrameFields
<1>3. p \in Ports /\ s \in Switches /\ NULL \notin Ports
  <2>1. p \in Intfs
    BY <1>2, FrameFields
  <2>2. p \notin Hosts
    BY DEF IInv, ConfSound, HostIntf
  <2> QED BY <2>1, <2>2, SwitchAssumption DEF Intfs
<1>4. /\ mac_table \in [Switches -> [Hosts -> Ports \union {NULL}]]
      /\ mac_table' = [mac_table EXCEPT ![s] = t] /\ mac_table'[s] = t
      /\ t \in [Hosts -> Ports \union {NULL}]
  BY <1>2, <1>3 DEF ReceiveFrame, Learn, IInv, TypeOK
<1>5. /\ \E o \in Stacked(F) : pkt_q' = o \o Tail(pkt_q)
      /\ draining' = (pkt_q' # <<>>) /\ got' = got
      /\ UNCHANGED <<intf, promised, overlap, sent, commands>>
  <2>1. \E o \in Stacked(Forward(x, s, mac_table'[s], p)) : pkt_q' = o \o Tail(pkt_q)
    BY DEF ReceiveFrame
  <2> QED BY <1>4, <2>1 DEF ReceiveFrame
<1>6. Tagged(f) => f.vlan = f.tag
  BY <1>2 DEF IInv, TagsSound
<1>7. /\ x \in Frame /\ InVlan(x) /\ x.id = f.id /\ x.src = f.src /\ x.dst = f.dst
      /\ intf[p].mode \in {"ACCESS", "TRUNK"}
  BY <1>2, <1>3, <1>6, EntryTags DEF IInv
<1> HIDE DEF x, t, F
<1>8. \A y \in F : \E q \in Ports :
        /\ y \in SwitchSend(x, q)
        /\ \/ q \in L2Ports(s) \ {p} /\ (x.dst = BROADCAST \/ t[x.dst] = NULL)
           \/ x.dst \in Hosts /\ q = t[x.dst]
  BY <1>3, <1>4, <1>7, ForwardFacts DEF F
<1>9. \A y \in F : y \in Frame /\ (Tagged(y) => y.vlan = y.tag)
  <2> SUFFICES ASSUME NEW y \in F, NEW q \in Ports, y \in SwitchSend(x, q)
               PROVE  y \in Frame /\ (Tagged(y) => y.vlan = y.tag)
    BY <1>8
  <2>1. /\ y \in Frame /\ y.vlan = x.vlan /\ intf[q].mode \in {"ACCESS", "TRUNK"}
        /\ intf[q].mode = "ACCESS" => ~Tagged(y)
        /\ intf[q].mode = "TRUNK" => y.tag = x.tag
    BY <1>7, SendFacts DEF IInv
  <2> QED BY <1>7, <2>1 DEF InVlan, Tagged
<1>10. /\ pkt_q' \in Seq(Frame)
       /\ \A k \in DOMAIN pkt_q' : pkt_q'[k] \in F \/ \E j \in DOMAIN pkt_q : pkt_q'[k] = pkt_q[j]
       /\ \A y \in F : \E k \in DOMAIN pkt_q' : pkt_q'[k] = y
       /\ \A j \in DOMAIN pkt_q : j > 1 => \E k \in DOMAIN pkt_q' : pkt_q'[k] = pkt_q[j]
  <2>1. F \in SUBSET Frame
    BY <1>9
  <2>2. PICK o \in Stacked(F) : pkt_q' = o \o Tail(pkt_q)
    BY <1>5
  <2>3. Follows(pkt_q', F, pkt_q)
    BY <1>1, <2>1, <2>2, StackedFacts
  <2> QED BY <2>3 DEF Follows
<1>11. TypeOK'
  <2>1. {draining, overlap}' \subseteq BOOLEAN
    BY <1>5, Zenon DEF IInv, TypeOK
  <2>2. mac_table' \in [Switches -> [Hosts -> Ports \union {NULL}]]
    BY <1>4
  <2> QED BY <1>5, <1>10, <2>1, <2>2 DEF IInv, TypeOK
<1>12. ConfSound' /\ sent' \in 0..MaxFrames
  BY <1>5 DEF IInv, ConfSound
<1>13. TagsSound'
  BY <1>9, <1>10 DEF IInv, TagsSound, Tagged
<1>14. LearntSound'
  <2> SUFFICES ASSUME NEW r \in Switches, NEW h \in Hosts, mac_table'[r][h] # NULL
               PROVE  intf[mac_table'[r][h]].mode # "UNKNOWN"
    BY <1>5 DEF LearntSound
  <2>1. mac_table'[r][h] = p \/ mac_table'[r][h] = mac_table[r][h]
    BY <1>2, <1>3, <1>4 DEF t
  <2> QED BY <1>7, <2>1 DEF IInv, LearntSound
<1>15. ASSUME ~overlap' PROVE TurnsSound'
  <2>1. TurnsSound
    BY <1>5, <1>15 DEF IInv
  <2>2. f \in Right
    BY <1>2, <2>1 DEF TurnsSound
  <2>3. \A y \in F : y \in Right' /\ y.id = f.id /\ y.src = f.src /\ y.dst = f.dst
    <3>1. f.dst # f.src
      BY <1>2, <2>1 DEF TurnsSound, Alone
    <3>2. /\ t[f.src] = p /\ \A h \in Hosts \ {f.src} : t[h] = mac_table[s][h]
          /\ mac_table'[s] = t /\ \A r \in Switches \ {s} : mac_table'[r] = mac_table[r]
      BY <1>2, <1>3, <1>4 DEF t
    <3>3. TypeOK
      BY DEF IInv
    <3>4. \A y \in Forward(x, s, t, p) :
            y \in Right' /\ y.id = f.id /\ y.src = f.src /\ y.dst = f.dst
      <4> HIDE DEF p, s
      <4>1. f.at = p /\ s = NodeOf[p]
        BY DEF p, s
      <4> QED BY <1>3, <1>4, <1>7, <2>1, <2>2, <3>1, <3>2, <3>3, <4>1, CopiesRight
    <3> QED BY <3>4 DEF F
  <2>4. f.id = sent /\ f.dst # f.src
        /\ \A j \in DOMAIN pkt_q : /\ pkt_q[j].id = sent
                                   /\ pkt_q[j].src = f.src /\ pkt_q[j].dst = f.dst
    BY <1>2, <2>1 DEF TurnsSound, Alone
  <2>5. Alone'
    <3>1. \A k \in DOMAIN pkt_q' : /\ pkt_q'[k].id = sent
                                   /\ pkt_q'[k].src = f.src /\ pkt_q'[k].dst = f.dst
      BY <1>10, <2>3, <2>4
    <3> QED BY <1>5, <2>4, <3>1 DEF Alone
  <2>6. \A j \in DOMAIN pkt_q : pkt_q[j] \in Right'
    <3> SUFFICES ASSUME NEW j \in DOMAIN pkt_q PROVE pkt_q[j] \in Right'
      OBVIOUS
    <3> DEFINE e == pkt_q[j]
    <3>1. e \in Right /\ e.src = f.src /\ e.dst = f.dst /\ e \in Frame
      BY <2>1, <2>4 DEF TurnsSound, Right
    <3>2. \A r \in Switches : /\ mac_table[r][f.src] # NULL => mac_table'[r][f.src] # NULL
                              /\ f.dst # BROADCAST => mac_table'[r][f.dst] = mac_table[r][f.dst]
      BY <1>2, <1>3, <1>4, <2>4, FrameFields DEF t
    <3>3. \A q \in Ports : NodeOf[q] \in Switches
      BY SwitchAssumption
    <3> HIDE DEF e
    <3>4. e \in Right'
      BY <3>1, <3>2, <3>3 DEF Right
    <3> QED BY <3>4 DEF e
  <2>7. \A k \in DOMAIN pkt_q' : pkt_q'[k] \in Right'
    BY <1>10, <2>3, <2>6
  <2>8. TablesSound'
    <3> SUFFICES ASSUME NEW r \in Switches, NEW h \in Hosts, mac_table'[r][h] # NULL
                 PROVE  /\ mac_table'[r][h] = Toward[r][h]
                        /\ LET q == Peer[Toward[r][h]] IN
                             q \in Ports => mac_table'[NodeOf[q]][h] # NULL
      BY DEF TablesSound
    <3>1. \A w \in Switches : mac_table[w][h] # NULL => mac_table'[w][h] # NULL
      BY <1>2, <1>3, <1>4 DEF t
    <3>2. \A q \in Ports : NodeOf[q] \in Switches
      BY SwitchAssumption
    <3>3. CASE r = s /\ h = f.src
      <4>1. mac_table'[r][h] = p /\ p = Toward[r][h]
        BY <1>2, <1>3, <1>4, <2>2, <3>3 DEF Right, t
      <4>2. Peer[p] \in Ports => mac_table[NodeOf[Peer[p]]][h] # NULL
        BY <1>3, <2>2, <3>3 DEF Right
      <4> QED BY <3>1, <3>2, <4>1, <4>2
    <3>4. CASE ~(r = s /\ h = f.src)
      <4>1. mac_table'[r][h] = mac_table[r][h]
        BY <1>2, <1>3, <1>4, <3>4 DEF t
      <4> QED BY <2>1, <3>1, <3>2, <4>1 DEF TurnsSound, TablesSound
    <3> QED BY <3>3, <3>4
  <2>9. ASSUME VlansOfSwitches, NEW m \in promised' \ got'
        PROVE  \E k \in DOMAIN pkt_q' : pkt_q'[k].id = m[1] /\ pkt_q'[k] \in OnWay(m[2])'
    <3>1. PICK k \in DOMAIN pkt_q : pkt_q[k].id = m[1] /\ pkt_q[k] \in OnWay(m[2])
      BY <1>5, <2>1, <2>9 DEF TurnsSound, PromisesKept
    <3>0. OnWay(m[2])' = OnWay(m[2])
      BY <1>5, SameConf
    <3>2. CASE k # 1
      <4>1. k > 1
        BY <1>1, <3>2
      <4>2. PICK j \in DOMAIN pkt_q' : pkt_q'[j] = pkt_q[k]
        BY <1>10, <3>1, <4>1
      <4> QED BY <3>0, <3>1, <4>2
    <3>3. CASE k = 1
      <4> DEFINE q == Toward[s][m[2]]
      <4>1. f \in OnWay(m[2])
        BY <1>2, <3>1, <3>3
      <4>2. PICK y \in SwitchSend(x, q) : y \in OnWay(m[2]) /\ y.id = f.id
        BY <1>3, <1>6, <2>2, <2>9, <4>1, WayGoesOn DEF x
      <4>3. q \in L2Ports(s) \ {p} /\ f.dst \in {m[2], BROADCAST} /\ m[2] \in Hosts \ {f.src}
        <5>1. f.at # m[2]
          BY <1>3, <4>1, SwitchAssumption DEF OnWay
        <5> QED BY <2>2, <2>9, <4>1, <5>1, WayFacts
      <4>4. y \in F
        <5>1. CASE f.dst = BROADCAST \/ t[f.dst] = NULL
          BY <1>7, <4>2, <4>3, <5>1 DEF F, Forward, Flood
        <5>2. CASE ~(f.dst = BROADCAST \/ t[f.dst] = NULL)
          <6>1. f.dst = m[2] /\ t[m[2]] = mac_table[s][m[2]] /\ t[m[2]] # NULL
            BY <1>2, <1>3, <1>4, <4>3, <5>2 DEF t
          <6>2. t[f.dst] = q
            BY <1>3, <2>1, <4>3, <6>1 DEF TurnsSound, TablesSound
          <6> QED BY <1>7, <4>2, <5>2, <6>2 DEF F, Forward
        <5> QED BY <5>1, <5>2
      <4>5. PICK j \in DOMAIN pkt_q' : pkt_q'[j] = y
        BY <1>10, <4>4
      <4>6. y.id = m[1]
        BY <1>2, <3>1, <3>3, <4>2
      <4> QED BY <3>0, <4>2, <4>5, <4>6
    <3> QED BY <3>2, <3>3
  <2> QED BY <2>5, <2>7, <2>8, <2>9 DEF TurnsSound, PromisesKept
<1> QED BY <1>11, <1>12, <1>13, <1>14, <1>15 DEF IInv

LEMMA NextKeeps == IInv /\ [Next]_vars => IInv'
<1> SUFFICES ASSUME IInv, [Next]_vars PROVE IInv'
  OBVIOUS
<1>1. ASSUME NEW h \in Hosts, NEW dst \in (Hosts \ {h}) \union {BROADCAST}, SendFrame(h, dst)
      PROVE  IInv'
  BY <1>1, SendKeeps
<1>2. CASE ReceiveFrame
  <2> DEFINE f == Head(pkt_q)
  <2>1. CASE ~Qualifies(f, f.at) \/ intf[f.at].is_ipadd_config
    BY <1>2, <2>1, TakenKeeps
  <2>2. CASE Qualifies(f, f.at) /\ ~intf[f.at].is_ipadd_config
    BY <1>2, <2>2, ForwardKeeps
  <2> QED BY <2>1, <2>2
<1>3. ASSUME NEW p \in Ports,
             \/ \E m \in {"ACCESS", "TRUNK"} : SetL2Mode(p, m)
             \/ \E v \in Vlans : SetVlan(p, v)
             \/ SetIpAddr(p) \/ UnsetIpAddr(p) \/ UpDown(p)
      PROVE  IInv'
  BY <1>3, OperatorKeeps
<1>4. CASE UNCHANGED vars
  <2>1. UNCHANGED <<intf, mac_table, pkt_q, draining, got, promised, overlap, sent, commands>>
    BY <1>4 DEF vars
  <2>2. TypeOK' /\ sent' \in 0..MaxFrames /\ ConfSound' /\ TagsSound' /\ LearntSound'
    BY <2>1 DEF IInv, TypeOK, ConfSound, TagsSound, LearntSound, Tagged
  <2>3. ASSUME ~overlap' PROVE TurnsSound'
    <3>1. TurnsSound
      BY <2>1, <2>3 DEF IInv
    <3>2. Alone' /\ TablesSound' /\ \A k \in DOMAIN pkt_q' : pkt_q'[k] \in Right'
      BY <2>1, <3>1 DEF TurnsSound, Alone, TablesSound, Right
    <3>3. VlansOfSwitches => PromisesKept'
      BY <2>1, <3>1, SameConf DEF TurnsSound, PromisesKept
    <3> QED BY <3>2, <3>3 DEF TurnsSound
  <2> QED BY <2>2, <2>3 DEF IInv
<1> QED BY <1>1, <1>2, <1>3, <1>4 DEF Next

\* The invariant holds of every behaviour.
LEMMA Invariant == Spec => []IInv
BY InitHolds, NextKeeps, PTL DEF Spec

-----------------------------------------------------------------------------
(* What they promise. *)

\* layer2.h, l2switch.c: a step that puts a frame on a link behind an access interface
\* puts it there untagged and in the VLAN of that interface.
LEMMA StepIsolates ==
  ASSUME IInv, Next, NEW f \in ToSet(pkt_q') \ ToSet(pkt_q),
         Peer[f.at] \in Ports, intf[Peer[f.at]].mode = "ACCESS"
  PROVE  ~Tagged(f) /\ f.vlan = AccessVlan(Peer[f.at])
<1>1. pkt_q \in Seq(Frame) /\ Hosts \intersect Ports = {}
  BY SwitchAssumption DEF IInv, TypeOK
<1>2. ASSUME NEW h \in Hosts, NEW dst \in (Hosts \ {h}) \union {BROADCAST}, SendFrame(h, dst)
      PROVE  FALSE
  <2> DEFINE new == [id |-> sent', src |-> h, dst |-> dst, tag |-> Untagged,
                     at |-> Peer[h], vlan |-> 0]
  <2>1. pkt_q' = <<new>> \o pkt_q /\ new.at = Peer[h]
    BY <1>2 DEF SendFrame
  <2> HIDE DEF new
  <2>2. f = new
    BY <1>1, <2>1 DEF ToSet
  <2>3. Peer[f.at] = h
    BY <2>1, <2>2, SwitchAssumption DEF Intfs
  <2> QED BY <1>1, <2>3
<1>3. CASE ReceiveFrame
  <2> DEFINE e == Head(pkt_q)  p == e.at  x == TagOnEntry(e, p)
  <2>1. pkt_q # <<>> /\ e \in Frame /\ (Tagged(e) => e.vlan = e.tag)
    BY <1>1, <1>3 DEF ReceiveFrame, IInv, TagsSound
  <2>2. CASE ~Qualifies(e, p) \/ intf[p].is_ipadd_config
    <3>1. pkt_q' = Tail(pkt_q)
      BY <1>3, <2>2 DEF ReceiveFrame
    <3> QED BY <1>1, <2>1, <3>1 DEF ToSet
  <2>3. CASE Qualifies(e, p) /\ ~intf[p].is_ipadd_config
    <3> DEFINE s == NodeOf[p]  t == mac_table'[s]  F == Forward(x, s, t, p)
    <3>1. p \in Ports /\ s \in Switches
      <4>1. p \in Intfs /\ p \notin Hosts
        BY <2>1, <2>3, FrameFields DEF IInv, ConfSound, HostIntf
      <4> QED BY <4>1, SwitchAssumption DEF Intfs
    <3>2. x \in Frame /\ InVlan(x)
      BY <2>1, <2>3, <3>1, EntryTags DEF IInv
    <3>3. t \in [Hosts -> Ports \union {NULL}]
      BY <1>3, <3>1, NextKeeps DEF IInv, TypeOK
    <3>4. PICK o \in Stacked(F) : pkt_q' = o \o Tail(pkt_q)
      BY <1>3, <2>3 DEF ReceiveFrame
    <3> HIDE DEF x, F, s, t
    <3>5. ASSUME NEW y \in F
          PROVE  \E q \in Ports : y \in SwitchSend(x, q)
      BY <3>1, <3>2, <3>3, <3>5, ForwardFacts DEF F
    <3>6. ASSUME NEW y \in F
          PROVE  /\ y \in Frame
                 /\ Peer[y.at] \in Ports /\ intf[Peer[y.at]].mode = "ACCESS"
                      => ~Tagged(y) /\ y.vlan = AccessVlan(Peer[y.at])
      <4>1. PICK q \in Ports : y \in SwitchSend(x, q)
        BY <3>5
      <4>2. /\ y \in Frame /\ y.at = Peer[q] /\ Peer[Peer[q]] = q
            /\ intf[q].mode = "ACCESS" => ~Tagged(y) /\ y.vlan = AccessVlan(q)
        BY <3>2, <4>1, SendFacts, SwitchAssumption DEF IInv, Intfs
      <4> QED BY <4>2
    <3>7. Follows(pkt_q', F, pkt_q)
      <4>1. F \in SUBSET Frame
        BY <3>6
      <4> QED BY <1>1, <2>1, <3>4, <4>1, StackedFacts
    <3>8. f \in F
      BY <1>1, <3>7 DEF Follows, ToSet
    <3> QED BY <3>6, <3>8
  <2> QED BY <2>2, <2>3
<1>4. ASSUME pkt_q' = pkt_q PROVE FALSE
  BY <1>4
<1> QED BY <1>2, <1>3, <1>4 DEF Next, SetL2Mode, SetVlan, SetIpAddr, UnsetIpAddr, UpDown, Command

\* l2switch.c: over any number of switches, trunks and VLANs, however the operator
\* changes them, no frame leaves an access interface in another VLAN than its own.
THEOREM FramesIsolated == Spec => VlanIsolation
<1>1. IInv /\ [Next]_vars =>
        [\A f \in ToSet(pkt_q') \ ToSet(pkt_q) :
           Peer[f.at] \in Ports /\ intf[Peer[f.at]].mode = "ACCESS"
             => ~Tagged(f) /\ f.vlan = AccessVlan(Peer[f.at])]_vars
  BY StepIsolates
<1> QED BY <1>1, Invariant, PTL DEF Spec, VlanIsolation

\* l2_switch_perform_mac_learning: tables keep to interfaces in an L2 mode, the ones
\* behind which the hosts are as long as hosts take turns.
THEOREM TablesLearnt == Spec => []MacTableSound
<1>1. IInv => MacTableSound
  <2> SUFFICES ASSUME IInv, NEW s \in Switches, NEW h \in Hosts, mac_table[s][h] # NULL
               PROVE  /\ ~intf[mac_table[s][h]].is_ipadd_config
                      /\ overlap \/ mac_table[s][h] = Toward[s][h]
    BY DEF MacTableSound, IInv
  <2>1. mac_table[s][h] \in Ports /\ intf[mac_table[s][h]].mode # "UNKNOWN"
    BY DEF IInv, TypeOK, LearntSound
  <2>2. ~intf[mac_table[s][h]].is_ipadd_config
    BY <2>1 DEF IInv, ConfSound, Buildable
  <2> QED BY <2>2 DEF IInv, TurnsSound, TablesSound
<1> QED BY <1>1, Invariant, PTL

\* l2_switch_recv_frame: for any tree of switches whose VLANs have no sign bit,
\* what the switches learn never keeps a connected host from hearing.
THEOREM FramesForwarded ==
  ASSUME VlansOfSwitches
  PROVE  Spec => []ForwardingSound
<1>1. IInv => ConnectedHostsHear
  BY DEF IInv, TurnsSound, PromisesKept, ConnectedHostsHear
<1> QED BY <1>1, Invariant, TablesLearnt, PTL DEF ForwardingSound
=============================================================================
