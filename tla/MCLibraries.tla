----------------------------- MODULE MCLibraries -----------------------------
(* The parts of one process, each on its own: an initial state chooses     *)
(* one, and the others stay as they are.  The list has five nodes, two of  *)
(* them with equal keys, so that a stable insertion can be told from an    *)
(* unstable one; the memory manager has one page family;                   *)
(* the parser gets every command alone, and those of config together with  *)
(* one that do can run; the machines get short strings of a few            *)
(* characters, and addresses with one field of any kind, of any number of  *)
(* fields, or longer than the buffer (255.255.255.255.1); the router with  *)
(* interface groups has three interfaces, two of them to the same          *)
(* neighbour, or a LAN; overload has two time limits.                      *)
EXTENDS IsisOverload, LibTimer, LibList, LibMemory, LibGroups, SequencesExt, TLC
CONSTANTS n1, n2, n3, i1, i2, i3

VARIABLES
  part,   \* the part that runs
  topic, cmd_tree_cursor, value_holder, tlv_buff, typed, loaded, last, crashed,
  fsm, input, answer,
  topo, step, nodes, links, failed

cliVars == <<topic, cmd_tree_cursor, value_holder, tlv_buff, typed, loaded, last, crashed>>
fsmVars == <<fsm, input, answer>>
topoVars == <<topo, step, nodes, links, failed>>

Keys == [x \in Elems |-> CASE x = n1 -> 1 [] x \in {n2, n3} -> 2 [] OTHER -> 3]

Network == INSTANCE NetworkCommands
OfConfig == {c \in Network!Commands : Head(c.path) = "config" /\ Len(c.path) <= 6}
Shown == CHOOSE c \in Network!Commands : c.code = "SHOW_NODE_ARP_TABLE"
CommandLine == INSTANCE CommandTree WITH
  Topics <- {{c} : c \in Network!Commands} \union {{c, Shown} : c \in OfConfig}, Values <- {"x", "y"}

Strings(chars, n) == UNION {[1..k -> chars] : k \in 0..n}
MailChars == {"g", "@", "."}
One == <<"1">>
Octets == Strings({"0", "2", "4", "5", "6", "9", "x"}, 3)
Dotted(fields) == FoldLeft(LAMBDA s, f : s \o <<".">> \o f, Head(fields), Tail(fields))
Machines == INSTANCE Fsm WITH
  MAX_INP_BUFFER_LEN <- 9, Letters <- {"g", "x"}, Others <- {"@", "."},
  Gmail <- <<"g", ".">>, Hotmail <- <<"g", "g", ".">>, Pattern <- <<"g", "x", "g">>,
  Inputs <- [email |-> Strings(MailChars, 4)
                       \union {[k \in 1..n |-> "g"] \o s : n \in 4..5, s \in Strings(MailChars, 4)},
             substring |-> Strings({"g", "x"}, 7), binary |-> Strings({"0", "1"}, 10), octet |-> Octets],
  Addresses <- {<<>>} \union {Dotted(fields) : fields \in
                 {[k \in 1..4 |-> IF k = p THEN f ELSE One] : p \in 1..4, f \in Octets}
                 \union (Strings({<<>>, One, <<"1", "2", "3", "4">>}, 6) \ {<<>>})
                 \union [1..5 -> {<<>>, One, <<"2", "5", "5">>, <<"2", "5", "6">>}]},
  Tails <- Strings({"1", "."}, 1)

TimerConfigs == [exp : {1, 2}, sec : 0..2, threshold : {0, 2}, backoff : BOOLEAN]
ASSUME T!TimerAssumption

Topology == INSTANCE Topologies WITH MAX_INTF_PER_NODE <- 10, MAX_VLAN_MEMBERSHIP <- 10

PointToPointLinks == (i1 :> {"A"} @@ i2 :> {"A"} @@ i3 :> {"B"})
Lans == (i1 :> {"A", "B"} @@ i2 :> {"A"} @@ i3 :> {})
PhysicalLinks == {PointToPointLinks, Lans}
NodeIntf == <<i1, i2, i3>>

PartsInit ==
  /\ part \in {"gluethread", "LinuxMemoryManager", "CommandParser", "FSMImplementation", "libtimer", "topologies",
              "isis_intf_group", "isis_rtr"}
  /\ IF part = "CommandParser" THEN TRUE ELSE topic = {Shown}
  /\ IF part = "FSMImplementation" THEN TRUE ELSE fsm = "ip_validate" /\ input = <<>>
  /\ IF part = "libtimer" THEN TRUE ELSE config = CHOOSE c \in TimerConfigs : TRUE
  /\ IF part = "topologies" THEN TRUE ELSE topo = "build_linear_topo"
  /\ IF part = "isis_intf_group" THEN TRUE ELSE nbrs = PointToPointLinks
  /\ Init /\ List!Init /\ Memory!Init /\ CommandLine!Init /\ Machines!Init /\ T!Init /\ Topology!Init /\ Groups!Init

ListNext ==
  /\ part = "gluethread"
  /\ List!Next
  /\ UNCHANGED <<memoryVars, cliVars, fsmVars, timerVars, topoVars, groupVars, vars>>
MemoryNext ==
  /\ part = "LinuxMemoryManager"
  /\ Memory!Next
  /\ UNCHANGED <<listVars, cliVars, fsmVars, timerVars, topoVars, groupVars, vars>>
CommandNext ==
  /\ part = "CommandParser"
  /\ CommandLine!Next
  /\ UNCHANGED <<listVars, memoryVars, fsmVars, timerVars, topoVars, groupVars, vars>>
FsmNext ==
  /\ part = "FSMImplementation"
  /\ Machines!Next
  /\ UNCHANGED <<listVars, memoryVars, cliVars, timerVars, topoVars, groupVars, vars>>
TimerNext ==
  /\ part = "libtimer"
  /\ T!Next
  /\ UNCHANGED <<listVars, memoryVars, cliVars, fsmVars, topoVars, groupVars, vars>>
TopologyNext ==
  /\ part = "topologies"
  /\ Topology!Next
  /\ UNCHANGED <<listVars, memoryVars, cliVars, fsmVars, timerVars, groupVars, vars>>
GroupsNext ==
  /\ part = "isis_intf_group"
  /\ Groups!Next
  /\ UNCHANGED <<listVars, memoryVars, cliVars, fsmVars, timerVars, topoVars, vars>>
OverloadNext ==
  /\ part = "isis_rtr"
  /\ Next
  /\ UNCHANGED <<listVars, memoryVars, cliVars, fsmVars, timerVars, topoVars, groupVars>>

PartsNext ==
  /\ UNCHANGED part
  /\ \/ ListNext \/ MemoryNext \/ CommandNext \/ FsmNext \/ TimerNext
     \/ TopologyNext \/ GroupsNext \/ OverloadNext

PartsVars == <<part, listVars, memoryVars, cliVars, fsmVars, timerVars, topoVars, groupVars, vars>>
PartsSpec == PartsInit /\ [][PartsNext]_PartsVars

\* Module CommandTree: handlers get the values of the way the user has gone (parser.c,
\* serialize.c), and fit their command trees (nwcli.c and the applications).
CommandsDo == CommandLine!CommandsDo
\* Module Fsm: the machines of std_fsm.c and ip_validate.
MachinesRight == Machines!MachinesRight
\* Module Topologies: what topologies.c builds.
TopologySound == Topology!TopologySound
=============================================================================
