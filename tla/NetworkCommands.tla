-------------------------- MODULE NetworkCommands --------------------------
(***************************************************************************)
(* The commands of the program, as nw_init_cli and the functions of the    *)
(* applications register them, and what their handlers take and do.        *)
(*                                                                         *)
(* A command is a path of the command tree with a handler (fn) and a       *)
(* command code.  A name in angle brackets is a leaf, where the user types *)
(* a value: the handler gets it under the name of the leaf.  Left out are  *)
(* repeat, cls, cd and cd.., which the parser serves itself, and run term, *)
(* which ends the program.                                                 *)
(***************************************************************************)
EXTENDS Sequences, TLC

Node == "<node-name>"

\* The names of leaves.
Leaves ==
  {Node, "<N>", "<ut-enable>", "<cons-name>", "<struct-name>", "<if-name>", "<if-up-down>", "<metric-val>",
   "<intf-ip-address>", "<ip-address>", "<ero-ip-address>", "<mask>", "<gw-ip>", "<oif>", "<flag-val>",
   "<timeout-val>", "<if-grp-name>", "<rtr-id>", "<ddcp-q-interval>"}

\* The commands of one handler below a path: suffixes with their codes.
Below(path, fn, suffixes) == {[path |-> path \o s[1], fn |-> fn, code |-> s[2]] : s \in suffixes}

\* init_libcli
LibCommands ==
  Below(<<"show">>, "lib", {<<<<"help">>, "SHOW_HELP">>, <<<<"registered", "commands">>, "SHOW_REGISTERED_COMMANDS">>})
  \union Below(<<"show", "history">>, "show_history_callback",
               {<<<<>>, "SHOW_HISTORY">>, <<<<"<N>">>, "SHOW_HISTORY_N">>})
  \union Below(<<"debug">>, "lib", {<<<<"show", "cmdtree">>, "DEBUG_SHOW_CMDTREE">>})
  \union Below(<<"debug">>, "ut_test_handler", {<<<<"ut", "<ut-enable>">>, "DEBUG_UT">>})
  \union Below(<<"config">>, "lib",
               {<<<<"supportsave", "enable">>, "CONFIG_SUPPORTSAVE_ENABLE">>,
                <<<<"console", "name", "<cons-name>">>, "CONFIG_CONSOLEN_NAME_NAME">>})

\* nw_init_cli: debug and clear.
DebugCommands ==
  Below(<<"debug", "show", "node", Node, "timer">>, "debug_show_node_handler",
        {<<<<>>, "DEBUG_SHOW_NODE_TIMER">>, <<<<"logging">>, "DEBUG_SHOW_NODE_TIMER_LOGGING">>})
  \union Below(<<"debug", "show", "mem-usage">>, "display_mem_usage",
               {<<<<>>, "DEBUG_SHOW_MEMORY_USAGE">>,
                <<<<"detail">>, "DEBUG_SHOW_MEMORY_USAGE_DETAIL">>,
                <<<<"detail", "<struct-name>">>, "DEBUG_SHOW_MEMORY_USAGE_DETAIL">>})
  \union Below(<<"clear", "log-file">>, "clear_topology_handler", {<<<<>>, "CLEAR_LOG_FILE">>})

\* nw_init_cli: show.
ShowCommands ==
  Below(<<"show", "topology">>, "show_nw_topology_handler",
        {<<<<>>, "SHOW_NW_TOPOLOGY">>, <<<<"node", Node>>, "SHOW_NW_TOPOLOGY">>})
  \union Below(<<"show", "node", Node, "log-status">>, "traceoptions_handler", {<<<<>>, "DEBUG_SHOW_LOG_STATUS">>})
  \union Below(<<"show", "node", Node, "spf-result">>, "spf_algo_handler", {<<<<>>, "SHOW_SPF_RESULTS">>})
  \union Below(<<"show", "node", Node>>, "show_arp_handler", {<<<<"arp">>, "SHOW_NODE_ARP_TABLE">>})
  \union Below(<<"show", "node", Node>>, "show_mac_handler", {<<<<"mac">>, "SHOW_NODE_MAC_TABLE">>})
  \union Below(<<"show", "node", Node>>, "show_rt_handler", {<<<<"rt">>, "SHOW_NODE_RT_TABLE">>})
  \union Below(<<"show", "node", Node, "interface", "statistics">>, "show_interface_handler",
               {<<<<>>, "SHOW_INTF_STATS">>})

\* nw_init_cli: run.
RunCommands ==
  Below(<<"run">>, "spf_algo_handler",
        {<<<<"spf", "all">>, "RUN_SPF_ALL">>, <<<<"node", Node, "spf">>, "RUN_SPF">>})
  \union Below(<<"run", "node", Node, "ping", "<ip-address>">>, "ping_handler",
               {<<<<>>, "PING">>, <<<<"ero", "<ero-ip-address>">>, "ERO_PING">>})
  \union Below(<<"run", "node", Node, "resolve-arp", "<ip-address>">>, "arp_handler", {<<<<>>, "RUN_ARP">>})

Interface == <<"config", "node", Node, "interface", "<if-name>">>

\* nw_init_cli: config.  The commands l2mode and vlan are compiled out (#if 0), though
\* intf_config_handler still has their cases.
ConfigCommands ==
  Below(<<"config", "global">>, "traceoptions_handler",
        {<<<<"stdout">>, "DEBUG_GLOBAL_STDOUT">>, <<<<"no-stdout">>, "DEBUG_GLOBAL_NO_STDOUT">>})
  \union Below(Interface, "intf_config_handler",
               {<<<<"<if-up-down>">>, "CONF_INTF_UP_DOWN">>,
                <<<<"metric", "<metric-val>">>, "INTF_CONFIG_METRIC">>,
                <<<<"ip-address", "<intf-ip-address>", "<mask>">>, "INTF_CONFIG_IP_ADDR">>})
  \union Below(<<"config", "node", Node, "route", "<ip-address>", "<mask>">>, "l3_config_handler",
               {<<<<>>, "CONF_NODE_L3ROUTE">>, <<<<"<gw-ip>", "<oif>">>, "CONF_NODE_L3ROUTE">>})

\* tcp_ip_traceoptions_cli
TraceCommands ==
  Below(<<"config", "node", Node, "traceoptions", "flag", "<flag-val>">>, "traceoptions_handler",
        {<<<<>>, "DEBUG_LOGGING_PER_NODE">>})
  \union Below(Interface \o <<"traceoptions", "flag", "<flag-val>">>, "traceoptions_handler",
               {<<<<>>, "DEBUG_LOGGING_PER_INTF">>})

Protocol(verb, name) == <<verb, "node", Node, "protocol", name>>

\* isis_config_cli_tree
IsisConfigCommands ==
  Below(Protocol("config", "isis"), "isis_config_handler",
        {<<<<>>, "ISIS_CONFIG_NODE_ENABLE">>, <<<<"overload">>, "ISIS_OVERLOAD">>,
         <<<<"overload", "timeout", "<timeout-val>">>, "ISIS_OVERLOAD_TIMEOUT">>,
         <<<<"layer2-map">>, "ISIS_LAYER2_MAP">>,
         <<<<"interface-group", "<if-grp-name>">>, "ISIS_INTF_GRP">>,
         <<<<"dynamic-interface-group">>, "ISIS_DYN_IGRP">>})
  \union Below(Protocol("config", "isis") \o <<"interface">>, "isis_intf_config_handler",
               {<<<<"<if-name>">>, "ISIS_INTF_ENABLE">>, <<<<"all">>, "ISIS_INTF_ALL_ENABLE">>,
                <<<<"<if-name>", "interface-group", "<if-grp-name>">>, "ISIS_INTF_GROUP_MEMBERSHIP">>})

\* isis_show_cli_tree
IsisShowCommands ==
  Below(Protocol("show", "isis"), "isis_show_handler",
        {<<<<>>, "ISIS_PROTOCOL">>, <<<<"interface">>, "ISIS_ALL_INTF">>, <<<<"adjacency">>, "ISIS_ALL_ADJACENCY">>,
         <<<<"interface", "<if-name>">>, "ISIS_ONE_INTF">>,
         <<<<"lsdb">>, "ISIS_LSDB">>, <<<<"lsdb", "<rtr-id>">>, "ISIS_ONE_LSP">>,
         <<<<"ted">>, "ISIS_TED">>, <<<<"ted", "<rtr-id>">>, "ISIS_ONE_TED_ENTRY">>,
         <<<<"ted", "<rtr-id>", "detail">>, "ISIS_ONE_TED_ENTRY_DETAIL">>, <<<<"ted", "detail">>, "ISIS_TED_DETAIL">>,
         <<<<"event-counters">>, "ISIS_EVENT_COUNTERS">>, <<<<"interface-groups">>, "ISIS_INTF_GROUPS">>})

\* isis_clear_cli_tree
IsisClearCommands ==
  Below(Protocol("clear", "isis"), "isis_clear_handler",
        {<<<<"lsdb">>, "CLEAR_ISIS_LSDB">>, <<<<"adjacency">>, "CLEAR_ISIS_ADJACENCY">>})

\* ddcp_config_cli_tree, ddcp_show_cli_tree, ddcp_run_cli_tree
DdcpCommands ==
  Below(Protocol("config", "ddcp"), "ddcp_handler",
        {<<<<>>, "DDCP_PROTO">>, <<<<"interface", "<if-name>">>, "DDCP_INTF_ENABLE">>,
         <<<<"interface", "all">>, "DDCP_INTF_ALL_ENABLE">>})
  \union Below(Protocol("show", "ddcp"), "ddcp_handler", {<<<<"ddcp-db">>, "SHOW_DDCP_DB">>})
  \union Below(Protocol("run", "ddcp") \o <<"ddcp-query">>, "ddcp_handler",
               {<<<<>>, "RUN_DDCP_QUERY">>, <<<<"periodic", "<ddcp-q-interval>">>, "RUN_DDCP_QUERY_PERIODIC">>})

\* nmp_config_cli_tree, nmp_show_cli_tree
NmpCommands ==
  Below(Protocol("config", "nmp"), "nbrship_mgmt_handler",
        {<<<<>>, "NBRSHIP_ENABLE">>, <<<<"interface", "<if-name>">>, "INTF_NBRSHIP_ENABLE">>,
         <<<<"interface", "all">>, "INTF_ALL_NBRSHIP_ENABLE">>})
  \union Below(Protocol("show", "nmp"), "nbrship_mgmt_handler",
               {<<<<"nbrships">>, "SHOW_NODE_NBRSHIP">>, <<<<"state">>, "SHOW_NODE_NMP_STATE">>,
                <<<<"stats">>, "SHOW_NODE_NMP_PROTOCOL_ALL_INTF_STATS">>})

Commands ==
  UNION {LibCommands, DebugCommands, ShowCommands, RunCommands, ConfigCommands, TraceCommands,
         IsisConfigCommands, IsisShowCommands, IsisClearCommands, DdcpCommands, NmpCommands}

\* Where nw_init_cli calls support_cmd_negation: "no" may come next.
Negatable ==
  {<<"config">>, <<"config", "node", Node>>, <<"config", "node", Node, "interface">>,
   <<"config", "node", Node, "protocol">>}

-----------------------------------------------------------------------------
(* Handlers.  takes: the names of leaves a handler looks for in its        *)
(* buffer; many assert that there is no other.  does: for every command    *)
(* code it serves, the operation it calls in each mode of a line, and      *)
(* "nothing" where it has none.                                            *)

Modes == {"operational", "enable", "disable"}
Always(op) == [mode \in Modes |-> op]
ByMode(op, undo) == [operational |-> "nothing", enable |-> op, disable |-> undo]

\* spf.c does not mind other names, and so it is with the handlers of one table and
\* that of ARP.
Table(op) == [takes |-> {Node}, asserts |-> FALSE, does |-> [c \in {"SHOW_NODE_ARP_TABLE", "SHOW_NODE_MAC_TABLE",
                                                                   "SHOW_NODE_RT_TABLE"} |-> Always(op)]]
show_arp_handler == Table("show_arp_table")
show_mac_handler == Table("dump_mac_table")
show_rt_handler  == Table("dump_rt_table")

display_mem_usage ==
  [takes |-> {"<struct-name>"}, asserts |-> FALSE,
   does  |-> [DEBUG_SHOW_MEMORY_USAGE |-> Always("mm_print_block_usage"),
              DEBUG_SHOW_MEMORY_USAGE_DETAIL |-> Always("mm_print_memory_usage")]]

show_nw_topology_handler ==
  [takes |-> {Node}, asserts |-> TRUE, does |-> [SHOW_NW_TOPOLOGY |-> Always("dump_nw_graph")]]

clear_topology_handler ==
  [takes |-> {}, asserts |-> FALSE, does |-> [CLEAR_LOG_FILE |-> Always("tcp_ip_refresh_tcp_log_file")]]

arp_handler ==
  [takes |-> {Node, "<ip-address>"}, asserts |-> FALSE,
   does  |-> [RUN_ARP |-> Always("send_arp_broadcast_request")]]

ping_handler ==
  [takes |-> {Node, "<ip-address>", "<ero-ip-address>"}, asserts |-> TRUE,
   does  |-> [PING |-> Always("layer3_ping_fn"), ERO_PING |-> Always("layer3_ero_ping_fn")]]

l3_config_handler ==
  [takes |-> {Node, "<ip-address>", "<gw-ip>", "<mask>", "<oif>"}, asserts |-> TRUE,
   does  |-> [CONF_NODE_L3ROUTE |-> ByMode("rt_table_add_route", "rt_table_delete_route")]]

\* Up and down are words of the line: with "no" it does the same.
intf_config_handler ==
  [takes |-> {Node, "<if-name>", "<vlan-id>", "<l2-mode-val>", "<if-up-down>", "<metric-val>",
              "<intf-ip-address>", "<mask>"}, asserts |-> TRUE,
   does  |-> [INTF_CONFIG_METRIC  |-> ByMode("set cost", "default cost"),
              CONF_INTF_UP_DOWN   |-> Always("set is_up"),
              INTF_CONFIG_L2_MODE |-> ByMode("interface_set_l2_mode", "interface_unset_l2_mode"),
              INTF_CONFIG_VLAN    |-> ByMode("interface_set_vlan", "interface_unset_vlan"),
              INTF_CONFIG_IP_ADDR |-> ByMode("interface_set_ip_addr", "interface_unset_ip_addr")]]

debug_show_node_handler ==
  [takes |-> {Node}, asserts |-> TRUE,
   does  |-> [DEBUG_SHOW_NODE_TIMER |-> Always("print_wheel_timer"),
              DEBUG_SHOW_NODE_TIMER_LOGGING |-> Always("wt_enable_logging")]]

show_interface_handler ==
  [takes |-> {Node, "<protocol-name>"}, asserts |-> TRUE,
   does  |-> [SHOW_INTF_STATS |-> Always("dump_node_interface_stats")]]

\* Its flags have a value of their own to turn them off: with "no" it does the same.
traceoptions_handler ==
  [takes |-> {Node, "<if-name>", "<flag-val>"}, asserts |-> TRUE,
   does  |-> [DEBUG_GLOBAL_STDOUT |-> Always("set gstdout"), DEBUG_GLOBAL_NO_STDOUT |-> Always("reset gstdout"),
              DEBUG_LOGGING_PER_NODE |-> Always("set flag"), DEBUG_LOGGING_PER_INTF |-> Always("set flag"),
              DEBUG_SHOW_LOG_STATUS |-> Always("tcp_ip_show_log_status")]]

spf_algo_handler ==
  [takes |-> {Node}, asserts |-> FALSE,
   does  |-> [SHOW_SPF_RESULTS |-> Always("show_spf_results"), RUN_SPF |-> Always("compute_spf"),
              RUN_SPF_ALL |-> Always("compute_spf_all_nodes")]]

isis_config_handler ==
  [takes |-> {Node, "<timeout-val>", "<if-grp-name>"}, asserts |-> TRUE,
   does  |-> [ISIS_CONFIG_NODE_ENABLE |-> ByMode("isis_init", "isis_de_init"),
              ISIS_OVERLOAD           |-> ByMode("isis_set_overload", "isis_unset_overload"),
              ISIS_OVERLOAD_TIMEOUT   |-> ByMode("isis_set_overload", "isis_unset_overload"),
              ISIS_INTF_GRP           |-> ByMode("isis_config_intf_grp", "isis_un_config_intf_grp"),
              ISIS_DYN_IGRP |-> ByMode("isis_config_dynamic_intf_grp", "isis_un_config_dynamic_intf_grp"),
              ISIS_LAYER2_MAP         |-> ByMode("isis_config_layer2_map", "isis_un_config_layer2_map")]]

\* What isis_intf_config_handler does.
OnInterfaces ==
  LET switch == ByMode("isis_enable_protocol_on_interface", "isis_disable_protocol_on_interface") IN
  [ISIS_INTF_ENABLE |-> switch, ISIS_INTF_ALL_ENABLE |-> switch,
   ISIS_INTF_GROUP_MEMBERSHIP |->
     ByMode("isis_intf_group_add_intf_membership", "isis_intf_group_remove_intf_membership")]

isis_intf_config_handler ==
  [takes |-> {Node, "<if-name>", "<if-grp-name>"}, asserts |-> TRUE, does |-> OnInterfaces]

isis_show_handler ==
  [takes |-> {Node, "<if-name>", "<rtr-id>"}, asserts |-> TRUE,
   does  |-> [ISIS_PROTOCOL |-> Always("isis_show_node_protocol_state"),
              ISIS_ONE_INTF |-> Always("isis_show_one_intf_stats"),
              ISIS_ALL_INTF |-> Always("isis_show_all_intf_stats"),
              ISIS_LSDB |-> Always("isis_show_lspdb"),
              ISIS_ONE_LSP |-> Always("isis_show_one_lsp_pkt_detail"),
              ISIS_EVENT_COUNTERS |-> Always("isis_show_event_counters"),
              ISIS_INTF_GROUPS |-> Always("isis_show_all_interface_group"),
              ISIS_TED |-> Always("ted_show_ted_db"), ISIS_TED_DETAIL |-> Always("ted_show_ted_db"),
              ISIS_ONE_TED_ENTRY |-> Always("ted_show_ted_db"),
              ISIS_ONE_TED_ENTRY_DETAIL |-> Always("ted_show_ted_db"),
              ISIS_ALL_ADJACENCY |-> Always("isis_show_all_adjacencies")]]

isis_clear_handler ==
  [takes |-> {Node}, asserts |-> TRUE,
   does  |-> [CLEAR_ISIS_LSDB |-> Always("isis_cleanup_lsdb"),
              CLEAR_ISIS_ADJACENCY |-> Always("isis_delete_all_adjacencies")]]

\* "interface all" is a case without a statement.
ddcp_handler ==
  [takes |-> {Node, "<ddcp-q-interval>", "<if-name>"}, asserts |-> TRUE,
   does  |-> [DDCP_PROTO |-> ByMode("ddcp_init", "ddcp_de_init"),
              RUN_DDCP_QUERY |-> Always("ddcp_trigger_default_ddcp_query"),
              RUN_DDCP_QUERY_PERIODIC |-> Always("ddcp_trigger_default_ddcp_query"),
              SHOW_DDCP_DB |-> Always("ddcp_print_ddcp_reply_msgs_db"),
              DDCP_INTF_ENABLE |-> ByMode("init_ddcp_interface_props", "free"),
              DDCP_INTF_ALL_ENABLE |-> Always("nothing")]]

nbrship_mgmt_handler ==
  [takes |-> {Node, "<if-name>"}, asserts |-> TRUE,
   does  |-> [SHOW_NODE_NBRSHIP |-> Always("dump_interface_adjacencies"),
              SHOW_NODE_NMP_STATE |-> Always("nbrship_mgmt_show_nmp_state"),
              SHOW_NODE_NMP_PROTOCOL_ALL_INTF_STATS |-> Always("nbrship_print_hello_stats"),
              NBRSHIP_ENABLE |-> ByMode("enable node", "disable node"),
              INTF_NBRSHIP_ENABLE |-> ByMode("enable interface", "disable interface"),
              INTF_ALL_NBRSHIP_ENABLE |-> ByMode("enable interfaces", "disable interfaces")]]

\* The handlers by name: those of the parser itself are not among them.
Handlers ==
  [display_mem_usage |-> display_mem_usage, show_arp_handler |-> show_arp_handler,
   show_mac_handler |-> show_mac_handler,
   show_rt_handler |-> show_rt_handler, show_nw_topology_handler |-> show_nw_topology_handler,
   clear_topology_handler |-> clear_topology_handler, arp_handler |-> arp_handler,
   ping_handler |-> ping_handler, l3_config_handler |-> l3_config_handler,
   intf_config_handler |-> intf_config_handler, debug_show_node_handler |-> debug_show_node_handler,
   show_interface_handler |-> show_interface_handler, traceoptions_handler |-> traceoptions_handler,
   spf_algo_handler |-> spf_algo_handler, isis_config_handler |-> isis_config_handler,
   isis_intf_config_handler |-> isis_intf_config_handler, isis_show_handler |-> isis_show_handler,
   isis_clear_handler |-> isis_clear_handler, ddcp_handler |-> ddcp_handler,
   nbrship_mgmt_handler |-> nbrship_mgmt_handler]

\* Does the handler stop at this name?
Accepts(fn, id) == fn \in DOMAIN Handlers /\ Handlers[fn].asserts => id \in Handlers[fn].takes

\* Codes for which "no" changes nothing, or does not exist.
NoIgnored ==
  {"CONF_INTF_UP_DOWN", "DEBUG_GLOBAL_STDOUT", "DEBUG_GLOBAL_NO_STDOUT", "DEBUG_LOGGING_PER_NODE",
   "DEBUG_LOGGING_PER_INTF", "DDCP_INTF_ALL_ENABLE"}

\* The operation that a call leads to, and whether a line with "no" undoes one without.
Operation(fn, code, mode) == Handlers[fn].does[code][mode]
Undoes(fn, code) == Operation(fn, code, "disable") # Operation(fn, code, "enable")

\* Handlers that work on no node, for all their codes or for some.
NoNode(fn, code) ==
  \/ fn \in {"lib", "show_history_callback", "ut_test_handler", "display_mem_usage", "clear_topology_handler",
             "show_nw_topology_handler"}
  \/ code \in {"DEBUG_GLOBAL_STDOUT", "DEBUG_GLOBAL_NO_STDOUT"}

\* What the handler uses without another look at it.
Needs(fn, code) ==
  (IF NoNode(fn, code) THEN {} ELSE {Node})
  \union (CASE fn = "intf_config_handler"      -> {"<if-name>"}
            [] fn = "l3_config_handler"        -> {"<ip-address>", "<mask>"}
            [] fn \in {"ping_handler", "arp_handler"} -> {"<ip-address>"}
            [] OTHER -> {})
  \union (CASE code = "CONF_INTF_UP_DOWN"      -> {"<if-up-down>"}
            [] code = "INTF_CONFIG_METRIC"     -> {"<metric-val>"}
            [] code = "INTF_CONFIG_IP_ADDR"    -> {"<intf-ip-address>", "<mask>"}
            [] code = "ERO_PING"               -> {"<ero-ip-address>"}
            [] code = "DEBUG_LOGGING_PER_NODE" -> {"<flag-val>"}
            [] code = "DEBUG_LOGGING_PER_INTF" -> {"<flag-val>", "<if-name>"}
            [] code = "ISIS_OVERLOAD_TIMEOUT"  -> {"<timeout-val>"}
            [] code = "ISIS_INTF_GRP"          -> {"<if-grp-name>"}
            [] code = "ISIS_INTF_ENABLE"       -> {"<if-name>"}
            [] code = "ISIS_INTF_GROUP_MEMBERSHIP" -> {"<if-name>", "<if-grp-name>"}
            [] code = "ISIS_ONE_INTF"          -> {"<if-name>"}
            [] code \in {"ISIS_ONE_LSP", "ISIS_ONE_TED_ENTRY", "ISIS_ONE_TED_ENTRY_DETAIL"} -> {"<rtr-id>"}
            [] code \in {"DDCP_INTF_ENABLE", "INTF_NBRSHIP_ENABLE"} -> {"<if-name>"}
            [] code = "DEBUG_UT"               -> {"<ut-enable>"}
            [] OTHER -> {})
=============================================================================
