--------------------------- MODULE IsisIntfGroup ---------------------------
(***************************************************************************)
(* The interface groups of one router (Layer5/isis/isis_intf_group.c) and  *)
(* the choice of interfaces an LSP is flooded on (isis_schedule_lsp_flood).*)
(*                                                                         *)
(* Interfaces in one group lead to the same place: an LSP leaves on one of *)
(* them only, the first, and members whose adjacency is up are kept before *)
(* the others.  Groups are dynamic, one for each neighbour, made and freed *)
(* with its adjacencies, or static, made by commands.  Every command, and  *)
(* every job that changes an adjacency, is one step.  The timers of        *)
(* adjacencies are in module IsisAdjacency.                                *)
(***************************************************************************)
EXTENDS Integers, Sequences, FiniteSets, SequencesExt

CONSTANTS
  IntfSeq,      \* the interfaces in the order of node->intf
  Routers,      \* router ids of neighbours
  StaticNames,  \* names of groups in commands
  Links,        \* for every interface the neighbours on its link: some choices
  NULL

Intfs == ToSet(IntfSeq)

\* A dynamic group has the router id of the neighbour as its name.
Names == Routers \union StaticNames

VARIABLES
  nbrs,       \* the neighbours on the link of each interface, one of Links
  node,       \* what changes in node and interfaces: a record, see Fresh
  disturbed,  \* may the order of members be out of date (see FloodsOnce)?
  crashed     \* why the process ended: "no" while it runs

vars == <<nbrs, node, disturbed, crashed>>

\* intf_grp_avl_root: the member list of each group, or NULL; dyn_intf_grp;
\* adj_list_head of the interfaces, NULL where the protocol is disabled; intf_grp.
Fresh ==
  [groups |-> [g \in Names |-> NULL], dyn |-> TRUE,
   adjs   |-> [i \in Intfs |-> NULL], intf_grp |-> [i \in Intfs |-> NULL]]

Enabled(s, i) == s.adjs[i] # NULL
Exists(s, g) == s.groups[g] # NULL

\* isis_adjacency_t, late once its delete timer has queued its job.
Adjacencies == [nbr : Routers, state : {"DOWN", "INIT", "UP"}, late : BOOLEAN]

\* The node has finitely many interfaces, a link finitely many neighbours, and NULL is no
\* group, interface or list.
GroupsAssumption ==
  /\ IntfSeq \in Seq(Intfs)
  /\ Links \subseteq [Intfs -> SUBSET Routers] /\ IsFiniteSet(Routers)
  /\ NULL \notin Names \union Intfs
  /\ NULL \notin Seq(Intfs)
  /\ NULL \notin Seq(Adjacencies)

-----------------------------------------------------------------------------
(* Members.                                                                *)

\* remove_glthread: the sequence without the node, if it is in it.
without(seq, n) ==
  IF \E k \in DOMAIN seq : seq[k] = n THEN RemoveAt(seq, CHOOSE k \in DOMAIN seq : seq[k] = n) ELSE seq

\* isis_intf_grp_is_member_intf_active: it looks at the first adjacency only.
active(s, i) == s.adjs[i] # <<>> /\ Head(s.adjs[i]).state = "UP"

\* remove_glthread of intf_grp_member_glue, in whatever list it is.
unlinked(s, i) ==
  [s EXCEPT !.groups = [g \in Names |-> IF @[g] = NULL THEN NULL ELSE without(@[g], i)]]

\* Mutant: behind the others.
refreshed_at_end(s, i) ==
  LET t == unlinked(s, i) IN [t EXCEPT !.groups[s.intf_grp[i]] = Append(@, i)]

\* isis_intf_grp_refresh_member_interface: the comparison makes an active member
\* the first, and any other the last.
refreshed(s, i) ==
  LET t == unlinked(s, i)  g == s.intf_grp[i] IN
  [t EXCEPT !.groups[g] = IF active(s, i) THEN <<i>> \o @ ELSE Append(@, i)]

\* isis_intf_group_add_intf_membership
joined(s, g, i) == IF s.intf_grp[i] = g THEN s ELSE refreshed([s EXCEPT !.intf_grp[i] = g], i)

\* isis_intf_group_remove_intf_membership
left(s, g, i) == IF s.intf_grp[i] # g THEN s ELSE [unlinked(s, i) EXCEPT !.intf_grp[i] = NULL]

\* isis_dynamic_intf_grp_update_on_adjacency_create
created(s, i, n) ==
  IF ~s.dyn THEN s
  ELSE joined([s EXCEPT !.groups[n] = IF @ = NULL THEN <<>> ELSE @], n, i)

\* isis_dynamic_intf_grp_update_on_adjacency_delete
deleted(s, i, n) ==
  LET t == left(s, n, i) IN
  IF ~s.dyn THEN s
  ELSE IF t.groups[n] = <<>> THEN [t EXCEPT !.groups[n] = NULL] ELSE t

\* Its assertion.
Misses(s, n) == s.dyn /\ ~Exists(s, n)

\* isis_delete_adjacency
AdjacencyDeleted(s, i, a) == deleted([s EXCEPT !.adjs[i] = without(@, a)], i, a.nbr)

\* isis_dynamic_intf_grp_build_intf_grp_db for one interface: each adjacency makes the
\* group of its neighbour, if there is none, and moves the interface into it.
grouped(s, i) ==
  IF ~Enabled(s, i) \/ s.adjs[i] = <<>> THEN s
  ELSE joined([s EXCEPT !.groups = [g \in Names |->
                 IF @[g] = NULL /\ \E a \in ToSet(s.adjs[i]) : a.nbr = g THEN <<>> ELSE @[g]]],
              Last(s.adjs[i]).nbr, i)

\* And for all, in their order.
built(s) ==
  LET t[k \in 0..Len(IntfSeq)] == IF k = 0 THEN s ELSE grouped(t[k - 1], IntfSeq[k]) IN t[Len(IntfSeq)]

\* isis_intf_grp_cleanup
cleaned(s) ==
  [s EXCEPT !.groups = [g \in Names |-> NULL],
            !.intf_grp = [i \in Intfs |-> IF \E g \in Names : Exists(s, g) /\ i \in ToSet(s.groups[g])
                                          THEN NULL ELSE @[i]]]

-----------------------------------------------------------------------------
(* Adjacencies.                                                            *)

Init ==
  /\ nbrs \in Links
  /\ node = Fresh
  /\ disturbed = FALSE
  /\ crashed = "no"

\* The step of a handler that leaves s behind.
Becomes(s) == node' = s /\ UNCHANGED <<nbrs, crashed>>

With(i, old, new) == [node.adjs EXCEPT ![i] = [k \in DOMAIN @ |-> IF @[k] = old THEN new ELSE @[k]]]

\* isis_change_adjacency_state, from INIT or UP; INIT to DOWN goes on into the case
\* of UP.
Changed(i, a, state) ==
  LET s == [node EXCEPT !.adjs = With(i, a, [a EXCEPT !.state = state])] IN
  IF (state = "UP" /\ a.state = "INIT") \/ (state = "DOWN" /\ a.state # "DOWN")
  THEN IF s.intf_grp[i] # NULL THEN refreshed(s, i) ELSE s
  ELSE s

\* isis_update_interface_adjacency_from_hello: a new adjacency is the first.
HelloNew(i, n) ==
  /\ Enabled(node, i)
  /\ n \in nbrs[i]
  /\ \A a \in ToSet(node.adjs[i]) : a.nbr # n
  /\ Becomes(created([node EXCEPT !.adjs[i] = <<[nbr |-> n, state |-> "DOWN", late |-> FALSE]>> \o @], i, n))
  /\ UNCHANGED disturbed

\* isis_get_next_adj_state_on_receiving_next_hello
HelloKnown(i, a) ==
  /\ Becomes(Changed(i, a, IF a.state = "DOWN" THEN "INIT" ELSE "UP"))
  /\ UNCHANGED disturbed

\* A hello with another address, or the expiry timer.
GoesDown(i, a) ==
  /\ a.state # "DOWN"
  /\ Becomes(Changed(i, a, "DOWN"))
  /\ UNCHANGED disturbed

\* The delete timer queues its job; a hello may come before it.
DeleteTimer(i, a) ==
  /\ a.state = "DOWN" /\ ~a.late
  /\ Becomes([node EXCEPT !.adjs = With(i, a, [a EXCEPT !.late = TRUE])])
  /\ UNCHANGED disturbed

\* isis_adjacency_delete_timer_expired
DeleteJob(i, a) ==
  /\ a.late
  /\ disturbed' = (disturbed \/ a.state # "DOWN")
  /\ IF Misses(node, a.nbr)
     THEN crashed' = "no group" /\ UNCHANGED <<nbrs, node>>
     ELSE Becomes(AdjacencyDeleted(node, i, a))

-----------------------------------------------------------------------------
(* Commands.                                                               *)

\* isis_enable_protocol_on_interface
Enable(i) ==
  /\ ~Enabled(node, i)
  /\ Becomes([node EXCEPT !.adjs[i] = <<>>])
  /\ UNCHANGED disturbed

\* isis_delete_all_adjacencies: each adjacency does what isis_delete_adjacency does, and
\* as their neighbours differ, none of them to the group of another.
AllDeleted(s, i) ==
  LET gone == {a.nbr : a \in ToSet(s.adjs[i])}
      t == IF s.intf_grp[i] \in gone THEN left(s, s.intf_grp[i], i) ELSE s
      u == [t EXCEPT !.groups = [g \in Names |-> IF g \in gone /\ @[g] = <<>> THEN NULL ELSE @[g]]]
  IN [(IF s.dyn THEN u ELSE s) EXCEPT !.adjs[i] = <<>>]

\* Does one of them miss its group?
MissesOne(s, i) == \E a \in ToSet(s.adjs[i]) : Misses(s, a.nbr)

\* isis_disable_protocol_on_interface
disabled(s, i) == [unlinked(AllDeleted(s, i), i) EXCEPT !.intf_grp[i] = NULL, !.adjs[i] = NULL]

Disable(i) ==
  /\ Enabled(node, i)
  /\ IF MissesOne(node, i)
     THEN crashed' = "no group" /\ UNCHANGED <<nbrs, node>>
     ELSE Becomes(disabled(node, i))
  /\ UNCHANGED disturbed

\* isis_config_intf_grp
ConfigGroup(g) ==
  LET s == IF node.dyn THEN cleaned([node EXCEPT !.dyn = FALSE]) ELSE node IN
  /\ Becomes(IF Exists(s, g) THEN s ELSE [s EXCEPT !.groups[g] = <<>>])
  /\ disturbed' = (disturbed /\ ~node.dyn)

\* isis_dynamic_intf_grp_build_intf_grp_db asserts that no interface has a group.
Switched(s) ==
  LET t == [s EXCEPT !.dyn = TRUE] IN
  IF \E i \in Intfs : Enabled(t, i) /\ t.intf_grp[i] # NULL
  THEN crashed' = "assert" /\ UNCHANGED <<nbrs, node>>
  ELSE Becomes(built(t))

\* isis_un_config_intf_grp: after the last static group, groups are dynamic again.
UnConfigGroup(g) ==
  /\ ~node.dyn
  /\ Exists(node, g)
  /\ LET members == ToSet(node.groups[g])
         s == [node EXCEPT !.groups[g] = NULL,
                           !.intf_grp = [i \in Intfs |-> IF i \in members THEN NULL ELSE @[i]]] IN
     IF \A h \in Names : ~Exists(s, h)
     THEN Switched(s) /\ disturbed' = FALSE
     ELSE Becomes(s) /\ UNCHANGED disturbed

\* isis_config_dynamic_intf_grp
ConfigDynamic ==
  /\ ~node.dyn
  /\ \A g \in Names : ~Exists(node, g)
  /\ Switched(node)
  /\ disturbed' = FALSE

\* isis_un_config_dynamic_intf_grp
UnConfigDynamic ==
  /\ node.dyn
  /\ Becomes(cleaned([node EXCEPT !.dyn = FALSE]))
  /\ disturbed' = FALSE

\* isis_intf_config_handler, CMDCODE_CONF_NODE_ISIS_PROTO_INTF_GROUP_MEMBERSHIP: dynamic
\* groups are not spared.
ConfigMember(i, g, enable) ==
  /\ Enabled(node, i)
  /\ Exists(node, g)
  /\ Becomes(IF enable THEN joined(node, g, i) ELSE left(node, g, i))
  /\ disturbed' = (disturbed \/ node.dyn)

\* isis_protocol_shutdown_now disables interface after interface.
stopped(s, i) == IF Enabled(s, i) THEN disabled(s, i) ELSE s

\* Then it frees the groups that are left, static ones and those without an adjacency,
\* and asserts that there are none before the node's data goes; and the protocol is
\* enabled again.
Restart ==
  /\ LET after[k \in 0..Len(IntfSeq)] == IF k = 0 THEN node ELSE stopped(after[k - 1], IntfSeq[k])
         rest == cleaned(after[Len(IntfSeq)])
     IN IF \E k \in DOMAIN IntfSeq :
             Enabled(after[k - 1], IntfSeq[k]) /\ MissesOne(after[k - 1], IntfSeq[k])
        THEN crashed' = "no group" /\ UNCHANGED <<node, disturbed>>
        ELSE IF \E g \in Names : Exists(rest, g)
        THEN crashed' = "assert" /\ UNCHANGED <<node, disturbed>>
        ELSE node' = Fresh /\ disturbed' = FALSE /\ UNCHANGED crashed
  /\ UNCHANGED nbrs

Next ==
  /\ crashed = "no"
  /\ \/ \E i \in Intfs, n \in Routers : HelloNew(i, n)
     \/ \E i \in Intfs :
          /\ Enabled(node, i)
          /\ \E a \in ToSet(node.adjs[i]) :
               HelloKnown(i, a) \/ GoesDown(i, a) \/ DeleteTimer(i, a) \/ DeleteJob(i, a)
     \/ \E i \in Intfs : Enable(i) \/ Disable(i)
     \/ \E g \in StaticNames : ConfigGroup(g)
     \/ \E g \in Names : UnConfigGroup(g)
     \/ ConfigDynamic \/ UnConfigDynamic
     \/ \E i \in Intfs, g \in Names, enable \in BOOLEAN : ConfigMember(i, g, enable)
     \/ Restart

Spec == Init /\ [][Next]_vars

-----------------------------------------------------------------------------
(* Flooding.                                                               *)

\* isis_any_adjacency_up_on_interface
any_up(i) == \E a \in ToSet(node.adjs[i]) : a.state = "UP"

\* isis_schedule_lsp_flood: interfaces without a group, and the first member of each group.
flooded(exempt_iif) ==
  LET exempt_grp == IF exempt_iif = NULL THEN NULL ELSE node.intf_grp[exempt_iif]
      alone  == {i \in Intfs : Enabled(node, i) /\ i # exempt_iif /\ node.intf_grp[i] = NULL}
      chosen == {g \in Names : Exists(node, g) /\ g # exempt_grp /\ node.groups[g] # <<>>}
  IN alone \union {i \in {Head(node.groups[g]) : g \in chosen} : any_up(i)}

-----------------------------------------------------------------------------
(* Properties.                                                             *)

\* Every link has one neighbour.
PointToPoint == \A i \in Intfs : Cardinality(nbrs[i]) = 1

\* isis_intf_group.c: an interface points to the group whose list it is in, and is
\* there once; groups and interfaces that are gone are nowhere; a dynamic group
\* without members is one that an adjacency still has to find.  The assertions that
\* no interface has a group when groups become dynamic (isis_intf_group.c) and that
\* no group is left when the protocol is shut down (isis_rtr.c) never fail.  That an
\* adjacency finds its group when it is deleted, in any of the three ways, holds on
\* links of two routers until commands or a late job disturb the groups; on a LAN
\* the assertion of isis_dynamic_intf_grp_update_on_adjacency_delete does fail.
MembersAgree ==
  /\ crashed # "assert"
  /\ crashed = "no group" => disturbed \/ ~PointToPoint
  /\ \A g \in Names : Exists(node, g) =>
       /\ IsInjective(node.groups[g])
       /\ \A i \in ToSet(node.groups[g]) : Enabled(node, i) /\ node.intf_grp[i] = g
       /\ node.dyn /\ ~disturbed /\ node.groups[g] = <<>> =>
            \E i \in Intfs : Enabled(node, i) /\ \E a \in ToSet(node.adjs[i]) : a.nbr = g
  /\ \A i \in Intfs : LET g == node.intf_grp[i] IN
       g # NULL => Exists(node, g) /\ i \in ToSet(node.groups[g])

\* isis_schedule_lsp_flood with groups: on links of two routers, an LSP leaves over a live member of
\* every group that has one; with dynamic groups every neighbour that is up gets it
\* once, over whatever number of links, and never the one it came from.  (Not after
\* commands have moved members of dynamic groups, nor when a late job has deleted
\* an adjacency that was not down: the first member may then be a dead one.)
FloodsOnce ==
  PointToPoint /\ ~disturbed /\ crashed = "no" =>
    /\ \A g \in Names : Exists(node, g) =>
         \A i \in ToSet(node.groups[g]) : any_up(i) => Head(node.groups[g]) \in flooded(NULL)
    /\ node.dyn =>
         \A iif \in {j \in Intfs : Enabled(node, j) /\ any_up(j)} \union {NULL} : \A n \in Routers :
           LET up == {i \in Intfs : nbrs[i] = {n} /\ Enabled(node, i) /\ any_up(i)} IN
           Cardinality(flooded(iif) \intersect up) = IF up = {} \/ (iif # NULL /\ nbrs[iif] = {n}) THEN 0 ELSE 1

\* isis_intf_group.c, isis_schedule_lsp_flood: both of the above.
GroupsSound == MembersAgree /\ FloodsOnce
=============================================================================
