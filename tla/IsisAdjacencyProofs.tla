------------------------ MODULE IsisAdjacencyProofs ------------------------
(***************************************************************************)
(* The invariants of IsisAdjacency for any number of neighbours,           *)
(* interfaces, addresses and queued jobs, and any width of the counter.    *)
(***************************************************************************)
EXTENDS IsisAdjacency, TLAPS, FiniteSetTheorems

\* The four parts of the inductive invariant that the properties leave out:
\* the reconciliation phase has a timer, a table without the mapping holds no
\* entry, and hellos are sent only by an interface that is enabled, up and was
\* given an address.
AdjInv ==
  /\ adj \in [Adjs -> AdjFields \union {Freed}]
  /\ TimersMatchState

GoodNode(n) ==
  /\ n \in NodeFields
  /\ n.reconciliation_in_progress => n.reconciliation_timer # "NULL"
  /\ ~n.layer2_mapping => n.arp = {}

GoodIntf(f) ==
  /\ f \in IntfFields
  /\ Qualifies(f) => f.hello_xmit_timer
  /\ f.hello_xmit_timer => f.enabled /\ f.is_up /\ f.mode # "none"

IfInv == ifs \in [Intfs -> IntfFields] /\ \A i \in Intfs : GoodIntf(ifs[i])

MiscInv ==
  /\ lsp \subseteq Intfs \X Nbrs \X Addrs \X IfIndexes
  /\ jobs \in Seq(Job)
  /\ silent \subseteq Nbrs
  /\ crashed \in {"no", "null", "freed"}

Inv ==
  /\ AdjInv
  /\ GoodNode(node)
  /\ IfInv
  /\ NoStaleMapping
  /\ LspNotStale
  /\ MiscInv

\* A remainder is in range.
LEMMA ModRange ==
  \A x \in Int : x % CountMod \in 0..(CountMod - 1)
  BY AdjacencyAssumption

-----------------------------------------------------------------------------
(* What the operators on isis_node_info_t keep. *)

\* Asking for an LSP.
LEMMA ScheduleFacts ==
  ASSUME NEW n, GoodNode(n)
  PROVE  /\ GoodNode(schedule_lsp(n))
         /\ schedule_lsp(n).lsp_pkt_gen_task
         /\ schedule_lsp(n).arp = n.arp
         /\ schedule_lsp(n).layer2_mapping = n.layer2_mapping
         /\ schedule_lsp(n).reconciliation_in_progress = n.reconciliation_in_progress
  BY DEF GoodNode, schedule_lsp, NodeFields

\* Counting.
LEMMA CountFacts ==
  ASSUME NEW n, GoodNode(n), NEW k \in Nat
  PROVE  /\ GoodNode(increment_up_count(n))
         /\ GoodNode(decrement_up_count(n, k))
         /\ increment_up_count(n).arp = n.arp
         /\ decrement_up_count(n, k).arp = n.arp
         /\ increment_up_count(n).layer2_mapping = n.layer2_mapping
         /\ decrement_up_count(n, k).layer2_mapping = n.layer2_mapping
         /\ increment_up_count(n).lsp_pkt_gen_task = n.lsp_pkt_gen_task
         /\ decrement_up_count(n, k).lsp_pkt_gen_task = n.lsp_pkt_gen_task
         /\ increment_up_count(n).reconciliation_in_progress = n.reconciliation_in_progress
         /\ decrement_up_count(n, k).reconciliation_in_progress = n.reconciliation_in_progress
<1>1. n.adjacency_up_count \in Int /\ k \in Int
  BY AdjacencyAssumption DEF GoodNode, NodeFields
<1>2. /\ (n.adjacency_up_count + 1) % CountMod \in 0..(CountMod - 1)
      /\ (n.adjacency_up_count - k) % CountMod \in 0..(CountMod - 1)
  BY <1>1, ModRange
<1>3. QED
  BY <1>2 DEF GoodNode, NodeFields, increment_up_count, decrement_up_count

\* Entering, prolonging and ending the reconciliation phase.
LEMMA ReconciliationFacts ==
  ASSUME NEW n, GoodNode(n)
  PROVE  /\ GoodNode(enter_reconciliation(n))
         /\ enter_reconciliation(n).reconciliation_in_progress
         /\ enter_reconciliation(n).arp = n.arp
         /\ enter_reconciliation(n).layer2_mapping = n.layer2_mapping
         /\ GoodNode(restart_reconciliation_timer(n))
         /\ restart_reconciliation_timer(n).reconciliation_in_progress = n.reconciliation_in_progress
         /\ restart_reconciliation_timer(n).arp = n.arp
         /\ restart_reconciliation_timer(n).layer2_mapping = n.layer2_mapping
         /\ GoodNode(exit_reconciliation(n))
         /\ exit_reconciliation(n).lsp_pkt_gen_task \/ exit_reconciliation(n) = n
         /\ exit_reconciliation(n).arp = n.arp
  BY DEF GoodNode, NodeFields, Timer, enter_reconciliation, restart_reconciliation_timer,
         exit_reconciliation, start_reconciliation_timer, schedule_lsp

\* Mapping.
LEMMA MapFacts ==
  ASSUME NEW n, GoodNode(n), NEW ip \in Addrs, NEW ips \in SUBSET Addrs
  PROVE  /\ GoodNode(map_up(n, ip))
         /\ map_up(n, ip).arp \subseteq n.arp \union {ip}
         /\ map_up(n, ip).lsp_pkt_gen_task = n.lsp_pkt_gen_task
         /\ map_up(n, ip).reconciliation_in_progress = n.reconciliation_in_progress
         /\ GoodNode(map_down(n, ips))
         /\ map_down(n, ips).arp \subseteq n.arp \ ips
         /\ map_down(n, ips).lsp_pkt_gen_task = n.lsp_pkt_gen_task
         /\ map_down(n, ips).reconciliation_in_progress = n.reconciliation_in_progress
  BY DEF GoodNode, NodeFields, map_up, map_down

\* INIT to UP.
LEMMA CameUpFacts ==
  ASSUME NEW n, GoodNode(n), NEW r \in AdjFields
  PROVE  /\ GoodNode(came_up(n, r))
         /\ came_up(n, r).arp \subseteq n.arp \union {r.nbr_intf_ip}
         /\ came_up(n, r).lsp_pkt_gen_task \/ came_up(n, r).reconciliation_in_progress
<1> DEFINE m == increment_up_count(n)
           q == CASE m.adjacency_up_count = 1     -> enter_reconciliation(m)
                  [] m.adjacency_up_count # 1 /\ m.reconciliation_in_progress
                                                  -> restart_reconciliation_timer(m)
                  [] OTHER                        -> schedule_lsp(m)
<1>1. GoodNode(m) /\ m.arp = n.arp
  BY CountFacts, 0 \in Nat
<1> HIDE DEF m
<1>2. GoodNode(q) /\ q.arp = m.arp /\ (q.lsp_pkt_gen_task \/ q.reconciliation_in_progress)
  BY <1>1, ReconciliationFacts, ScheduleFacts
<1>3. came_up(n, r) = map_up(q, r.nbr_intf_ip)
  BY DEF came_up, m
<1> HIDE DEF q
<1>4. r.nbr_intf_ip \in Addrs
  BY DEF AdjFields
<1>5. QED
  BY <1>1, <1>2, <1>3, <1>4, MapFacts

\* INIT or UP to DOWN.
LEMMA WentDownFacts ==
  ASSUME NEW n, GoodNode(n), NEW r \in AdjFields
  PROVE  /\ GoodNode(went_down(n, r))
         /\ went_down(n, r).arp \subseteq n.arp \ {r.nbr_intf_ip}
         /\ went_down(n, r).lsp_pkt_gen_task \/ went_down(n, r).reconciliation_in_progress
<1> DEFINE m == decrement_up_count(n, 1)
           q == IF m.reconciliation_in_progress /\ m.adjacency_up_count # 0
                THEN restart_reconciliation_timer(m) ELSE schedule_lsp(m)
<1>1. GoodNode(m) /\ m.arp = n.arp
  BY CountFacts, 1 \in Nat
<1> HIDE DEF m
<1>2. GoodNode(q) /\ q.arp = m.arp /\ (q.lsp_pkt_gen_task \/ q.reconciliation_in_progress)
  BY <1>1, ReconciliationFacts, ScheduleFacts
<1>3. went_down(n, r) = map_down(q, {r.nbr_intf_ip})
  BY DEF went_down, m
<1> HIDE DEF q
<1>4. {r.nbr_intf_ip} \in SUBSET Addrs
  BY DEF AdjFields
<1>5. QED
  BY <1>1, <1>2, <1>3, <1>4, MapFacts

-----------------------------------------------------------------------------
(* isis_change_adjacency_state. *)

\* What a caller has to guarantee of the adjacency r it changes at address a
\* and of the node n.
Changeable(a, r, n, new) ==
  /\ r \in AdjFields
  /\ r.adj_state = adj[a].adj_state
  /\ IF r.adj_state = "DOWN"
     THEN r.expiry_timer = "NULL" /\ r.delete_timer # "NULL" /\ new \in {"DOWN", "INIT"}
     ELSE /\ r.delete_timer = "NULL"
          /\ new \in {"DOWN", "UP"}
          /\ new = "UP" => r.expiry_timer # "NULL"
  /\ GoodNode(n)
  /\ \A ip \in n.arp : \/ \E b \in Up \ {a} : adj[b].nbr_intf_ip = ip
                       \/ r.adj_state = "UP" /\ r.nbr_intf_ip = ip
  /\ \/ n.lsp_pkt_gen_task
     \/ n.reconciliation_in_progress
     \/ /\ lsp = Content
        /\ new = "UP" => /\ r.intf = adj[a].intf
                         /\ r.nbr_rtr_id = adj[a].nbr_rtr_id
                         /\ r.nbr_intf_ip = adj[a].nbr_intf_ip
                         /\ r.remote_if_index = adj[a].remote_if_index

\* No assertion is in the way of such a change.
LEMMA ChangeAsserts ==
  ASSUME NEW a, NEW r, NEW n, NEW new, Changeable(a, r, n, new)
  PROVE  ~assert_fails(n, r, new)
  BY DEF Changeable, assert_fails, GoodNode, AdjFields

\* The adjacency after it.
LEMMA ChangedFacts ==
  ASSUME NEW a, NEW r, NEW n, NEW new, Changeable(a, r, n, new)
  PROVE  /\ changed(r, new) \in AdjFields
         /\ changed(r, new).adj_state = new
         /\ IF new = "DOWN"
            THEN /\ changed(r, new).expiry_timer = "NULL"
                 /\ changed(r, new).delete_timer # "NULL"
            ELSE /\ changed(r, new).expiry_timer # "NULL"
                 /\ changed(r, new).delete_timer = "NULL"
         /\ changed(r, new).intf = r.intf
         /\ changed(r, new).nbr_rtr_id = r.nbr_rtr_id
         /\ changed(r, new).nbr_intf_ip = r.nbr_intf_ip
         /\ changed(r, new).remote_if_index = r.remote_if_index
  BY DEF Changeable, changed, to_init, to_up, to_down, AdjFields, Timer

\* The node after it.
LEMMA NodeChangedFacts ==
  ASSUME NEW a, NEW r, NEW n, NEW new, Changeable(a, r, n, new)
  PROVE  /\ GoodNode(node_changed(n, r, new))
         /\ new = "UP" => node_changed(n, r, new).arp \subseteq n.arp \union {r.nbr_intf_ip}
         /\ new # "UP" => node_changed(n, r, new).arp \subseteq n.arp
         /\ new # "UP" /\ r.adj_state = "UP" => r.nbr_intf_ip \notin node_changed(n, r, new).arp
         /\ \/ node_changed(n, r, new).lsp_pkt_gen_task
            \/ node_changed(n, r, new).reconciliation_in_progress
            \/ node_changed(n, r, new) = n /\ (new = "UP" <=> r.adj_state = "UP")
<1>1. GoodNode(n) /\ r \in AdjFields
  BY DEF Changeable
<1>2. CASE new = "UP" /\ r.adj_state = "INIT"
  <2>1. node_changed(n, r, new) = came_up(n, r)
    BY <1>2 DEF node_changed
  <2>2. QED
    BY <1>1, <1>2, <2>1, CameUpFacts
<1>3. CASE new = "DOWN" /\ r.adj_state # "DOWN"
  <2>1. node_changed(n, r, new) = went_down(n, r)
    BY <1>3 DEF node_changed
  <2>2. QED
    BY <1>1, <1>3, <2>1, WentDownFacts
<1>4. CASE ~(new = "UP" /\ r.adj_state = "INIT") /\ ~(new = "DOWN" /\ r.adj_state # "DOWN")
  <2>1. node_changed(n, r, new) = n
    BY <1>4 DEF node_changed
  <2>2. /\ new = "UP" <=> r.adj_state = "UP"
        /\ new # "UP" => r.adj_state # "UP"
    BY <1>4 DEF Changeable, AdjFields
  <2>3. QED
    BY <1>1, <2>1, <2>2
<1>5. QED
  BY <1>2, <1>3, <1>4

\* The LSP's content depends on the adjacencies that are up, and on four fields.
LEMMA ContentUnchanged ==
  ASSUME \A b \in Adjs :
           /\ adj'[b].adj_state = "UP" <=> adj[b].adj_state = "UP"
           /\ adj[b].adj_state = "UP" =>
                /\ adj'[b].intf = adj[b].intf
                /\ adj'[b].nbr_rtr_id = adj[b].nbr_rtr_id
                /\ adj'[b].nbr_intf_ip = adj[b].nbr_intf_ip
                /\ adj'[b].remote_if_index = adj[b].remote_if_index
  PROVE  Content' = Content /\ Up' = Up
<1>1. Up' = Up
  BY DEF Up
<1>2. \A b \in Up : <<adj'[b].intf, adj'[b].nbr_rtr_id, adj'[b].nbr_intf_ip, adj'[b].remote_if_index>>
                   = <<adj[b].intf, adj[b].nbr_rtr_id, adj[b].nbr_intf_ip, adj[b].remote_if_index>>
  BY DEF Up
<1>3. QED
  BY <1>1, <1>2 DEF Content

\* isis_change_adjacency_state keeps the invariant.
LEMMA ChangeKeeps ==
  ASSUME NEW a \in Live, NEW r, NEW n, NEW new, AdjInv, Changeable(a, r, n, new),
         ChangeState(a, r, n, new), UNCHANGED lsp
  PROVE  /\ AdjInv'
         /\ GoodNode(node)'
         /\ NoStaleMapping'
         /\ LspNotStale'
         /\ crashed' = "no"
<1> DEFINE c == changed(r, new)
<1>1. a \in Adjs /\ adj' = [adj EXCEPT ![a] = c] /\ node' = node_changed(n, r, new)
  BY DEF ChangeState, Live
<1>2. crashed' = "no"
  BY ChangeAsserts DEF ChangeState
<1>3. GoodNode(node)'
  BY <1>1, NodeChangedFacts DEF GoodNode
<1>4. /\ adj'[a] = c
      /\ \A b \in Adjs \ {a} : adj'[b] = adj[b]
      /\ adj' \in [Adjs -> AdjFields \union {Freed}]
  BY <1>1, ChangedFacts DEF AdjInv
<1>5. AdjInv'
  <2>1. ASSUME NEW b \in Live'
        PROVE  IF adj'[b].adj_state = "DOWN"
               THEN adj'[b].expiry_timer = "NULL" /\ adj'[b].delete_timer # "NULL"
               ELSE adj'[b].expiry_timer # "NULL" /\ adj'[b].delete_timer = "NULL"
    <3>1. CASE b = a
      BY <3>1, <1>4, ChangedFacts
    <3>2. CASE b # a
      <4>1. b \in Live /\ adj'[b] = adj[b]
        BY <3>2, <1>4 DEF Live
      <4>2. QED
        BY <4>1 DEF AdjInv, TimersMatchState
    <3>3. QED
      BY <3>1, <3>2
  <2>2. QED
    BY <2>1, <1>4 DEF AdjInv, TimersMatchState
<1>6. NoStaleMapping'
  <2>1. SUFFICES ASSUME NEW ip \in node'.arp
                 PROVE  \E b \in Up' : adj'[b].nbr_intf_ip = ip
    BY DEF NoStaleMapping
  <2>2. CASE ip \in n.arp /\ \E b \in Up \ {a} : adj[b].nbr_intf_ip = ip
    <3>1. PICK b \in Up \ {a} : adj[b].nbr_intf_ip = ip
      BY <2>2
    <3>2. b \in Adjs \ {a} /\ adj[b].adj_state = "UP"
      BY DEF Up
    <3>3. b \in Up' /\ adj'[b].nbr_intf_ip = ip
      BY <1>4, <3>1, <3>2 DEF Up
    <3>4. QED
      BY <3>3
  <2>3. CASE new = "UP" /\ ip = r.nbr_intf_ip
    <3>1. a \in Up' /\ adj'[a].nbr_intf_ip = ip
      BY <1>1, <1>4, <2>3, ChangedFacts DEF Up
    <3>2. QED
      BY <3>1
  <2>4. \/ ip \in n.arp /\ \E b \in Up \ {a} : adj[b].nbr_intf_ip = ip
        \/ new = "UP" /\ ip = r.nbr_intf_ip
    <3>1. /\ new = "UP" => node'.arp \subseteq n.arp \union {r.nbr_intf_ip}
          /\ new # "UP" => node'.arp \subseteq n.arp
          /\ new # "UP" /\ r.adj_state = "UP" => r.nbr_intf_ip \notin node'.arp
      BY <1>1, NodeChangedFacts
    <3>2. ip \in n.arp => \/ (\E b \in Up \ {a} : adj[b].nbr_intf_ip = ip)
                          \/ (r.adj_state = "UP" /\ r.nbr_intf_ip = ip)
      BY DEF Changeable
    <3>3. QED
      BY <2>1, <3>1, <3>2
  <2>5. QED
    BY <2>2, <2>3, <2>4
<1>7. LspNotStale'
  <2>1. CASE node'.lsp_pkt_gen_task \/ node'.reconciliation_in_progress
    BY <2>1 DEF LspNotStale
  <2>2. CASE ~(node'.lsp_pkt_gen_task \/ node'.reconciliation_in_progress)
    <3>1. node' = n /\ (new = "UP" <=> r.adj_state = "UP")
      BY <1>1, <2>2, NodeChangedFacts
    <3>2. /\ lsp = Content
          /\ new = "UP" => /\ r.intf = adj[a].intf
                           /\ r.nbr_rtr_id = adj[a].nbr_rtr_id
                           /\ r.nbr_intf_ip = adj[a].nbr_intf_ip
                           /\ r.remote_if_index = adj[a].remote_if_index
          /\ r.adj_state = adj[a].adj_state
      BY <3>1, <2>2 DEF Changeable
    <3>3. \A b \in Adjs :
             /\ adj'[b].adj_state = "UP" <=> adj[b].adj_state = "UP"
             /\ adj[b].adj_state = "UP" =>
                  /\ adj'[b].intf = adj[b].intf
                  /\ adj'[b].nbr_rtr_id = adj[b].nbr_rtr_id
                  /\ adj'[b].nbr_intf_ip = adj[b].nbr_intf_ip
                  /\ adj'[b].remote_if_index = adj[b].remote_if_index
      BY <1>4, <3>1, <3>2, ChangedFacts
    <3>4. Content' = Content
      BY <3>3, ContentUnchanged
    <3>5. QED
      BY <3>2, <3>4 DEF LspNotStale
  <2>3. QED
    BY <2>1, <2>2
<1>8. QED
  BY <1>2, <1>3, <1>5, <1>6, <1>7

-----------------------------------------------------------------------------
(* Deletion, and steps that leave the adjacencies alone. *)

\* A live adjacency has all its fields.
LEMMA LiveFields ==
  ASSUME AdjInv
  PROVE  /\ \A a \in Live : a \in Adjs /\ adj[a] \in AdjFields
         /\ Up \subseteq Live
  BY DEF AdjInv, Live, Up, Freed, AdjFields

\* isis_delete_adjacency and isis_delete_all_adjacencies keep the invariant.
LEMMA DeleteKeeps ==
  ASSUME NEW S \in SUBSET Live, AdjInv, GoodNode(node), NoStaleMapping, LspNotStale,
         DeleteAdjacencies(S), UNCHANGED lsp
  PROVE  AdjInv' /\ GoodNode(node)' /\ NoStaleMapping' /\ LspNotStale'
<1> DEFINE up  == S \intersect Up
           ips == {adj[a].nbr_intf_ip : a \in up}
           m   == decrement_up_count(node, Cardinality(up))
           n   == map_down(m, ips)
<1>1. /\ adj' = [a \in Adjs |-> IF a \in S THEN Freed ELSE adj[a]]
      /\ node' = IF up # {} THEN schedule_lsp(n) ELSE n
  BY DEF DeleteAdjacencies
<1>2. Cardinality(up) \in Nat
  <2>1. up \subseteq Adjs
    BY DEF Up
  <2>2. IsFiniteSet(up)
    BY <2>1, AdjacencyAssumption, FS_Subset
  <2>3. QED
    BY <2>2, FS_CardinalityType
<1>3. ips \in SUBSET Addrs
  BY LiveFields DEF AdjFields
<1>4. /\ GoodNode(m)
      /\ m.arp = node.arp
      /\ m.lsp_pkt_gen_task = node.lsp_pkt_gen_task
      /\ m.reconciliation_in_progress = node.reconciliation_in_progress
  BY <1>2, CountFacts
<1> HIDE DEF m, ips
<1>5. /\ GoodNode(n)
      /\ n.arp \subseteq node.arp \ ips
      /\ n.lsp_pkt_gen_task = node.lsp_pkt_gen_task
      /\ n.reconciliation_in_progress = node.reconciliation_in_progress
  <2>1. /\ GoodNode(map_down(m, ips))
        /\ map_down(m, ips).arp \subseteq m.arp \ ips
        /\ map_down(m, ips).lsp_pkt_gen_task = m.lsp_pkt_gen_task
        /\ map_down(m, ips).reconciliation_in_progress = m.reconciliation_in_progress
    BY <1>3, <1>4 DEF GoodNode, NodeFields, map_down
  <2>2. QED
    BY <1>4, <2>1
<1> HIDE DEF n
<1>6. /\ GoodNode(node)'
      /\ node'.arp \subseteq node.arp \ ips
  BY <1>1, <1>5, ScheduleFacts DEF GoodNode
<1>7. AdjInv'
  BY <1>1 DEF AdjInv, TimersMatchState, Live, Freed
<1>8. Up' = Up \ S
  BY <1>1 DEF Up, Freed
<1>9. NoStaleMapping'
  <2>1. SUFFICES ASSUME NEW ip \in node'.arp
                 PROVE  \E b \in Up' : adj'[b].nbr_intf_ip = ip
    BY DEF NoStaleMapping
  <2>2. ip \in node.arp /\ ip \notin ips
    BY <1>6, <2>1
  <2>3. PICK b \in Up : adj[b].nbr_intf_ip = ip
    BY <2>2 DEF NoStaleMapping
  <2>4. b \notin S
    BY <2>2, <2>3 DEF ips
  <2>5. b \in Up' /\ adj'[b] = adj[b]
    BY <1>1, <1>8, <2>4 DEF Up
  <2>6. QED
    BY <2>3, <2>5
<1>10. LspNotStale'
  <2>1. CASE up # {}
    <3>1. node'.lsp_pkt_gen_task
      BY <1>1, <1>5, <2>1, ScheduleFacts
    <3>2. QED
      BY <3>1 DEF LspNotStale
  <2>2. CASE up = {}
    <3>1. /\ node'.lsp_pkt_gen_task = node.lsp_pkt_gen_task
          /\ node'.reconciliation_in_progress = node.reconciliation_in_progress
      BY <1>1, <1>5, <2>2
    <3>2. \A b \in Adjs :
             /\ b \in S => adj'[b].adj_state # "UP" /\ adj[b].adj_state # "UP"
             /\ b \notin S => adj'[b] = adj[b]
      BY <1>1, <2>2 DEF Up, Freed
    <3>3. \A b \in Adjs :
             /\ adj'[b].adj_state = "UP" <=> adj[b].adj_state = "UP"
             /\ adj[b].adj_state = "UP" =>
                  /\ adj'[b].intf = adj[b].intf
                  /\ adj'[b].nbr_rtr_id = adj[b].nbr_rtr_id
                  /\ adj'[b].nbr_intf_ip = adj[b].nbr_intf_ip
                  /\ adj'[b].remote_if_index = adj[b].remote_if_index
      BY <3>2
    <3>4. Content' = Content
      BY <3>3, ContentUnchanged
    <3>5. QED
      BY <3>1, <3>4 DEF LspNotStale
  <2>3. QED
    BY <2>1, <2>2
<1>11. QED
  BY <1>6, <1>7, <1>9, <1>10

\* A step that changes neither the adjacencies nor the LSP, and takes nothing
\* from the node that they rely on.
LEMMA AdjUntouched ==
  ASSUME AdjInv, NoStaleMapping, LspNotStale, UNCHANGED <<adj, lsp>>,
         node'.arp \subseteq node.arp,
         \/ node'.lsp_pkt_gen_task
         \/ /\ node'.lsp_pkt_gen_task = node.lsp_pkt_gen_task
            /\ node'.reconciliation_in_progress = node.reconciliation_in_progress
  PROVE  AdjInv' /\ NoStaleMapping' /\ LspNotStale'
<1>1. AdjInv'
  BY DEF AdjInv, TimersMatchState, Live
<1>2. Up' = Up /\ Content' = Content
  BY DEF Up, Content
<1>3. NoStaleMapping'
  BY <1>2 DEF NoStaleMapping
<1>4. LspNotStale'
  BY <1>2 DEF LspNotStale
<1>5. QED
  BY <1>1, <1>3, <1>4

\* The wheel queues a job for a timer of adjacency a.
LEMMA FireKeeps ==
  ASSUME Inv, NEW a \in Live, UNCHANGED <<node, lsp>>,
         \/ /\ adj[a].expiry_timer = "running"
            /\ adj' = [adj EXCEPT ![a].expiry_timer = "expired"]
         \/ /\ adj[a].delete_timer = "running"
            /\ adj' = [adj EXCEPT ![a].delete_timer = "expired"]
  PROVE  AdjInv' /\ NoStaleMapping' /\ LspNotStale'
<1>1. AdjInv /\ a \in Adjs /\ adj[a] \in AdjFields
  BY LiveFields DEF Inv
<1>2. /\ \A b \in Adjs \ {a} : adj'[b] = adj[b]
      /\ adj'[a] \in AdjFields
      /\ adj'[a].adj_state = adj[a].adj_state
      /\ adj'[a].intf = adj[a].intf
      /\ adj'[a].nbr_rtr_id = adj[a].nbr_rtr_id
      /\ adj'[a].nbr_intf_ip = adj[a].nbr_intf_ip
      /\ adj'[a].remote_if_index = adj[a].remote_if_index
      /\ adj'[a].expiry_timer = "NULL" <=> adj[a].expiry_timer = "NULL"
      /\ adj'[a].delete_timer = "NULL" <=> adj[a].delete_timer = "NULL"
      /\ adj' \in [Adjs -> AdjFields \union {Freed}]
  BY <1>1 DEF AdjInv, AdjFields, Timer
<1>3. AdjInv'
  BY <1>1, <1>2 DEF AdjInv, TimersMatchState, Live
<1>4. Up' = Up /\ Content' = Content
  BY <1>2, ContentUnchanged
<1>5. \A b \in Up : adj'[b].nbr_intf_ip = adj[b].nbr_intf_ip
  BY <1>2 DEF Up
<1>6. NoStaleMapping' /\ LspNotStale'
  BY <1>4, <1>5 DEF Inv, NoStaleMapping, LspNotStale
<1>7. QED
  BY <1>3, <1>6

-----------------------------------------------------------------------------
(* Hellos keep the invariant. *)

\* A neighbour's first hello: a new adjacency, DOWN, is neither mapped nor in the LSP.
LEMMA FirstHelloKeeps ==
  ASSUME Inv, NEW i \in Intfs, NEW nbr \in Nbrs, NEW ip \in Addrs, NEW ifindex \in IfIndexes,
         FirstHello(i, nbr, ip, ifindex)
  PROVE  Inv'
<1> DEFINE new == [adj_state |-> "DOWN", intf |-> i, nbr_rtr_id |-> nbr,
                   nbr_intf_ip |-> ip, remote_if_index |-> ifindex,
                   expiry_timer |-> "NULL", delete_timer |-> "running"]
<1>1. PICK a \in Adjs \ Live : adj' = [adj EXCEPT ![a] = new]
  BY DEF FirstHello
<1>2. /\ AdjInv
      /\ new \in AdjFields
      /\ adj[a].adj_state # "UP"
  BY DEF Inv, AdjFields, Timer, Live
<1>3. /\ adj'[a] = new
      /\ \A b \in Adjs \ {a} : adj'[b] = adj[b]
      /\ adj' \in [Adjs -> AdjFields \union {Freed}]
  BY <1>1, <1>2 DEF AdjInv
<1>4. AdjInv'
  BY <1>2, <1>3 DEF AdjInv, TimersMatchState, Live
<1>5. \A b \in Adjs :
         /\ adj'[b].adj_state = "UP" <=> adj[b].adj_state = "UP"
         /\ adj[b].adj_state = "UP" =>
              /\ adj'[b].intf = adj[b].intf
              /\ adj'[b].nbr_rtr_id = adj[b].nbr_rtr_id
              /\ adj'[b].nbr_intf_ip = adj[b].nbr_intf_ip
              /\ adj'[b].remote_if_index = adj[b].remote_if_index
  BY <1>2, <1>3
<1>6. Up' = Up /\ Content' = Content
  BY <1>5, ContentUnchanged
<1>7. \A b \in Up : adj'[b].nbr_intf_ip = adj[b].nbr_intf_ip
  BY <1>5 DEF Up
<1>8. NoStaleMapping' /\ LspNotStale'
  BY <1>6, <1>7 DEF Inv, NoStaleMapping, LspNotStale, FirstHello
<1>9. GoodNode(node)' /\ IfInv' /\ MiscInv'
  BY DEF Inv, GoodNode, IfInv, GoodIntf, Qualifies, MiscInv, FirstHello
<1>10. QED
  BY <1>4, <1>8, <1>9 DEF Inv

\* A hello of a known neighbour: a change of state, after the old address is
\* unmapped or an LSP asked for where the hello brings new attributes.
LEMMA HelloKeeps ==
  ASSUME Inv, NEW i \in Intfs, NEW nbr \in Nbrs, NEW ip \in Addrs, NEW ifindex \in IfIndexes,
         Hello(i, nbr, ip, ifindex)
  PROVE  Inv'
<1>1. PICK a \in On(i) :
        LET old == adj[a]
            new == [old EXCEPT !.nbr_intf_ip = ip, !.remote_if_index = ifindex]
        IN /\ old.nbr_rtr_id = nbr
           /\ IF ip # old.nbr_intf_ip
              THEN ChangeState(a, new, unmap_backup(node, old), "DOWN")
              ELSE ChangeState(a, new,
                     attributes_changed(node, ifindex # old.remote_if_index),
                     next_state(old))
  BY DEF Hello
<1> DEFINE old == adj[a]
           new == [old EXCEPT !.nbr_intf_ip = ip, !.remote_if_index = ifindex]
<1>2. AdjInv /\ GoodNode(node) /\ UNCHANGED lsp
  BY DEF Inv, Hello
<1>3. a \in Live /\ a \in Adjs /\ old \in AdjFields
  BY <1>2, LiveFields DEF On
<1>4. /\ new \in AdjFields
      /\ new.adj_state = old.adj_state
      /\ new.intf = old.intf
      /\ new.nbr_rtr_id = old.nbr_rtr_id
      /\ new.nbr_intf_ip = ip
      /\ new.remote_if_index = ifindex
      /\ new.expiry_timer = old.expiry_timer
      /\ new.delete_timer = old.delete_timer
  BY <1>3 DEF AdjFields
<1>5. IF old.adj_state = "DOWN"
      THEN old.expiry_timer = "NULL" /\ old.delete_timer # "NULL"
      ELSE old.expiry_timer # "NULL" /\ old.delete_timer = "NULL"
  BY <1>2, <1>3 DEF AdjInv, TimersMatchState
<1>6. node.arp \subseteq {adj[b].nbr_intf_ip : b \in Up}
  BY DEF Inv, NoStaleMapping
<1>7. node.lsp_pkt_gen_task \/ node.reconciliation_in_progress \/ lsp = Content
  BY DEF Inv, LspNotStale
<1>8. old.adj_state = "UP" <=> a \in Up
  BY <1>3 DEF Up
<1> HIDE DEF new
<1>9. CASE ip # old.nbr_intf_ip
  <2> DEFINE n == unmap_backup(node, old)
  <2>1. ChangeState(a, new, n, "DOWN")
    BY <1>1, <1>9 DEF new
  <2>2. /\ GoodNode(n)
        /\ n.arp \subseteq node.arp \ {old.nbr_intf_ip}
        /\ n.lsp_pkt_gen_task = node.lsp_pkt_gen_task
        /\ n.reconciliation_in_progress = node.reconciliation_in_progress
    <3>1. {old.nbr_intf_ip} \in SUBSET Addrs
      BY <1>3 DEF AdjFields
    <3>2. QED
      BY <1>2, <3>1, MapFacts DEF unmap_backup
  <2> HIDE DEF n
  <2>3. \A p \in n.arp : \E b \in Up \ {a} : adj[b].nbr_intf_ip = p
    BY <1>6, <2>2
  <2>4. Changeable(a, new, n, "DOWN")
    BY <1>4, <1>5, <1>7, <2>2, <2>3 DEF Changeable
  <2>5. QED
    BY <1>2, <1>3, <2>1, <2>4, ChangeKeeps
       DEF Inv, Hello, IfInv, GoodIntf, Qualifies, MiscInv
<1>10. CASE ip = old.nbr_intf_ip
  <2> DEFINE n == attributes_changed(node, ifindex # old.remote_if_index)
  <2>1. ChangeState(a, new, n, next_state(old))
    BY <1>1, <1>10 DEF new
  <2>2. /\ GoodNode(n)
        /\ n.arp = node.arp
        /\ n.lsp_pkt_gen_task \/ (n = node /\ ifindex = old.remote_if_index)
    BY <1>2, ScheduleFacts DEF attributes_changed
  <2> HIDE DEF n
  <2>3. \A p \in n.arp : \/ (\E b \in Up \ {a} : adj[b].nbr_intf_ip = p)
                         \/ (new.adj_state = "UP" /\ new.nbr_intf_ip = p)
    BY <1>4, <1>6, <1>8, <1>10, <2>2
  <2>4. IF old.adj_state = "DOWN" THEN next_state(old) = "INIT" ELSE next_state(old) = "UP"
    BY DEF next_state
  <2>5. Changeable(a, new, n, next_state(old))
    BY <1>4, <1>5, <1>7, <1>10, <2>2, <2>3, <2>4 DEF Changeable
  <2>6. QED
    BY <1>2, <1>3, <2>1, <2>5, ChangeKeeps
       DEF Inv, Hello, IfInv, GoodIntf, Qualifies, MiscInv
<1>11. QED
  BY <1>9, <1>10

\* A hello from a foreign subnet brings a live adjacency down.
LEMMA ForeignHelloKeeps ==
  ASSUME Inv, NEW i \in Intfs, ForeignHello(i)
  PROVE  Inv'
<1>1. PICK a \in On(i) : ChangeState(a, adj[a], node, "DOWN")
  BY DEF ForeignHello
<1>2. AdjInv /\ GoodNode(node) /\ UNCHANGED lsp
  BY DEF Inv, ForeignHello
<1>3. a \in Live /\ a \in Adjs /\ adj[a] \in AdjFields
  BY <1>2, LiveFields DEF On
<1>4. \A p \in node.arp : \/ (\E b \in Up \ {a} : adj[b].nbr_intf_ip = p)
                          \/ (adj[a].adj_state = "UP" /\ adj[a].nbr_intf_ip = p)
  BY DEF Inv, NoStaleMapping, Up
<1>5. Changeable(a, adj[a], node, "DOWN")
  BY <1>2, <1>3, <1>4 DEF Inv, AdjInv, TimersMatchState, LspNotStale, Changeable
<1>6. QED
  BY <1>2, <1>3, <1>1, <1>5, ChangeKeeps
     DEF Inv, ForeignHello, IfInv, GoodIntf, Qualifies, MiscInv

-----------------------------------------------------------------------------
(* Timers, jobs and the LSP keep the invariant. *)

\* An expiry or delete timer fires.
LEMMA FiresKeep ==
  ASSUME Inv, NEW a \in Adjs, ExpiryFires(a) \/ DeleteFires(a)
  PROVE  Inv'
<1>1. a \in Live /\ UNCHANGED <<node, lsp>>
  BY DEF ExpiryFires, DeleteFires
<1>2. AdjInv' /\ NoStaleMapping' /\ LspNotStale'
  BY <1>1, FireKeeps DEF ExpiryFires, DeleteFires
<1>3. GoodNode(node)' /\ IfInv'
  BY DEF Inv, GoodNode, IfInv, GoodIntf, Qualifies, ExpiryFires, DeleteFires
<1>4. MiscInv'
  <2>1. [kind |-> "expiry", on |-> a] \in Job /\ [kind |-> "delete", on |-> a] \in Job
    BY DEF Job
  <2>2. jobs \in Seq(Job)
    BY DEF Inv, MiscInv
  <2>3. jobs' \in Seq(Job)
    BY <2>1, <2>2 DEF ExpiryFires, DeleteFires
  <2>4. QED
    BY <2>3 DEF Inv, MiscInv, ExpiryFires, DeleteFires
<1>5. QED
  BY <1>2, <1>3, <1>4 DEF Inv

\* The reconciliation timer fires.
LEMMA ReconciliationFiresKeeps ==
  ASSUME Inv, ReconciliationFires
  PROVE  Inv'
<1>1. GoodNode(node)' /\ node'.arp = node.arp
      /\ node'.lsp_pkt_gen_task = node.lsp_pkt_gen_task
      /\ node'.reconciliation_in_progress = node.reconciliation_in_progress
  BY DEF Inv, GoodNode, NodeFields, Timer, ReconciliationFires
<1>2. AdjInv' /\ NoStaleMapping' /\ LspNotStale'
  BY <1>1, AdjUntouched DEF Inv, ReconciliationFires
<1>3. IfInv'
  BY DEF Inv, IfInv, GoodIntf, Qualifies, ReconciliationFires
<1>4. MiscInv'
  <2>1. [kind |-> "reconciliation"] \in Job /\ jobs \in Seq(Job)
    BY DEF Job, Inv, MiscInv
  <2>2. jobs' \in Seq(Job)
    BY <2>1 DEF ReconciliationFires
  <2>3. QED
    BY <2>2 DEF Inv, MiscInv, ReconciliationFires
<1>5. QED
  BY <1>1, <1>2, <1>3, <1>4 DEF Inv

\* Taking a job off the queue.
LEMMA TailOfJobs ==
  ASSUME Inv, NEW kind, NextJob(kind), UNCHANGED <<lsp, silent>>,
         crashed' \in {"no", "null", "freed"}
  PROVE  MiscInv'
<1>1. jobs \in Seq(Job) /\ jobs # <<>>
  BY DEF Inv, MiscInv, NextJob
<1>2. Tail(jobs) \in Seq(Job)
  BY <1>1
<1>3. QED
  BY <1>2 DEF Inv, MiscInv, NextJob

\* The job of an expiry timer, early or late: it either ends the process or
\* finds an adjacency that is not DOWN.
LEMMA ExpiryJobKeeps ==
  ASSUME Inv, ExpiryJob
  PROVE  Inv'
<1> DEFINE a == Head(jobs).on
<1>1. NextJob("expiry") /\ UNCHANGED <<ifs, lsp, silent>>
  BY DEF ExpiryJob
<1>2. IfInv'
  BY <1>1 DEF Inv, IfInv, GoodIntf, Qualifies
<1>3. CASE UNCHANGED <<adj, node>> /\ crashed' \in {"null", "freed"}
  <2>1. GoodNode(node)' /\ node'.arp \subseteq node.arp
    BY <1>3 DEF Inv, GoodNode
  <2>2. AdjInv' /\ NoStaleMapping' /\ LspNotStale'
    BY <1>1, <1>3, <2>1, AdjUntouched DEF Inv
  <2>3. QED
    BY <1>1, <1>2, <1>3, <2>1, <2>2, TailOfJobs DEF Inv
<1>4. CASE /\ a \in Live
           /\ adj[a].expiry_timer # "NULL"
           /\ ChangeState(a, [adj[a] EXCEPT !.expiry_timer = "NULL"], node, "DOWN")
  <2> DEFINE r == [adj[a] EXCEPT !.expiry_timer = "NULL"]
  <2>1. AdjInv /\ GoodNode(node) /\ a \in Adjs /\ adj[a] \in AdjFields
    BY <1>4, LiveFields DEF Inv
  <2>2. adj[a].adj_state # "DOWN" /\ adj[a].delete_timer = "NULL"
    BY <1>4, <2>1 DEF AdjInv, TimersMatchState
  <2>3. /\ r \in AdjFields
        /\ r.adj_state = adj[a].adj_state
        /\ r.nbr_intf_ip = adj[a].nbr_intf_ip
        /\ r.delete_timer = "NULL"
    BY <2>1, <2>2 DEF AdjFields, Timer
  <2>4. ChangeState(a, r, node, "DOWN")
    BY <1>4
  <2> HIDE DEF r
  <2>5. \A p \in node.arp : \/ (\E b \in Up \ {a} : adj[b].nbr_intf_ip = p)
                           \/ (r.adj_state = "UP" /\ r.nbr_intf_ip = p)
    BY <2>3 DEF Inv, NoStaleMapping, Up
  <2>6. Changeable(a, r, node, "DOWN")
    BY <2>1, <2>2, <2>3, <2>5 DEF Inv, LspNotStale, Changeable
  <2>7. /\ AdjInv' /\ GoodNode(node)' /\ NoStaleMapping' /\ LspNotStale'
        /\ crashed' = "no"
    BY <1>1, <1>4, <2>1, <2>4, <2>6, ChangeKeeps
  <2>8. QED
    BY <1>1, <1>2, <2>7, TailOfJobs DEF Inv
<1>5. QED
  BY <1>3, <1>4 DEF ExpiryJob, UseAfterFree

\* The job of a delete timer, whatever the state of the adjacency by then.
LEMMA DeleteJobKeeps ==
  ASSUME Inv, DeleteJob
  PROVE  Inv'
<1> DEFINE a == Head(jobs).on
<1>1. NextJob("delete") /\ UNCHANGED <<ifs, lsp, silent>>
  BY DEF DeleteJob
<1>2. IfInv'
  BY <1>1 DEF Inv, IfInv, GoodIntf, Qualifies
<1>3. CASE UseAfterFree
  <2>1. GoodNode(node)' /\ node'.arp \subseteq node.arp
    BY <1>3 DEF Inv, GoodNode, UseAfterFree
  <2>2. AdjInv' /\ NoStaleMapping' /\ LspNotStale'
    BY <1>1, <1>3, <2>1, AdjUntouched DEF Inv, UseAfterFree
  <2>3. QED
    BY <1>1, <1>2, <1>3, <2>1, <2>2, TailOfJobs DEF Inv, UseAfterFree
<1>4. CASE a \in Live /\ DeleteAdjacencies({a}) /\ UNCHANGED crashed
  <2>1. {a} \in SUBSET Live
    BY <1>4
  <2>2. AdjInv' /\ GoodNode(node)' /\ NoStaleMapping' /\ LspNotStale'
    BY <1>1, <1>4, <2>1, DeleteKeeps DEF Inv
  <2>3. crashed' \in {"no", "null", "freed"}
    BY <1>4 DEF Inv, MiscInv
  <2>4. QED
    BY <1>1, <1>2, <2>2, <2>3, TailOfJobs DEF Inv
<1>5. QED
  BY <1>3, <1>4 DEF DeleteJob

\* The end of the reconciliation phase asks for the LSP that was held back.
LEMMA ReconciliationJobKeeps ==
  ASSUME Inv, ReconciliationJob
  PROVE  Inv'
<1>1. /\ NextJob("reconciliation")
      /\ node' = exit_reconciliation(node)
      /\ UNCHANGED <<adj, ifs, lsp, silent, crashed>>
  BY DEF ReconciliationJob
<1>2. /\ GoodNode(node)'
      /\ node'.arp = node.arp
      /\ node'.lsp_pkt_gen_task \/ node' = node
  BY <1>1, ReconciliationFacts DEF Inv, GoodNode
<1>3. AdjInv' /\ NoStaleMapping' /\ LspNotStale'
  BY <1>1, <1>2, AdjUntouched DEF Inv
<1>4. IfInv'
  BY <1>1 DEF Inv, IfInv, GoodIntf, Qualifies
<1>5. MiscInv'
  BY <1>1, TailOfJobs DEF Inv, MiscInv
<1>6. QED
  BY <1>2, <1>3, <1>4, <1>5 DEF Inv

\* The periodic timer and the LSP generation job.
LEMMA LspKeeps ==
  ASSUME Inv, PeriodicLsp \/ GenerateLsp
  PROVE  Inv'
<1>1. CASE PeriodicLsp
  <2>1. /\ GoodNode(node)' /\ node'.arp = node.arp /\ node'.lsp_pkt_gen_task
    BY <1>1, ScheduleFacts DEF Inv, PeriodicLsp, GoodNode
  <2>2. AdjInv' /\ NoStaleMapping' /\ LspNotStale'
    BY <1>1, <2>1, AdjUntouched DEF Inv, PeriodicLsp
  <2>3. QED
    BY <1>1, <2>1, <2>2 DEF Inv, IfInv, GoodIntf, Qualifies, MiscInv, PeriodicLsp
<1>2. CASE GenerateLsp
  <2>1. GoodNode(node)' /\ node'.arp = node.arp
    BY <1>2 DEF Inv, GoodNode, NodeFields, GenerateLsp
  <2>2. AdjInv'
    BY <1>2 DEF Inv, AdjInv, TimersMatchState, Live, GenerateLsp
  <2>3. Up' = Up /\ Content' = Content
    BY <1>2 DEF Up, Content, GenerateLsp
  <2>4. NoStaleMapping' /\ LspNotStale'
    BY <1>2, <2>1, <2>3 DEF Inv, NoStaleMapping, LspNotStale, GenerateLsp
  <2>5. Content \subseteq Intfs \X Nbrs \X Addrs \X IfIndexes
    <3>1. \A b \in Up : adj[b] \in AdjFields
      BY LiveFields DEF Inv
    <3>2. \A b \in Up : <<adj[b].intf, adj[b].nbr_rtr_id, adj[b].nbr_intf_ip, adj[b].remote_if_index>>
                       \in Intfs \X Nbrs \X Addrs \X IfIndexes
      BY <3>1 DEF AdjFields
    <3>3. QED
      BY <3>2 DEF Content
  <2>6. QED
    BY <1>2, <2>1, <2>2, <2>4, <2>5
       DEF Inv, IfInv, GoodIntf, Qualifies, MiscInv, GenerateLsp
<1>3. QED
  BY <1>1, <1>2

-----------------------------------------------------------------------------
(* Commands keep the invariant. *)

\* isis_start_sending_hellos behind its qualification test: no hello timer may
\* run in the interface f it is given, which an interface without a timer of a
\* correct type satisfies.
LEMMA StartKeeps ==
  ASSUME IfInv, NEW i \in Intfs, NEW f \in IntfFields, ~f.hello_xmit_timer,
         StartIfQualified(i, f)
  PROVE  IfInv' /\ crashed' \in {"no", crashed}
<1> DEFINE g == [f EXCEPT !.hello_xmit_timer = TRUE]
<1>1. CASE Qualifies(f)
  <2>1. ifs' = [ifs EXCEPT ![i] = g] /\ crashed' = "no"
    BY <1>1 DEF StartIfQualified, StartHellos
  <2>2. GoodIntf(g) /\ g \in IntfFields
    BY <1>1 DEF GoodIntf, Qualifies, IntfFields
  <2> HIDE DEF g
  <2>3. QED
    BY <2>1, <2>2 DEF IfInv
<1>2. CASE ~Qualifies(f)
  <2>1. ifs' = [ifs EXCEPT ![i] = f] /\ crashed' = crashed
    BY <1>2 DEF StartIfQualified
  <2>2. GoodIntf(f)
    BY <1>2 DEF GoodIntf
  <2>3. QED
    BY <2>1, <2>2 DEF IfInv
<1>3. QED
  BY <1>1, <1>2

\* An interface that does not qualify, has no hello timer or keeps what it had.
LEMMA SetIntf ==
  ASSUME IfInv, NEW i \in Intfs, NEW f, GoodIntf(f), ifs' = [ifs EXCEPT ![i] = f]
  PROVE  IfInv'
  BY DEF IfInv, GoodIntf

\* A command that touches the interfaces alone.
LEMMA OnlyIntfs ==
  ASSUME Inv, IfInv', crashed' \in {"no", crashed}, UNCHANGED <<adj, node, lsp, jobs, silent>>
  PROVE  Inv'
<1>1. GoodNode(node)' /\ AdjInv' /\ NoStaleMapping' /\ LspNotStale'
  BY AdjUntouched DEF Inv, GoodNode
<1>2. MiscInv'
  BY DEF Inv, MiscInv
<1>3. QED
  BY <1>1, <1>2 DEF Inv

\* A command that takes an interface and all its adjacencies down.
LEMMA IntfDeleted ==
  ASSUME Inv, NEW i \in Intfs, IfInv', DeleteAdjacencies(On(i)),
         UNCHANGED <<lsp, jobs, silent, crashed>>
  PROVE  Inv'
<1>1. On(i) \in SUBSET Live
  BY DEF On
<1>2. AdjInv' /\ GoodNode(node)' /\ NoStaleMapping' /\ LspNotStale'
  BY <1>1, DeleteKeeps DEF Inv
<1>3. MiscInv'
  BY DEF Inv, MiscInv
<1>4. QED
  BY <1>2, <1>3 DEF Inv

\* Enabling IS-IS on an interface, bringing it up and giving it an address: the
\* commands after which an interface may qualify.
LEMMA StartCommandsKeep ==
  ASSUME Inv, NEW i \in Intfs, EnableIntf(i) \/ IntfUp(i) \/ SetIp(i)
  PROVE  Inv'
<1>1. IfInv /\ ifs[i] \in IntfFields /\ GoodIntf(ifs[i])
  BY DEF Inv, IfInv
<1>2. UNCHANGED <<adj, node, lsp, jobs, silent>>
  BY DEF EnableIntf, IntfUp, SetIp
<1>3. CASE EnableIntf(i)
  <2> DEFINE f == [ifs[i] EXCEPT !.enabled = TRUE]
  <2>1. f \in IntfFields /\ (f.hello_xmit_timer => GoodIntf(f))
    BY <1>1 DEF IntfFields, GoodIntf, Qualifies
  <2>2. IF f.hello_xmit_timer THEN ifs' = [ifs EXCEPT ![i] = f] /\ UNCHANGED crashed
                              ELSE StartIfQualified(i, f)
    BY <1>3 DEF EnableIntf
  <2> HIDE DEF f
  <2>3. IfInv' /\ crashed' \in {"no", crashed}
    BY <1>1, <2>1, <2>2, SetIntf, StartKeeps
  <2>4. QED
    BY <1>2, <2>3, OnlyIntfs
<1>4. CASE IntfUp(i)
  <2> DEFINE f == [ifs[i] EXCEPT !.is_up = TRUE]
  <2>1. f \in IntfFields /\ ~f.hello_xmit_timer /\ StartIfQualified(i, f)
    BY <1>1, <1>4 DEF IntfFields, GoodIntf, IntfUp
  <2> HIDE DEF f
  <2>2. QED
    BY <1>1, <1>2, <2>1, StartKeeps, OnlyIntfs
<1>5. CASE SetIp(i)
  <2> DEFINE f == [ifs[i] EXCEPT !.mode = "L3"]
  <2>1. f \in IntfFields /\ ~f.hello_xmit_timer /\ StartIfQualified(i, f)
    BY <1>1, <1>5 DEF IntfFields, GoodIntf, SetIp
  <2> HIDE DEF f
  <2>2. QED
    BY <1>1, <1>2, <2>1, StartKeeps, OnlyIntfs
<1>6. QED
  BY <1>3, <1>4, <1>5

\* Disabling IS-IS on an interface, bringing it down and taking its address.
LEMMA StopCommandsKeep ==
  ASSUME Inv, NEW i \in Intfs, DisableIntf(i) \/ IntfDown(i) \/ UnsetIp(i)
  PROVE  Inv'
<1>1. IfInv /\ ifs[i] \in IntfFields /\ GoodIntf(ifs[i])
  BY DEF Inv, IfInv
<1>2. UNCHANGED <<lsp, jobs, silent, crashed>>
  BY DEF DisableIntf, IntfDown, UnsetIp
<1>3. ASSUME NEW f, GoodIntf(f), ifs' = [ifs EXCEPT ![i] = f],
             DeleteAdjacencies(On(i)) \/ UNCHANGED <<adj, node>>
      PROVE  Inv'
  BY <1>1, <1>2, <1>3, SetIntf, OnlyIntfs, IntfDeleted
<1>4. CASE DisableIntf(i)
  <2> DEFINE f == no_hellos([ifs[i] EXCEPT !.enabled = FALSE])
  <2>1. GoodIntf(f)
    BY <1>1 DEF GoodIntf, Qualifies, IntfFields, no_hellos
  <2>2. ifs' = [ifs EXCEPT ![i] = f] /\ DeleteAdjacencies(On(i))
    BY <1>4 DEF DisableIntf
  <2> HIDE DEF f
  <2>3. QED
    BY <1>3, <2>1, <2>2
<1>5. CASE IntfDown(i)
  <2> DEFINE f == [ifs[i] EXCEPT !.is_up = FALSE]
  <2>1. GoodIntf(no_hellos(f)) /\ (~f.enabled => GoodIntf(f))
    BY <1>1 DEF GoodIntf, Qualifies, IntfFields, no_hellos
  <2>2. IF f.enabled THEN /\ ifs' = [ifs EXCEPT ![i] = no_hellos(f)]
                          /\ DeleteAdjacencies(On(i))
                     ELSE /\ ifs' = [ifs EXCEPT ![i] = f]
                          /\ UNCHANGED <<adj, node>>
    BY <1>5 DEF IntfDown
  <2> HIDE DEF f
  <2>3. QED
    BY <1>3, <2>1, <2>2
<1>6. CASE UnsetIp(i)
  <2> DEFINE f == [ifs[i] EXCEPT !.mode = "none"]
  <2>1. GoodIntf(no_hellos(f)) /\ (~f.enabled => GoodIntf(f))
    BY <1>1 DEF GoodIntf, Qualifies, IntfFields, no_hellos
  <2>2. IF f.enabled THEN /\ ifs' = [ifs EXCEPT ![i] = no_hellos(f)]
                          /\ DeleteAdjacencies(On(i))
                     ELSE /\ ifs' = [ifs EXCEPT ![i] = f]
                          /\ UNCHANGED <<adj, node>>
    BY <1>6 DEF UnsetIp
  <2> HIDE DEF f
  <2>3. QED
    BY <1>3, <2>1, <2>2
<1>7. QED
  BY <1>4, <1>5, <1>6

\* A changed address, and the L2 mode that nobody is told of.
LEMMA ModeCommandsKeep ==
  ASSUME Inv, NEW i \in Intfs, ChangeIp(i) \/ SetL2Mode(i)
  PROVE  Inv'
<1>1. IfInv /\ ifs[i] \in IntfFields /\ GoodIntf(ifs[i])
  BY DEF Inv, IfInv
<1>2. CASE ChangeIp(i)
  <2> DEFINE f == no_hellos(ifs[i])
  <2>1. f \in IntfFields /\ ~f.hello_xmit_timer /\ StartIfQualified(i, f)
    BY <1>1, <1>2 DEF IntfFields, no_hellos, ChangeIp
  <2> HIDE DEF f
  <2>2. IfInv' /\ crashed' \in {"no", crashed}
    BY <1>1, <2>1, StartKeeps
  <2>3. GoodNode(node)' /\ node'.arp = node.arp /\ node'.lsp_pkt_gen_task
    BY <1>2, ScheduleFacts DEF Inv, ChangeIp, GoodNode
  <2>4. AdjInv' /\ NoStaleMapping' /\ LspNotStale'
    BY <1>2, <2>3, AdjUntouched DEF Inv, ChangeIp
  <2>5. MiscInv'
    BY <1>2, <2>2 DEF Inv, MiscInv, ChangeIp
  <2>6. QED
    BY <2>2, <2>3, <2>4, <2>5 DEF Inv
<1>3. CASE SetL2Mode(i)
  <2> DEFINE f == [ifs[i] EXCEPT !.mode = "L2"]
  <2>1. GoodIntf(f)
    BY <1>1 DEF GoodIntf, Qualifies, IntfFields
  <2>2. ifs' = [ifs EXCEPT ![i] = f]
    BY <1>3 DEF SetL2Mode
  <2> HIDE DEF f
  <2>3. QED
    BY <1>1, <1>3, <2>1, <2>2, SetIntf, OnlyIntfs DEF SetL2Mode
<1>4. QED
  BY <1>2, <1>3

\* Turning the layer-2 mapping on maps what is up; off, it empties the table.
LEMMA MapCommandsKeep ==
  ASSUME Inv, ConfigLayer2Map \/ UnconfigLayer2Map
  PROVE  Inv'
<1> DEFINE ips == {adj[a].nbr_intf_ip : a \in Up}
<1>1. ips \in SUBSET Addrs
  BY LiveFields DEF Inv, AdjFields
<1>2. node \in NodeFields /\ node.arp \subseteq ips
  BY DEF Inv, GoodNode, NoStaleMapping
<1>3. UNCHANGED <<adj, ifs, lsp, jobs, silent, crashed>>
  BY DEF ConfigLayer2Map, UnconfigLayer2Map
<1>4. /\ GoodNode(node)'
      /\ node'.arp \subseteq ips
      /\ node'.lsp_pkt_gen_task = node.lsp_pkt_gen_task
      /\ node'.reconciliation_in_progress = node.reconciliation_in_progress
  <2>1. CASE ConfigLayer2Map
    <3>1. node' = [node EXCEPT !.layer2_mapping = TRUE, !.arp = @ \union ips]
      BY <2>1 DEF ConfigLayer2Map
    <3> HIDE DEF ips
    <3>2. QED
      BY <1>1, <1>2, <3>1 DEF Inv, GoodNode, NodeFields
  <2>2. CASE UnconfigLayer2Map
    <3>1. node' = [map_down(node, ips) EXCEPT !.layer2_mapping = FALSE] /\ node.layer2_mapping
      BY <2>2 DEF UnconfigLayer2Map
    <3> HIDE DEF ips
    <3>2. node' = [node EXCEPT !.layer2_mapping = FALSE, !.arp = {}]
      BY <1>2, <3>1 DEF map_down, NodeFields
    <3>3. QED
      BY <1>1, <1>2, <3>2 DEF Inv, GoodNode, NodeFields
  <2>3. QED
    BY <2>1, <2>2
<1>5. AdjInv'
  BY <1>3 DEF Inv, AdjInv, TimersMatchState, Live
<1>6. Up' = Up /\ Content' = Content
  BY <1>3 DEF Up, Content
<1>7. NoStaleMapping' /\ LspNotStale'
  BY <1>3, <1>4, <1>6 DEF Inv, NoStaleMapping, LspNotStale
<1>8. IfInv' /\ MiscInv'
  BY <1>3 DEF Inv, IfInv, GoodIntf, Qualifies, MiscInv
<1>9. QED
  BY <1>4, <1>5, <1>7, <1>8 DEF Inv

-----------------------------------------------------------------------------
(* The invariant, and the properties it implies. *)

\* A router without adjacencies satisfies it.
LEMMA InitInv == Init => Inv
<1> SUFFICES ASSUME Init PROVE Inv
  OBVIOUS
<1>1. Live = {} /\ Up = {}
  BY DEF Init, Live, Up, Freed
<1>2. AdjInv /\ NoStaleMapping /\ LspNotStale
  BY <1>1 DEF Init, AdjInv, TimersMatchState, NoStaleMapping, LspNotStale
<1>3. GoodNode(node) /\ IfInv
  BY AdjacencyAssumption
     DEF Init, GoodNode, NodeFields, Timer, IfInv, GoodIntf, IntfFields, Qualifies
<1>4. MiscInv
  BY DEF Init, MiscInv
<1>5. QED
  BY <1>2, <1>3, <1>4 DEF Inv

\* Every step of the router keeps it.
LEMMA NextInv == Inv /\ [Next]_vars => Inv'
<1> SUFFICES ASSUME Inv, [Next]_vars PROVE Inv'
  OBVIOUS
<1>1. ASSUME NEW i \in Intfs, NEW nbr \in Nbrs, NEW ip \in Addrs, NEW ifindex \in IfIndexes,
             FirstHello(i, nbr, ip, ifindex) \/ Hello(i, nbr, ip, ifindex)
      PROVE  Inv'
  BY <1>1, FirstHelloKeeps, HelloKeeps
<1>2. ASSUME NEW i \in Intfs, ForeignHello(i)
      PROVE  Inv'
  BY <1>2, ForeignHelloKeeps
<1>3. ASSUME NEW nbr \in Nbrs, FallSilent(nbr)
      PROVE  Inv'
  BY <1>3 DEF FallSilent, Inv, AdjInv, TimersMatchState, Live, GoodNode, IfInv, GoodIntf,
              Qualifies, NoStaleMapping, LspNotStale, Content, Up, MiscInv
<1>4. ASSUME NEW a \in Adjs, ExpiryFires(a) \/ DeleteFires(a)
      PROVE  Inv'
  BY <1>4, FiresKeep
<1>5. CASE ReconciliationFires
  BY <1>5, ReconciliationFiresKeeps
<1>6. CASE ExpiryJob \/ DeleteJob \/ ReconciliationJob
  BY <1>6, ExpiryJobKeeps, DeleteJobKeeps, ReconciliationJobKeeps
<1>7. CASE PeriodicLsp \/ GenerateLsp
  BY <1>7, LspKeeps
<1>8. ASSUME NEW i \in Intfs,
             EnableIntf(i) \/ DisableIntf(i) \/ IntfUp(i) \/ IntfDown(i)
      PROVE  Inv'
  BY <1>8, StartCommandsKeep, StopCommandsKeep
<1>9. ASSUME NEW i \in Intfs, SetIp(i) \/ ChangeIp(i) \/ UnsetIp(i) \/ SetL2Mode(i)
      PROVE  Inv'
  BY <1>9, StartCommandsKeep, StopCommandsKeep, ModeCommandsKeep
<1>10. CASE ConfigLayer2Map \/ UnconfigLayer2Map
  BY <1>10, MapCommandsKeep
<1>11. CASE UNCHANGED vars
  BY <1>11 DEF vars, Inv, AdjInv, TimersMatchState, Live, GoodNode, IfInv, GoodIntf,
               Qualifies, NoStaleMapping, LspNotStale, Content, Up, MiscInv
<1>12. QED
  BY <1>1, <1>2, <1>3, <1>4, <1>5, <1>6, <1>7, <1>8, <1>9, <1>10, <1>11 DEF Next

\* The inductive invariant holds in every behaviour.
THEOREM Invariance == Spec => []Inv
  BY InitInv, NextInv, PTL DEF Spec

\* Types, and the width of adjacency_up_count, for any number of neighbours.
THEOREM TypeCorrect == Spec => []TypeOK
<1>1. Inv => TypeOK
  BY DEF Inv, AdjInv, GoodNode, IfInv, MiscInv, TypeOK
<1>2. QED
  BY <1>1, Invariance, PTL

\* Every adjacency has exactly the timer of its state, and no assertion of the
\* adjacency, reconciliation and hello code can fail, for any number of neighbours
\* and interfaces and any order of hellos, late timer jobs and commands.
THEOREM TimersCorrect == Spec => []TimersSound
<1>1. Inv => TimersSound
  BY DEF Inv, AdjInv, MiscInv, AssertsHold, TimersSound
<1>2. QED
  BY <1>1, Invariance, PTL

\* No ARP entry outlives the adjacencies that are up.
THEOREM MappingCorrect == Spec => []NoStaleMapping
<1>1. Inv => NoStaleMapping
  BY DEF Inv
<1>2. QED
  BY <1>1, Invariance, PTL

\* The last LSP is current, or its successor is on its way.
THEOREM LspCorrect == Spec => []LspNotStale
<1>1. Inv => LspNotStale
  BY DEF Inv
<1>2. QED
  BY <1>1, Invariance, PTL

\* An interface that qualifies sends hellos.
THEOREM HellosSent == Spec => []QualifiedSends
<1>1. Inv => QualifiedSends
  BY DEF Inv, IfInv, GoodIntf, QualifiedSends
<1>2. QED
  BY <1>1, Invariance, PTL
=============================================================================
