-------------------------- MODULE IsisLspDbProofs --------------------------
(***************************************************************************)
(* Proofs about the LSP database (IsisLspDb), for every set of routers,    *)
(* addresses and interfaces and every bound.                               *)
(*                                                                         *)
(* A handler is a chain of operators on the record h of the state, so the  *)
(* invariant has to be told of h between two calls, when it is not true of *)
(* the variables: the handler itself holds references to LSPs, or has      *)
(* given up one it is still counted for.  Sound(h, x) and Current(h, x)    *)
(* are the conjuncts of QueuesSound and DbSound about h with x[p] such     *)
(* references to p.  Each operator has a lemma that leads from one pair to *)
(* the next, each handler one that starts and ends with x = Zero.          *)
(*                                                                         *)
(* The bounds of the model are checked when a step ends (Bounded).  In     *)
(* between a queue may be longer than MaxQueue, and InQueues would miss    *)
(* the copies above it: what a lemma says of h is said if Fits(h), and     *)
(* every operator that makes something larger has a lemma that ends with   *)
(* "if the result fits so did h".                                          *)
(*                                                                         *)
(* IInv adds to the two invariants only that a stopped protocol holds      *)
(* nothing (Stopped), from which isis_init starts anew.  NewestWins and    *)
(* ShutdownAfterPurge are steps of the same handlers: Newer(h) compares h  *)
(* with the state the handler began in.                                    *)
(***************************************************************************)
EXTENDS IsisLspDb, FiniteSetTheorems, TLAPS

\* A copy of an LSP is its interface, its address and its place in the queue.
LEMMA CopiesAre ==
  ASSUME NEW f, NEW J, NEW S, NEW c
  PROVE  c \in Copies(f, J, S)
           <=> \E i \in J, p \in S, n \in 1..MaxQueue :
                 c = <<i, p, n>> /\ n <= f[i].lsp_xmit_list[p]
  BY DEF Copies

\* The copies in the queues can be counted.
LEMMA CopiesFinite ==
  ASSUME NEW f, NEW J \in SUBSET Intfs, NEW S \in SUBSET Pkts
  PROVE  /\ IsFiniteSet(Copies(f, J, S))
         /\ InQueues(f, J, S) = Cardinality(Copies(f, J, S))
         /\ InQueues(f, J, S) \in Nat
<1>1. IsFiniteSet(1..MaxQueue)
  BY FS_Interval, LspDbAssumption
<1>2. IsFiniteSet(J) /\ IsFiniteSet(S)
  BY FS_Subset, LspDbAssumption
<1> DEFINE T == (J \X S) \X (1..MaxQueue)
           g == [t \in T |-> <<t[1][1], t[1][2], t[2]>>]
           U == J \X S \X (1..MaxQueue)
<1>3. IsFiniteSet(T)
  BY <1>1, <1>2, FS_Product
<1>4. g \in Surjection(T, U)
  <2>1. g \in [T -> U]
    OBVIOUS
  <2>2. ASSUME NEW u \in U PROVE \E t \in T : g[t] = u
    <3>1. PICK i \in J, p \in S, n \in 1..MaxQueue : u = <<i, p, n>>
      OBVIOUS
    <3>2. <<<<i, p>>, n>> \in T /\ g[<<<<i, p>>, n>>] = u
      BY <3>1
    <3> QED
      BY <3>2
  <2> QED
    BY <2>1, <2>2 DEF Surjection
<1>5. IsFiniteSet(U)
  BY <1>3, <1>4, FS_Surjection
<1>6. Copies(f, J, S) \subseteq U
  BY DEF Copies
<1> QED
  BY <1>5, <1>6, FS_Subset, FS_CardinalityType DEF InQueues

\* Two sets of queues with the same LSPs of S have as many copies of them.
LEMMA SameCopies ==
  ASSUME NEW f, NEW g, NEW J \in SUBSET Intfs, NEW S \in SUBSET Pkts,
         \A i \in J, p \in S : g[i].lsp_xmit_list[p] = f[i].lsp_xmit_list[p]
  PROVE  InQueues(g, J, S) = InQueues(f, J, S)
<1>1. ASSUME NEW c PROVE c \in Copies(g, J, S) <=> c \in Copies(f, J, S)
  BY CopiesAre
<1>2. Copies(g, J, S) = Copies(f, J, S)
  BY <1>1
<1> QED
  BY <1>2 DEF InQueues

\* Queues without an LSP of S have no copy of them, and the other way round.
LEMMA NoCopies ==
  ASSUME NEW f, NEW J \in SUBSET Intfs, NEW S \in SUBSET Pkts,
         \A i \in J, p \in S : f[i].lsp_xmit_list[p] \in 0..MaxQueue
  PROVE  InQueues(f, J, S) = 0 <=> \A i \in J, p \in S : f[i].lsp_xmit_list[p] = 0
<1>1. InQueues(f, J, S) = 0 <=> Copies(f, J, S) = {}
  BY CopiesFinite, FS_EmptySet
<1>2. ASSUME NEW i \in J, NEW p \in S, f[i].lsp_xmit_list[p] # 0
      PROVE  Copies(f, J, S) # {}
  <2>1. 1 \in 1..MaxQueue /\ 1 <= f[i].lsp_xmit_list[p]
    BY <1>2, LspDbAssumption
  <2>2. <<i, p, 1>> \in Copies(f, J, S)
    BY <2>1, CopiesAre
  <2> QED
    BY <2>2
<1>3. ASSUME \A i \in J, p \in S : f[i].lsp_xmit_list[p] = 0
      PROVE  Copies(f, J, S) = {}
  <2>1. ASSUME NEW c \in Copies(f, J, S) PROVE FALSE
    <3>1. PICK i \in J, p \in S, n \in 1..MaxQueue : n <= f[i].lsp_xmit_list[p]
      BY CopiesAre
    <3> QED
      BY <1>3, <3>1, LspDbAssumption
  <2> QED
    BY <2>1
<1> QED
  BY <1>1, <1>2, <1>3

\* The copies in two separate sets of queues add up.
LEMMA SplitCopies ==
  ASSUME NEW f, NEW J \in SUBSET Intfs, NEW K \in SUBSET Intfs, J \cap K = {},
         NEW S \in SUBSET Pkts
  PROVE  InQueues(f, J \union K, S) = InQueues(f, J, S) + InQueues(f, K, S)
<1> DEFINE A == Copies(f, J, S)
           B == Copies(f, K, S)
<1>1. IsFiniteSet(A) /\ IsFiniteSet(B)
  BY CopiesFinite
<1>2. A \cap B = {}
  BY CopiesAre
<1>3. Copies(f, J \union K, S) = A \union B
  <2>1. ASSUME NEW c PROVE c \in Copies(f, J \union K, S) <=> c \in A \/ c \in B
    BY CopiesAre
  <2> QED
    BY <2>1
<1>4. Cardinality(A \union B) = Cardinality(A) + Cardinality(B) - Cardinality({})
  BY <1>1, <1>2, FS_Union
<1>5. Cardinality(A) \in Nat /\ Cardinality(B) \in Nat /\ Cardinality({}) = 0
  BY <1>1, FS_CardinalityType, FS_EmptySet
<1>6. /\ InQueues(f, J \union K, S) = Cardinality(A \union B)
      /\ InQueues(f, J, S) = Cardinality(A) /\ InQueues(f, K, S) = Cardinality(B)
  BY <1>3 DEF InQueues
<1> HIDE DEF A, B
<1> QED
  BY <1>2, <1>4, <1>5, <1>6

\* An LSP put at the end of each queue of Q has as many copies more.
OneMore(g, f, Q, p) ==
  \A i \in Intfs, q \in Pkts :
    /\ f[i].lsp_xmit_list[q] \in Nat
    /\ g[i].lsp_xmit_list[q] <= MaxQueue
    /\ g[i].lsp_xmit_list[q] =
         IF i \in Q /\ q = p THEN f[i].lsp_xmit_list[q] + 1
                             ELSE f[i].lsp_xmit_list[q]

\* With LSPs put at the end of queues the copies grow by as many.
LEMMA MoreCopies ==
  ASSUME NEW f, NEW g, NEW Q \in SUBSET Intfs, NEW p \in Pkts, NEW S \in SUBSET Pkts,
         p \in S, OneMore(g, f, Q, p)
  PROVE  InQueues(g, Intfs, S) = InQueues(f, Intfs, S) + Cardinality(Q)
<1>1. \A i \in Intfs, q \in Pkts :
        /\ f[i].lsp_xmit_list[q] \in Nat
        /\ g[i].lsp_xmit_list[q] <= MaxQueue
        /\ g[i].lsp_xmit_list[q] =
             IF i \in Q /\ q = p THEN f[i].lsp_xmit_list[q] + 1
                                 ELSE f[i].lsp_xmit_list[q]
  BY DEF OneMore
<1> DEFINE A == Copies(f, Intfs, S)
           N == [i \in Q |-> <<i, p, f[i].lsp_xmit_list[p] + 1>>]
           B == {N[i] : i \in Q}
<1>2. IsFiniteSet(A) /\ IsFiniteSet(Q)
  BY CopiesFinite, FS_Subset, LspDbAssumption
<1>3. N \in Bijection(Q, B)
  <2>1. N \in [Q -> B]
    OBVIOUS
  <2>2. \A i, j \in Q : N[i] = N[j] => i = j
    OBVIOUS
  <2>3. \A b \in B : \E i \in Q : N[i] = b
    OBVIOUS
  <2> HIDE DEF N
  <2> QED
    BY <2>1, <2>2, <2>3 DEF Bijection, Injection, Surjection, IsInjective
<1>4. IsFiniteSet(B) /\ Cardinality(B) = Cardinality(Q)
  <2>1. ExistsBijection(Q, B)
    BY <1>3 DEF ExistsBijection
  <2> HIDE DEF B
  <2> QED
    BY <1>2, <2>1, FS_Bijection
<1>5. A \cap B = {}
  <2>1. ASSUME NEW i \in Q PROVE N[i] \notin A
    <3>1. N[i] = <<i, p, f[i].lsp_xmit_list[p] + 1>>
      OBVIOUS
    <3> HIDE DEF N
    <3> QED
      <4>1. f[i].lsp_xmit_list[p] \in Nat
        BY <1>1
      <4>2. ASSUME NEW j \in Intfs, NEW q \in S, NEW k \in 1..MaxQueue,
                   N[i] = <<j, q, k>>, k <= f[j].lsp_xmit_list[q]
            PROVE  FALSE
        BY <3>1, <4>1, <4>2
      <4> QED
        BY <4>2, CopiesAre
  <2> QED
    BY <2>1
<1>6. Copies(g, Intfs, S) = A \union B
  <2>1. ASSUME NEW c \in Copies(g, Intfs, S) PROVE c \in A \union B
    <3>1. PICK i \in Intfs, q \in S, n \in 1..MaxQueue :
            c = <<i, q, n>> /\ n <= g[i].lsp_xmit_list[q]
      BY CopiesAre
    <3>2. n <= f[i].lsp_xmit_list[q] \/ (i \in Q /\ q = p /\ n = f[i].lsp_xmit_list[q] + 1)
      BY <1>1, <3>1
    <3>3. CASE n <= f[i].lsp_xmit_list[q]
      BY <3>1, <3>3, CopiesAre
    <3>4. CASE i \in Q /\ q = p /\ n = f[i].lsp_xmit_list[q] + 1
      BY <3>1, <3>4
    <3> QED
      BY <3>2, <3>3, <3>4
  <2>2. ASSUME NEW c \in A PROVE c \in Copies(g, Intfs, S)
    <3>1. PICK i \in Intfs, q \in S, n \in 1..MaxQueue :
            c = <<i, q, n>> /\ n <= f[i].lsp_xmit_list[q]
      BY CopiesAre
    <3>2. n <= g[i].lsp_xmit_list[q]
      BY <1>1, <3>1
    <3> QED
      BY <3>1, <3>2, CopiesAre
  <2>3. ASSUME NEW i \in Q PROVE N[i] \in Copies(g, Intfs, S)
    <3>1. N[i] = <<i, p, f[i].lsp_xmit_list[p] + 1>>
      OBVIOUS
    <3>2. /\ f[i].lsp_xmit_list[p] + 1 \in 1..MaxQueue
          /\ f[i].lsp_xmit_list[p] + 1 <= g[i].lsp_xmit_list[p]
      BY <1>1, LspDbAssumption
    <3> HIDE DEF N
    <3> QED
      BY <3>1, <3>2, CopiesAre
  <2> QED
    BY <2>1, <2>2, <2>3
<1>7. Cardinality(A \union B) = Cardinality(A) + Cardinality(B) - Cardinality({})
  BY <1>2, <1>4, <1>5, FS_Union
<1>8. Cardinality(A) \in Nat /\ Cardinality(B) \in Nat /\ Cardinality({}) = 0
  BY <1>2, <1>4, FS_CardinalityType, FS_EmptySet
<1> QED
  BY <1>4, <1>6, <1>7, <1>8 DEF InQueues

-----------------------------------------------------------------------------
(* What holds of the record h between two calls of a handler. *)

\* The fields of an LSP, whatever numbers they hold.
Packets ==
  [rtr_id : Rtrs \union {NULL}, seq_no : Nat, ref_count : Nat,
   flood_queue_count : Nat, flood_eligibility : BOOLEAN,
   installed_in_db : BOOLEAN, expiry_timer : {"NULL", "running", "expired"}]

\* The fields of the node, whatever numbers they hold.
Nodes ==
  [enabled : BOOLEAN, self_lsp_pkt : Pkts \union {NULL}, seq_no : Nat,
   lsp_pkt_gen_task : BOOLEAN, pending_lsp_flood_count : Nat,
   reconciliation_in_progress : BOOLEAN, shutdown : BOOLEAN]

\* The fields of an interface, however long its queue is.
Ports ==
  [enabled : BOOLEAN, adjacency : {"none", "some", "up"},
   lsp_xmit_list : [Pkts -> Nat], lsp_xmit_job : BOOLEAN]

\* The records that the operators of the handlers work on.
Memory ==
  [pkt : [Pkts -> Packets], db : [Rtrs -> Pkts \union {NULL}],
   ted : [Nbrs -> {"absent", "fake", "real"}], node : Nodes,
   ifs : [Intfs -> Ports], highest : Nat,
   crashed : {"no", "assert", "ted", "timer", "null", "freed"}]

\* The bounds that tell whether InQueues sees every copy and PktFields every number.
Fits(h) ==
  /\ h.node.seq_no <= MaxSeq
  /\ \A i \in Intfs, p \in Pkts : h.ifs[i].lsp_xmit_list[p] <= MaxQueue

\* The counts of each LSP, when the handler holds x[p] references to p beside those
\* of the database, the node and the queues.
Counted(h, x) ==
  \A p \in Pkts :
    /\ h.pkt[p].ref_count =
         Truth(h.pkt[p].installed_in_db) + Truth(h.node.self_lsp_pkt = p)
           + InQueues(h.ifs, Intfs, {p}) + x[p]
    /\ h.pkt[p].flood_queue_count = InQueues(h.ifs, Intfs, {p})
    /\ h.pkt[p].ref_count > 0 <=> h.pkt[p] # Freed

\* The node's counter and the transmit jobs cover the queues.
Queued(h) ==
  /\ h.node.pending_lsp_flood_count >= InQueues(h.ifs, Intfs, Pkts)
  /\ \A i \in Intfs : ~h.ifs[i].enabled => h.ifs[i] = Disabled
  /\ \A i \in Intfs : h.ifs[i].lsp_xmit_job <=> h.ifs[i].lsp_xmit_list # EmptyQueue

\* No LSP has a number above the bound.
Numbers(h) ==
  /\ h.highest <= MaxSeq
  /\ \A p \in Pkts : h.pkt[p].seq_no <= MaxSeq

\* The database, installed_in_db, life-time timers and the traffic engineering
\* database tell the same, but for the timers of S, which are stopped first.
Agrees(h, S) ==
  /\ \A p \in Pkts : h.pkt[p].installed_in_db <=> \E r \in Rtrs : h.db[r] = p
  /\ \A p \in Pkts : h.pkt[p].expiry_timer # "NULL"
                       => h.pkt[p].installed_in_db /\ h.pkt[p].rtr_id # Self
  /\ \A p \in Pkts : h.pkt[p].installed_in_db /\ h.pkt[p].rtr_id # Self /\ p \notin S
                       => h.pkt[p].expiry_timer # "NULL"
  /\ \A r \in Rtrs : h.db[r] # NULL => h.pkt[h.db[r]].rtr_id = r
  /\ \A r \in Nbrs : h.ted[r] = "real" <=> r \in Rtrs /\ h.db[r] # NULL

\* What the database held when the handler began has not become older.
Newer(h) ==
  \A r \in Rtrs : db[r] # NULL /\ h.db[r] # NULL
                    => h.pkt[h.db[r]].seq_no >= pkt[db[r]].seq_no

\* What holds of h but for the router's own LSP.
Sound(h, x) ==
  /\ h.crashed # "assert"
  /\ Counted(h, x)
  /\ Queued(h)
  /\ Numbers(h)
  /\ Agrees(h, {})
  /\ Newer(h)

\* The own LSP of OwnLspCurrent: another one is not flooded any more, unless nobody
\* but the handler holds it.
Current(h, x) ==
  /\ h.db[Self] \in {NULL, h.node.self_lsp_pkt}
  /\ h.db[Self] # NULL => h.pkt[h.node.self_lsp_pkt].seq_no <= h.node.seq_no
  /\ \A p \in Pkts : h.pkt[p].rtr_id = Self /\ h.pkt[p].flood_eligibility
                       => p = h.node.self_lsp_pkt \/ h.pkt[p].ref_count = x[p]
  /\ ~h.node.lsp_pkt_gen_task /\ ~h.node.reconciliation_in_progress
       => h.node.self_lsp_pkt # NULL /\ h.db[Self] = h.node.self_lsp_pkt

\* What a handler needs and keeps of h while the protocol runs.
Good(h, x) ==
  /\ h \in Memory /\ h.node.enabled
  /\ Fits(h) => Sound(h, x) /\ Current(h, x)

\* The memory that free() leaves is a record of an LSP.
LEMMA FreedIs == Freed \in Packets
  BY LspDbAssumption DEF Freed, Packets

\* NULL is neither a router nor an address, and this router is one of the routers.
LEMMA Nulls ==
  /\ NULL \notin Rtrs /\ NULL \notin Pkts /\ NULL # Self
  /\ Self \in Rtrs /\ Rtrs \subseteq Nbrs
  BY LspDbAssumption DEF Rtrs

-----------------------------------------------------------------------------
(* References. *)

\* What a failing assertion or a NULL pointer changes.
Failed(g, h, cond, why) ==
  /\ g \in Memory /\ g.pkt = h.pkt /\ g.db = h.db /\ g.ted = h.ted
  /\ g.node = h.node /\ g.ifs = h.ifs /\ g.highest = h.highest
  /\ g.crashed \in {h.crashed, why}
  /\ ~cond => g = h

\* fails only says why the process ends.
LEMMA FailsDoes ==
  ASSUME NEW h \in Memory, NEW cond \in BOOLEAN,
         NEW why \in {"assert", "ted", "timer", "null", "freed"}
  PROVE  Failed(fails(h, cond, why), h, cond, why)
  BY DEF fails, Memory, Failed

\* What isis_deref_isis_pkt leaves of an LSP.
Dereferenced(g, h, n) ==
  /\ g \in Memory
  /\ g.db = h.db /\ g.ted = h.ted /\ g.node = h.node /\ g.ifs = h.ifs
  /\ g.highest = h.highest
  /\ \A p \in Pkts : g.pkt[p] =
       IF n[p] > 0 /\ h.pkt[p].ref_count <= n[p] THEN Freed
       ELSE [h.pkt[p] EXCEPT !.ref_count = @ - n[p]]
  /\ (\A p \in Pkts : n[p] > 0 /\ h.pkt[p].ref_count <= n[p]
        => /\ h.pkt[p].ref_count = n[p] /\ ~h.pkt[p].installed_in_db
           /\ h.pkt[p].expiry_timer = "NULL")
       => g.crashed = h.crashed

\* isis_deref_isis_pkt frees an LSP with its last reference, and asserts that there
\* is one and that the LSP is not in the database.
LEMMA DerefDoes ==
  ASSUME NEW h \in Memory, NEW n \in [Pkts -> Nat]
  PROVE  Dereferenced(deref(h, n), h, n)
<1> DEFINE gone == {p \in Pkts : n[p] > 0 /\ h.pkt[p].ref_count <= n[p]}
           bad  == \E p \in gone : h.pkt[p].ref_count < n[p] \/ h.pkt[p].installed_in_db
           late == \E p \in gone : h.pkt[p].expiry_timer = "expired"
           a    == fails(h, bad, "assert")
           b    == late_job(a, gone)
           P    == [p \in Pkts |-> IF p \in gone THEN Freed
                                   ELSE [h.pkt[p] EXCEPT !.ref_count = @ - n[p]]]
<1>1. h.pkt \in [Pkts -> Packets]
  BY DEF Memory
<1>2. bad \in BOOLEAN /\ late \in BOOLEAN
  OBVIOUS
<1>3. /\ a \in Memory /\ a.pkt = h.pkt /\ a.db = h.db /\ a.ted = h.ted
      /\ a.node = h.node /\ a.ifs = h.ifs /\ a.highest = h.highest
      /\ ~bad => a = h
  <2> HIDE DEF bad
  <2>1. Failed(a, h, bad, "assert")
    BY <1>2, FailsDoes
  <2> QED
    BY <2>1 DEF Failed
<1>4. b = fails(a, late, "freed")
  BY <1>3 DEF late_job
<1>5. /\ b \in Memory /\ b.pkt = h.pkt /\ b.db = h.db /\ b.ted = h.ted
      /\ b.node = h.node /\ b.ifs = h.ifs /\ b.highest = h.highest
      /\ ~late => b = a
  <2> DEFINE f == fails(a, late, "freed")
  <2> HIDE DEF late, a
  <2>1. Failed(f, a, late, "freed")
    BY <1>2, <1>3, FailsDoes
  <2> HIDE DEF f, b
  <2>2. b = f
    BY <1>4 DEF f
  <2> QED
    BY <1>3, <2>1, <2>2 DEF Failed
<1>6. P \in [Pkts -> Packets]
  <2>1. ASSUME NEW p \in Pkts, p \notin gone
        PROVE  [h.pkt[p] EXCEPT !.ref_count = @ - n[p]] \in Packets
    <3>1. h.pkt[p] \in Packets /\ n[p] \in Nat
      BY <1>1
    <3>2. h.pkt[p].ref_count - n[p] \in Nat
      BY <2>1, <3>1 DEF Packets
    <3> HIDE DEF gone
    <3> QED
      BY <3>1, <3>2 DEF Packets
  <2> HIDE DEF gone
  <2> QED
    BY <2>1, FreedIs
<1>7. deref(h, n) = [b EXCEPT !.pkt = P]
  BY DEF deref
<1>8. ~bad /\ ~late => b.crashed = h.crashed
  BY <1>3, <1>5
<1>9. (\A p \in Pkts : n[p] > 0 /\ h.pkt[p].ref_count <= n[p]
        => /\ h.pkt[p].ref_count = n[p] /\ ~h.pkt[p].installed_in_db
           /\ h.pkt[p].expiry_timer = "NULL")
      => ~bad /\ ~late
  BY <1>1 DEF Packets
<1>10. \A p \in Pkts : P[p] =
              IF n[p] > 0 /\ h.pkt[p].ref_count <= n[p] THEN Freed
              ELSE [h.pkt[p] EXCEPT !.ref_count = @ - n[p]]
  OBVIOUS
<1> HIDE DEF b, P, bad, late
<1>11. /\ deref(h, n) \in Memory /\ deref(h, n).pkt = P /\ deref(h, n).db = b.db
       /\ deref(h, n).ted = b.ted /\ deref(h, n).node = b.node
       /\ deref(h, n).ifs = b.ifs /\ deref(h, n).highest = b.highest
       /\ deref(h, n).crashed = b.crashed
  BY <1>5, <1>6, <1>7 DEF Memory
<1> QED
  BY <1>5, <1>8, <1>9, <1>10, <1>11 DEF Dereferenced

\* A step that only takes references to LSPs or gives them up, the last of which
\* frees an LSP that is not in the database.
Keeps(g, h) ==
  /\ g.db = h.db /\ g.ted = h.ted /\ g.highest = h.highest
  /\ g.node.enabled = h.node.enabled
  /\ g.node.self_lsp_pkt = h.node.self_lsp_pkt
  /\ g.node.seq_no = h.node.seq_no
  /\ g.node.lsp_pkt_gen_task = h.node.lsp_pkt_gen_task
  /\ g.node.reconciliation_in_progress = h.node.reconciliation_in_progress
  /\ g.node.shutdown = h.node.shutdown
  /\ \A p \in Pkts :
       \/ g.pkt[p] = Freed /\ ~h.pkt[p].installed_in_db
       \/ /\ g.pkt[p].rtr_id = h.pkt[p].rtr_id
          /\ g.pkt[p].seq_no = h.pkt[p].seq_no
          /\ g.pkt[p].flood_eligibility = h.pkt[p].flood_eligibility
          /\ g.pkt[p].installed_in_db = h.pkt[p].installed_in_db
          /\ g.pkt[p].expiry_timer = h.pkt[p].expiry_timer

\* Such a step changes neither the database nor anything it is compared with.
LEMMA Kept ==
  ASSUME NEW g \in Memory, NEW h \in Memory, Keeps(g, h),
         Numbers(h), Agrees(h, {}), Newer(h)
  PROVE  Numbers(g) /\ Agrees(g, {}) /\ Newer(g)
<1>1. ASSUME NEW p \in Pkts, h.pkt[p].installed_in_db
      PROVE  /\ g.pkt[p].installed_in_db
             /\ g.pkt[p].rtr_id = h.pkt[p].rtr_id
             /\ g.pkt[p].seq_no = h.pkt[p].seq_no
  BY <1>1 DEF Keeps
<1>2. ASSUME NEW p \in Pkts
      PROVE  /\ g.pkt[p].installed_in_db <=> h.pkt[p].installed_in_db
             /\ g.pkt[p].expiry_timer # "NULL" => g.pkt[p].expiry_timer = h.pkt[p].expiry_timer
             /\ g.pkt[p].seq_no <= MaxSeq
  <2>1. CASE g.pkt[p] = Freed /\ ~h.pkt[p].installed_in_db
    BY <2>1, LspDbAssumption DEF Freed
  <2>2. CASE ~(g.pkt[p] = Freed /\ ~h.pkt[p].installed_in_db)
    BY <2>2 DEF Keeps, Numbers
  <2> QED
    BY <2>1, <2>2
<1>3. ASSUME NEW r \in Rtrs, h.db[r] # NULL
      PROVE  h.db[r] \in Pkts /\ h.pkt[h.db[r]].installed_in_db
  <2>1. h.db[r] \in Pkts
    BY <1>3 DEF Memory
  <2> QED
    BY <1>3, <2>1 DEF Agrees
<1>4. Numbers(g)
  BY <1>2 DEF Numbers, Keeps
<1>5. g.db = h.db /\ g.ted = h.ted
  BY DEF Keeps
<1>6. Newer(g)
  <2>1. ASSUME NEW r \in Rtrs, db[r] # NULL, h.db[r] # NULL
        PROVE  g.pkt[h.db[r]].seq_no >= pkt[db[r]].seq_no
    BY <1>1, <1>3, <2>1 DEF Newer
  <2> QED
    BY <1>5, <2>1 DEF Newer
<1>7. Agrees(g, {})
  <2>1. \A p \in Pkts : g.pkt[p].installed_in_db <=> \E r \in Rtrs : g.db[r] = p
    BY <1>2, <1>5 DEF Agrees
  <2>2. ASSUME NEW p \in Pkts, g.pkt[p].expiry_timer # "NULL"
        PROVE  g.pkt[p].installed_in_db /\ g.pkt[p].rtr_id # Self
    <3>1. h.pkt[p].expiry_timer # "NULL"
      BY <1>2, <2>2
    <3>2. h.pkt[p].installed_in_db /\ h.pkt[p].rtr_id # Self
      BY <3>1 DEF Agrees
    <3> QED
      BY <1>1, <3>2
  <2>3. ASSUME NEW p \in Pkts, g.pkt[p].installed_in_db, g.pkt[p].rtr_id # Self
        PROVE  g.pkt[p].expiry_timer # "NULL"
    <3>1. h.pkt[p].installed_in_db
      BY <1>2, <2>3
    <3>2. g.pkt[p].expiry_timer = h.pkt[p].expiry_timer /\ h.pkt[p].rtr_id # Self
      BY <2>3, <3>1 DEF Keeps
    <3> QED
      BY <3>1, <3>2 DEF Agrees
  <2>4. \A r \in Rtrs : g.db[r] # NULL => g.pkt[g.db[r]].rtr_id = r
    BY <1>1, <1>3, <1>5 DEF Agrees
  <2>5. \A r \in Nbrs : g.ted[r] = "real" <=> r \in Rtrs /\ g.db[r] # NULL
    BY <1>5 DEF Agrees
  <2> QED
    BY <2>1, <2>2, <2>3, <2>4, <2>5 DEF Agrees
<1> QED
  BY <1>4, <1>6, <1>7

\* Such a step leaves the own LSP the current one.
LEMMA CurrentKept ==
  ASSUME NEW g \in Memory, NEW h \in Memory, Keeps(g, h), Agrees(h, {}),
         NEW x, NEW y, Current(h, x),
         \A p \in Pkts : h.pkt[p].rtr_id = Self /\ h.pkt[p].ref_count = x[p]
                           /\ p # h.node.self_lsp_pkt
                           => g.pkt[p] = Freed \/ g.pkt[p].ref_count = y[p]
  PROVE  Current(g, y)
<1> DEFINE self == h.node.self_lsp_pkt
<1>1. g.db = h.db /\ g.node.self_lsp_pkt = self /\ g.node.seq_no = h.node.seq_no
  BY DEF Keeps
<1>2. g.db[Self] \in {NULL, g.node.self_lsp_pkt}
  BY <1>1 DEF Current
<1>3. ASSUME g.db[Self] # NULL PROVE g.pkt[self].seq_no <= h.node.seq_no
  <2>1. h.db[Self] = self /\ self \in Pkts
    BY <1>1, <1>2, <1>3, Nulls DEF Memory
  <2>2. h.pkt[self].installed_in_db
    BY <2>1, Nulls DEF Agrees
  <2>3. g.pkt[self].seq_no = h.pkt[self].seq_no
    BY <2>1, <2>2 DEF Keeps
  <2> QED
    BY <1>1, <1>3, <2>3 DEF Current
<1>4. ASSUME NEW p \in Pkts, g.pkt[p].rtr_id = Self, g.pkt[p].flood_eligibility, p # self
      PROVE  g.pkt[p].ref_count = y[p]
  <2>1. g.pkt[p] # Freed
    BY <1>4, Nulls DEF Freed
  <2>2. h.pkt[p].rtr_id = Self /\ h.pkt[p].flood_eligibility
    BY <1>4, <2>1 DEF Keeps
  <2>3. h.pkt[p].ref_count = x[p]
    BY <1>4, <2>2 DEF Current
  <2> QED
    BY <1>4, <2>1, <2>2, <2>3
<1>5. ~g.node.lsp_pkt_gen_task /\ ~g.node.reconciliation_in_progress
       => self # NULL /\ g.db[Self] = self
  BY <1>1 DEF Keeps, Current
<1> QED
  BY <1>1, <1>2, <1>3, <1>4, <1>5 DEF Current

\* isis_deref_isis_pkt is such a step when the database keeps its references.
LEMMA DerefKeeps ==
  ASSUME NEW h \in Memory, NEW n \in [Pkts -> Nat],
         \A p \in Pkts : n[p] > 0 /\ h.pkt[p].installed_in_db
                           => h.pkt[p].ref_count > n[p]
  PROVE  Keeps(deref(h, n), h)
<1> DEFINE g == deref(h, n)
<1>1. /\ g.db = h.db /\ g.ted = h.ted /\ g.node = h.node /\ g.highest = h.highest
      /\ \A p \in Pkts : g.pkt[p] =
              IF n[p] > 0 /\ h.pkt[p].ref_count <= n[p] THEN Freed
              ELSE [h.pkt[p] EXCEPT !.ref_count = @ - n[p]]
  BY DerefDoes DEF Dereferenced
<1> HIDE DEF g
<1>2. ASSUME NEW p \in Pkts
      PROVE  \/ g.pkt[p] = Freed /\ ~h.pkt[p].installed_in_db
             \/ /\ g.pkt[p].rtr_id = h.pkt[p].rtr_id
                /\ g.pkt[p].seq_no = h.pkt[p].seq_no
                /\ g.pkt[p].flood_eligibility = h.pkt[p].flood_eligibility
                /\ g.pkt[p].installed_in_db = h.pkt[p].installed_in_db
                /\ g.pkt[p].expiry_timer = h.pkt[p].expiry_timer
  <2>1. h.pkt[p] \in Packets /\ n[p] \in Nat
    BY DEF Memory
  <2>2. CASE n[p] > 0 /\ h.pkt[p].ref_count <= n[p]
    <3>1. ~h.pkt[p].installed_in_db
      BY <2>1, <2>2 DEF Packets
    <3>2. g.pkt[p] = Freed
      BY <1>1, <2>2
    <3> QED
      BY <3>1, <3>2
  <2>3. CASE ~(n[p] > 0 /\ h.pkt[p].ref_count <= n[p])
    <3>1. g.pkt[p] = [h.pkt[p] EXCEPT !.ref_count = @ - n[p]]
      BY <1>1, <2>3
    <3> QED
      BY <2>1, <3>1 DEF Packets
  <2> QED
    BY <2>2, <2>3
<1>3. Keeps(g, h)
  BY <1>1, <1>2 DEF Keeps
<1> QED
  BY <1>3 DEF g

\* With as few references left as are given up, the last one is: neither the
\* database (d) nor a queue (m) holds another.
LEMMA LastReference ==
  ASSUME NEW d \in {0, 1}, NEW t \in Nat, NEW m \in Nat, NEW x \in Int, NEW n \in Nat,
         t + (x - n) >= 0, d + t + m + x <= n
  PROVE  d + t + m + x = n /\ d = 0 /\ m = 0
  OBVIOUS

\* isis_deref_isis_pkt keeps the count of an LSP right when a reference that is given
\* up was held, and fails no assertion when the database holds a further one.
LEMMA DerefSound ==
  ASSUME NEW h \in Memory, NEW n \in [Pkts -> Nat], NEW x \in [Pkts -> Int],
         NEW y \in [Pkts -> Int], \A p \in Pkts : y[p] = x[p] - n[p],
         Fits(h), Sound(h, x),
         \A p \in Pkts : n[p] > 0 => Truth(h.node.self_lsp_pkt = p) + y[p] >= 0
  PROVE  deref(h, n) \in Memory /\ Fits(deref(h, n)) /\ Sound(deref(h, n), y)
         /\ Keeps(deref(h, n), h)
<1> DEFINE g == deref(h, n)
           m(p) == InQueues(h.ifs, Intfs, {p})
           t(p) == Truth(h.node.self_lsp_pkt = p)
           d(p) == Truth(h.pkt[p].installed_in_db)
<1>1. h.pkt \in [Pkts -> Packets]
  BY DEF Memory
<1>2. /\ g \in Memory /\ g.node = h.node /\ g.ifs = h.ifs
      /\ \A p \in Pkts : g.pkt[p] =
              IF n[p] > 0 /\ h.pkt[p].ref_count <= n[p] THEN Freed
              ELSE [h.pkt[p] EXCEPT !.ref_count = @ - n[p]]
      /\ (\A p \in Pkts : n[p] > 0 /\ h.pkt[p].ref_count <= n[p]
               => /\ h.pkt[p].ref_count = n[p] /\ ~h.pkt[p].installed_in_db
                  /\ h.pkt[p].expiry_timer = "NULL")
           => g.crashed = h.crashed
  BY DerefDoes DEF Dereferenced
<1> HIDE DEF g
<1>3. ASSUME NEW p \in Pkts
      PROVE  /\ h.pkt[p] \in Packets /\ n[p] \in Nat /\ x[p] \in Int
             /\ y[p] = x[p] - n[p] /\ y[p] \in Int
             /\ m(p) \in Nat /\ t(p) \in Nat
             /\ d(p) = IF h.pkt[p].installed_in_db THEN 1 ELSE 0
             /\ h.pkt[p].ref_count = d(p) + t(p) + m(p) + x[p]
             /\ h.pkt[p].flood_queue_count = m(p)
             /\ h.pkt[p].ref_count > 0 <=> h.pkt[p] # Freed
             /\ n[p] > 0 => t(p) + y[p] >= 0
  <2>1. h.pkt[p] \in Packets /\ n[p] \in Nat /\ x[p] \in Int /\ y[p] = x[p] - n[p]
    BY <1>1
  <2>2. m(p) \in Nat /\ t(p) \in Nat
    BY CopiesFinite DEF Truth
  <2>3. d(p) = IF h.pkt[p].installed_in_db THEN 1 ELSE 0
    BY DEF Truth
  <2>4. /\ h.pkt[p].ref_count = d(p) + t(p) + m(p) + x[p]
        /\ h.pkt[p].flood_queue_count = m(p)
        /\ h.pkt[p].ref_count > 0 <=> h.pkt[p] # Freed
    BY DEF Sound, Counted
  <2> QED
    BY <2>1, <2>2, <2>3, <2>4
<1> HIDE DEF m, t, d
<1>4. ASSUME NEW p \in Pkts, n[p] > 0, h.pkt[p].ref_count <= n[p]
      PROVE  /\ h.pkt[p].ref_count = n[p] /\ ~h.pkt[p].installed_in_db
             /\ d(p) = 0 /\ m(p) = 0 /\ h.pkt[p].expiry_timer = "NULL"
  <2>1. d(p) \in {0, 1}
    BY <1>3
  <2>2. /\ n[p] \in Nat /\ x[p] \in Int /\ y[p] = x[p] - n[p]
        /\ m(p) \in Nat /\ t(p) \in Nat /\ t(p) + y[p] >= 0
        /\ h.pkt[p].ref_count = d(p) + t(p) + m(p) + x[p]
    BY <1>3, <1>4
  <2>3. h.pkt[p].ref_count = n[p] /\ d(p) = 0 /\ m(p) = 0
    BY <1>4, <2>1, <2>2, LastReference
  <2>4. ~h.pkt[p].installed_in_db
    BY <1>3, <2>3
  <2> QED
    BY <1>3, <2>3, <2>4 DEF Sound, Agrees, Packets
<1>5. ASSUME NEW p \in Pkts, n[p] > 0, h.pkt[p].installed_in_db
      PROVE  h.pkt[p].ref_count > n[p]
  <2>1. d(p) = 1
    BY <1>3, <1>5
  <2> QED
    BY <1>3, <1>5, <2>1
<1>6. Keeps(g, h)
  BY <1>5, DerefKeeps DEF g
<1>7. g.crashed # "assert"
  BY <1>2, <1>4 DEF Sound
<1>8. Counted(g, y)
  <2> SUFFICES ASSUME NEW p \in Pkts
               PROVE  /\ g.pkt[p].ref_count =
                           Truth(g.pkt[p].installed_in_db) + t(p) + m(p) + y[p]
                      /\ g.pkt[p].flood_queue_count = m(p)
                      /\ g.pkt[p].ref_count > 0 <=> g.pkt[p] # Freed
    BY <1>2 DEF Counted, m, t
  <2>1. CASE n[p] > 0 /\ h.pkt[p].ref_count <= n[p]
    <3>1. g.pkt[p] = Freed
      BY <1>2, <2>1
    <3>2. Freed.flood_queue_count = 0 /\ Freed.ref_count = 0 /\ Truth(Freed.installed_in_db) = 0
      BY DEF Freed, Truth
    <3>3. d(p) = 0 /\ m(p) = 0 /\ h.pkt[p].ref_count = n[p]
      BY <1>4, <2>1
    <3> QED
      BY <1>3, <3>1, <3>2, <3>3
  <2>2. CASE ~(n[p] > 0 /\ h.pkt[p].ref_count <= n[p])
    <3>1. g.pkt[p] = [h.pkt[p] EXCEPT !.ref_count = @ - n[p]]
      BY <1>2, <2>2
    <3>2. /\ g.pkt[p].ref_count = h.pkt[p].ref_count - n[p]
          /\ Truth(g.pkt[p].installed_in_db) = d(p)
          /\ g.pkt[p].flood_queue_count = h.pkt[p].flood_queue_count
          /\ n[p] = 0 => g.pkt[p] = h.pkt[p]
      <4>1. h.pkt[p] \in Packets /\ n[p] \in Nat
        BY <1>3
      <4>2. /\ g.pkt[p].ref_count = h.pkt[p].ref_count - n[p]
            /\ g.pkt[p].installed_in_db = h.pkt[p].installed_in_db
            /\ g.pkt[p].flood_queue_count = h.pkt[p].flood_queue_count
        BY <3>1, <4>1 DEF Packets
      <4>3. ASSUME n[p] = 0 PROVE g.pkt[p] = h.pkt[p]
        <5>1. h.pkt[p].ref_count - n[p] = h.pkt[p].ref_count
          BY <4>1, <4>3 DEF Packets
        <5>2. g.pkt[p] = [h.pkt[p] EXCEPT !.ref_count = h.pkt[p].ref_count]
          BY <3>1, <5>1
        <5> QED
          BY <4>1, <5>2 DEF Packets
      <4> QED
        BY <4>2, <4>3 DEF d
    <3>3. d(p) \in {0, 1}
      BY <1>3
    <3>4. Freed.ref_count = 0
      BY DEF Freed
    <3>5. g.pkt[p].ref_count > 0 <=> g.pkt[p] # Freed
      <4>1. CASE n[p] = 0
        BY <1>3, <3>2, <4>1
      <4>2. CASE n[p] # 0
        <5>1. g.pkt[p].ref_count > 0
          BY <1>3, <2>2, <3>2, <4>2 DEF Packets
        <5> QED
          BY <3>4, <5>1
      <4> QED
        BY <4>1, <4>2
    <3> QED
      BY <1>3, <3>2, <3>3, <3>5
  <2> QED
    BY <2>1, <2>2
<1>9. Queued(g) /\ Fits(g)
  BY <1>2 DEF Sound, Queued, Fits
<1>10. Numbers(g) /\ Agrees(g, {}) /\ Newer(g)
  BY <1>2, <1>6, Kept DEF Sound
<1>11. g \in Memory /\ Fits(g) /\ Sound(g, y) /\ Keeps(g, h)
  BY <1>2, <1>6, <1>7, <1>8, <1>9, <1>10 DEF Sound
<1> QED
  BY <1>11 DEF g

-----------------------------------------------------------------------------
(* Flooding. *)

\* The interfaces that isis_queue_lsp_pkt_for_transmission accepts the LSP on.
Takers(h, J, p) == {i \in J : h.ifs[i].enabled /\ h.pkt[p].flood_eligibility}

\* What it does with n of them: references, queue counts, wake-ups and nothing else.
Queueing(g, h, p, Q, n) ==
  /\ g \in Memory /\ Keeps(g, h) /\ g.crashed = h.crashed
  /\ n \in Nat /\ IsFiniteSet(Q) /\ Q \subseteq Intfs
  /\ g.node.pending_lsp_flood_count = h.node.pending_lsp_flood_count + n
  /\ \A q \in Pkts \ {p} : g.pkt[q] = h.pkt[q]
  /\ g.pkt[p] = [h.pkt[p] EXCEPT !.ref_count = @ + n, !.flood_queue_count = @ + n]
  /\ \A i \in Q : g.ifs[i] = [h.ifs[i] EXCEPT !.lsp_xmit_list[p] = @ + 1,
                                              !.lsp_xmit_job = TRUE]
  /\ \A i \in Intfs \ Q : g.ifs[i] = h.ifs[i]

\* What isis_queue_lsp_pkt_for_transmission does.
LEMMA QueueDoes ==
  ASSUME NEW h \in Memory, NEW J \in SUBSET Intfs, NEW p \in Pkts,
         NEW g, g = queue(h, J, p), NEW Q, Q = Takers(h, J, p),
         NEW n, n = Cardinality(Q)
  PROVE  Queueing(g, h, p, Q, n)
<1> DEFINE f == [i \in Intfs |-> IF i \in Q
                   THEN [h.ifs[i] EXCEPT !.lsp_xmit_list[p] = @ + 1, !.lsp_xmit_job = TRUE]
                   ELSE h.ifs[i]]
           s == [h.pkt EXCEPT ![p].ref_count = @ + n, ![p].flood_queue_count = @ + n]
           d == [h.node EXCEPT !.pending_lsp_flood_count = @ + n]
<1>1. /\ h.pkt \in [Pkts -> Packets] /\ h.node \in Nodes /\ h.ifs \in [Intfs -> Ports]
  BY DEF Memory
<1>2. Q \subseteq Intfs /\ IsFiniteSet(Q) /\ n \in Nat
  BY LspDbAssumption, FS_Subset, FS_CardinalityType DEF Takers
<1>3. f \in [Intfs -> Ports]
  <2>1. ASSUME NEW i \in Intfs
        PROVE  [h.ifs[i] EXCEPT !.lsp_xmit_list[p] = @ + 1, !.lsp_xmit_job = TRUE] \in Ports
    <3>1. h.ifs[i] \in Ports /\ h.ifs[i].lsp_xmit_list \in [Pkts -> Nat]
      BY <1>1 DEF Ports
    <3>2. [h.ifs[i].lsp_xmit_list EXCEPT ![p] = @ + 1] \in [Pkts -> Nat]
      BY <3>1
    <3> QED
      BY <3>1, <3>2 DEF Ports
  <2> QED
    BY <1>1, <2>1
<1>4. s \in [Pkts -> Packets]
  BY <1>1, <1>2 DEF Packets
<1>5. d \in Nodes
  BY <1>1, <1>2 DEF Nodes
<1>6. g = [h EXCEPT !.pkt = s, !.node = d, !.ifs = f]
  <2>1. g = [h EXCEPT !.pkt[p].ref_count = @ + n,
                      !.pkt[p].flood_queue_count = @ + n,
                      !.node.pending_lsp_flood_count = @ + n, !.ifs = queue_on(h.ifs, Q, p)]
    BY DEF queue, Takers
  <2>2. h = [pkt |-> h.pkt, db |-> h.db, ted |-> h.ted, node |-> h.node, ifs |-> h.ifs,
             highest |-> h.highest, crashed |-> h.crashed]
    BY DEF Memory
  <2>3. g.pkt = s
    BY <2>1, <2>2
  <2>4. g.node = d
    BY <2>1, <2>2
  <2>5. g.ifs = f
    BY <2>1, <2>2 DEF queue_on
  <2>6. g = [h EXCEPT !.pkt = g.pkt, !.node = g.node, !.ifs = g.ifs]
    BY <2>1, <2>2
  <2> QED
    BY <2>3, <2>4, <2>5, <2>6
<1>7. /\ \A i \in Q : f[i] = [h.ifs[i] EXCEPT !.lsp_xmit_list[p] = @ + 1,
                                              !.lsp_xmit_job = TRUE]
      /\ \A i \in Intfs \ Q : f[i] = h.ifs[i]
  BY <1>2
<1>8. /\ \A q \in Pkts \ {p} : s[q] = h.pkt[q]
      /\ s[p] = [h.pkt[p] EXCEPT !.ref_count = @ + n, !.flood_queue_count = @ + n]
      /\ \A q \in Pkts : /\ s[q].rtr_id = h.pkt[q].rtr_id
                         /\ s[q].seq_no = h.pkt[q].seq_no
                         /\ s[q].flood_eligibility = h.pkt[q].flood_eligibility
                         /\ s[q].installed_in_db = h.pkt[q].installed_in_db
                         /\ s[q].expiry_timer = h.pkt[q].expiry_timer
  <2>1. /\ \A q \in Pkts \ {p} : s[q] = h.pkt[q]
        /\ s[p] = [h.pkt[p] EXCEPT !.ref_count = @ + n, !.flood_queue_count = @ + n]
        /\ h.pkt[p] \in Packets
    BY <1>1
  <2> HIDE DEF s
  <2>2. /\ s[p].rtr_id = h.pkt[p].rtr_id
        /\ s[p].seq_no = h.pkt[p].seq_no
        /\ s[p].flood_eligibility = h.pkt[p].flood_eligibility
        /\ s[p].installed_in_db = h.pkt[p].installed_in_db
        /\ s[p].expiry_timer = h.pkt[p].expiry_timer
    BY <2>1 DEF Packets
  <2> QED
    BY <2>1, <2>2
<1>9. /\ d.enabled = h.node.enabled /\ d.self_lsp_pkt = h.node.self_lsp_pkt
      /\ d.seq_no = h.node.seq_no /\ d.lsp_pkt_gen_task = h.node.lsp_pkt_gen_task
      /\ d.reconciliation_in_progress = h.node.reconciliation_in_progress
      /\ d.shutdown = h.node.shutdown
      /\ d.pending_lsp_flood_count = h.node.pending_lsp_flood_count + n
  BY <1>1 DEF Nodes
<1> HIDE DEF f, s, d
<1>10. /\ g \in Memory /\ g.pkt = s /\ g.node = d /\ g.ifs = f /\ g.db = h.db
       /\ g.ted = h.ted /\ g.highest = h.highest /\ g.crashed = h.crashed
  BY <1>3, <1>4, <1>5, <1>6 DEF Memory
<1>11. Keeps(g, h)
  BY <1>8, <1>9, <1>10 DEF Keeps
<1> QED
  BY <1>2, <1>7, <1>8, <1>9, <1>10, <1>11 DEF Queueing

\* An LSP that is put into queues has as many more references and copies, each of
\* which its interface will send.
LEMMA QueueSound ==
  ASSUME NEW h \in Memory, NEW J \in SUBSET Intfs, NEW p \in Pkts, NEW x \in [Pkts -> Int],
         NEW g, g = queue(h, J, p), Fits(h) => Sound(h, x), Fits(g)
  PROVE  g \in Memory /\ Keeps(g, h) /\ Fits(h) /\ Sound(g, x)
<1>1. PICK Q, n : Q = Takers(h, J, p) /\ n = Cardinality(Q)
  OBVIOUS
<1>2. /\ g \in Memory /\ Keeps(g, h) /\ g.crashed = h.crashed
      /\ n \in Nat /\ IsFiniteSet(Q) /\ Q \subseteq Intfs
      /\ g.node.pending_lsp_flood_count = h.node.pending_lsp_flood_count + n
      /\ \A q \in Pkts \ {p} : g.pkt[q] = h.pkt[q]
      /\ g.pkt[p] = [h.pkt[p] EXCEPT !.ref_count = @ + n, !.flood_queue_count = @ + n]
      /\ \A i \in Q : g.ifs[i] = [h.ifs[i] EXCEPT !.lsp_xmit_list[p] = @ + 1,
                                                  !.lsp_xmit_job = TRUE]
      /\ \A i \in Intfs \ Q : g.ifs[i] = h.ifs[i]
  <2>1. Queueing(g, h, p, Q, n)
    BY <1>1, QueueDoes
  <2> QED
    BY <2>1 DEF Queueing
<1>3. \A i \in Q : h.ifs[i].enabled
  BY <1>1 DEF Takers
<1>4. Fits(g)
  OBVIOUS
<1>5. h.pkt \in [Pkts -> Packets] /\ h.node \in Nodes /\ h.ifs \in [Intfs -> Ports]
  BY DEF Memory
<1>6. ASSUME NEW i \in Intfs
      PROVE  /\ g.ifs[i].enabled = h.ifs[i].enabled
             /\ h.ifs[i].lsp_xmit_list \in [Pkts -> Nat]
             /\ i \in Q => /\ g.ifs[i].lsp_xmit_list = [h.ifs[i].lsp_xmit_list EXCEPT ![p] = @ + 1]
                           /\ g.ifs[i].lsp_xmit_job
             /\ i \notin Q => g.ifs[i] = h.ifs[i]
  <2>1. h.ifs[i] \in Ports /\ h.ifs[i].lsp_xmit_list \in [Pkts -> Nat]
    BY <1>5 DEF Ports
  <2>2. CASE i \in Q
    <3>1. g.ifs[i] = [h.ifs[i] EXCEPT !.lsp_xmit_list[p] = @ + 1, !.lsp_xmit_job = TRUE]
      BY <1>2, <2>2
    <3>2. /\ g.ifs[i].lsp_xmit_list = [h.ifs[i].lsp_xmit_list EXCEPT ![p] = @ + 1]
          /\ g.ifs[i].lsp_xmit_job = TRUE
          /\ g.ifs[i].enabled = h.ifs[i].enabled
      BY <2>1, <3>1 DEF Ports
    <3> QED
      BY <2>1, <2>2, <3>2
  <2>3. CASE i \notin Q
    BY <1>2, <2>1, <2>3
  <2> QED
    BY <2>2, <2>3
<1>7. ASSUME NEW i \in Intfs, NEW q \in Pkts
      PROVE  /\ h.ifs[i].lsp_xmit_list[q] \in Nat
             /\ g.ifs[i].lsp_xmit_list[q] <= MaxQueue
             /\ g.ifs[i].lsp_xmit_list[q] =
                  IF i \in Q /\ q = p THEN h.ifs[i].lsp_xmit_list[q] + 1
                                      ELSE h.ifs[i].lsp_xmit_list[q]
  <2>1. h.ifs[i].lsp_xmit_list[q] \in Nat
    BY <1>6
  <2>2. g.ifs[i].lsp_xmit_list[q] <= MaxQueue
    BY <1>4 DEF Fits
  <2>3. CASE i \in Q
    <3>1. g.ifs[i].lsp_xmit_list = [h.ifs[i].lsp_xmit_list EXCEPT ![p] = @ + 1]
      BY <1>6, <2>3
    <3>2. h.ifs[i].lsp_xmit_list \in [Pkts -> Nat]
      BY <1>6
    <3> QED
      BY <2>1, <2>2, <2>3, <3>1, <3>2
  <2>4. CASE i \notin Q
    <3>1. g.ifs[i] = h.ifs[i]
      BY <1>6, <2>4
    <3> QED
      BY <2>1, <2>2, <2>4, <3>1
  <2> QED
    BY <2>3, <2>4
<1>8. Fits(h)
  <2>1. h.node.seq_no <= MaxSeq
    BY <1>2, <1>4 DEF Fits, Keeps
  <2>2. \A i \in Intfs, q \in Pkts : h.ifs[i].lsp_xmit_list[q] <= MaxQueue
    BY <1>7, LspDbAssumption
  <2> QED
    BY <2>1, <2>2 DEF Fits
<1>9. Sound(h, x)
  BY <1>8
<1>10. /\ InQueues(g.ifs, Intfs, Pkts) = InQueues(h.ifs, Intfs, Pkts) + n
      /\ InQueues(g.ifs, Intfs, {p}) = InQueues(h.ifs, Intfs, {p}) + n
  <2>1. ASSUME NEW S \in SUBSET Pkts, p \in S
        PROVE  InQueues(g.ifs, Intfs, S) = InQueues(h.ifs, Intfs, S) + Cardinality(Q)
    <3>1. Q \in SUBSET Intfs
      BY <1>2
    <3> QED
      <4>1. OneMore(g.ifs, h.ifs, Q, p)
        BY <1>7 DEF OneMore
      <4> QED
        BY <2>1, <3>1, <4>1, MoreCopies
  <2> QED
    BY <1>1, <2>1
<1>11. ASSUME NEW q \in Pkts \ {p}
       PROVE  InQueues(g.ifs, Intfs, {q}) = InQueues(h.ifs, Intfs, {q})
  BY <1>7, SameCopies
<1>12. Counted(g, x)
  <2> SUFFICES ASSUME NEW q \in Pkts
               PROVE  /\ g.pkt[q].ref_count =
                           Truth(g.pkt[q].installed_in_db) + Truth(g.node.self_lsp_pkt = q)
                             + InQueues(g.ifs, Intfs, {q}) + x[q]
                      /\ g.pkt[q].flood_queue_count = InQueues(g.ifs, Intfs, {q})
                      /\ g.pkt[q].ref_count > 0 <=> g.pkt[q] # Freed
    BY DEF Counted
  <2>1. /\ h.pkt[q].ref_count =
             Truth(h.pkt[q].installed_in_db) + Truth(h.node.self_lsp_pkt = q)
               + InQueues(h.ifs, Intfs, {q}) + x[q]
        /\ h.pkt[q].flood_queue_count = InQueues(h.ifs, Intfs, {q})
        /\ h.pkt[q].ref_count > 0 <=> h.pkt[q] # Freed
    BY <1>9 DEF Sound, Counted
  <2>2. g.node.self_lsp_pkt = h.node.self_lsp_pkt
    BY <1>2 DEF Keeps
  <2>3. CASE q # p
    BY <1>2, <1>11, <2>1, <2>2, <2>3
  <2>4. CASE q = p
    <3> DEFINE m == InQueues(h.ifs, Intfs, {p})
               d == Truth(h.pkt[p].installed_in_db)
               t == Truth(h.node.self_lsp_pkt = p)
    <3>1. h.pkt[p] \in Packets /\ n \in Nat /\ m \in Nat /\ x[p] \in Int
      BY <1>2, <1>5, CopiesFinite
    <3>2. d \in Nat /\ t \in Nat
      BY DEF Truth
    <3>3. /\ g.pkt[p].ref_count = h.pkt[p].ref_count + n
          /\ g.pkt[p].flood_queue_count = h.pkt[p].flood_queue_count + n
          /\ g.pkt[p].installed_in_db = h.pkt[p].installed_in_db
      BY <1>2, <3>1 DEF Packets
    <3>4. g.pkt[p].ref_count > 0 <=> g.pkt[p] # Freed
      <4>1. CASE n = 0
        <5>1. /\ h.pkt[p].ref_count + n = h.pkt[p].ref_count
              /\ h.pkt[p].flood_queue_count + n = h.pkt[p].flood_queue_count
          BY <3>1, <4>1 DEF Packets
        <5>2. g.pkt[p] = [h.pkt[p] EXCEPT !.ref_count = h.pkt[p].ref_count,
                                          !.flood_queue_count = h.pkt[p].flood_queue_count]
          BY <1>2, <5>1, <3>1 DEF Packets
        <5>3. g.pkt[p] = h.pkt[p]
          BY <3>1, <5>2 DEF Packets
        <5> QED
          BY <2>1, <2>4, <5>3
      <4>2. CASE n # 0
        BY <3>1, <3>3, <4>2 DEF Packets, Freed
      <4> QED
        BY <4>1, <4>2
    <3>5. h.pkt[p].ref_count = d + t + m + x[p] /\ h.pkt[p].flood_queue_count = m
      BY <2>1, <2>4
    <3>6. Truth(g.pkt[p].installed_in_db) = d /\ Truth(g.node.self_lsp_pkt = p) = t
      BY <2>2, <3>3
    <3> HIDE DEF d, t, m
    <3>7. InQueues(g.ifs, Intfs, {p}) = m + n
      BY <1>10 DEF m
    <3>8. g.pkt[p].ref_count = d + t + (m + n) + x[p] /\ g.pkt[p].flood_queue_count = m + n
      BY <3>1, <3>2, <3>3, <3>5
    <3> QED
      BY <2>4, <3>4, <3>6, <3>7, <3>8
  <2> QED
    BY <2>3, <2>4
<1>13. Queued(g)
  <2>1. g.node.pending_lsp_flood_count >= InQueues(g.ifs, Intfs, Pkts)
    <3>1. h.node.pending_lsp_flood_count \in Nat /\ InQueues(h.ifs, Intfs, Pkts) \in Nat
      BY <1>5, CopiesFinite DEF Nodes
    <3>2. h.node.pending_lsp_flood_count >= InQueues(h.ifs, Intfs, Pkts)
      BY <1>9 DEF Sound, Queued
    <3>3. /\ InQueues(g.ifs, Intfs, Pkts) = InQueues(h.ifs, Intfs, Pkts) + n
          /\ g.node.pending_lsp_flood_count = h.node.pending_lsp_flood_count + n
          /\ n \in Nat
      BY <1>2, <1>10
    <3> QED
      BY <3>1, <3>2, <3>3
  <2>2. ASSUME NEW i \in Intfs, ~g.ifs[i].enabled PROVE g.ifs[i] = Disabled
    BY <1>3, <1>6, <1>9, <2>2 DEF Sound, Queued
  <2>3. ASSUME NEW i \in Intfs
        PROVE  g.ifs[i].lsp_xmit_job <=> g.ifs[i].lsp_xmit_list # EmptyQueue
    <3>1. CASE i \in Q
      <4>1. g.ifs[i].lsp_xmit_list[p] # 0
        BY <1>7, <3>1
      <4>2. EmptyQueue[p] = 0
        BY DEF EmptyQueue
      <4>3. g.ifs[i].lsp_xmit_job
        BY <1>6, <3>1
      <4> QED
        BY <4>1, <4>2, <4>3
    <3>2. CASE i \notin Q
      BY <1>6, <1>9, <3>2 DEF Sound, Queued
    <3> QED
      BY <3>1, <3>2
  <2> QED
    BY <2>1, <2>2, <2>3 DEF Queued
<1>14. Numbers(g) /\ Agrees(g, {}) /\ Newer(g)
  BY <1>2, <1>9, Kept DEF Sound
<1> QED
  BY <1>2, <1>8, <1>9, <1>12, <1>13, <1>14 DEF Sound

\* Flooding leaves the router's own LSP as it is: what it queues is that one, or an
\* LSP of another router.
LEMMA QueueGood ==
  ASSUME NEW h, NEW J \in SUBSET Intfs, NEW p \in Pkts, NEW x \in [Pkts -> Int],
         NEW g, g = queue(h, J, p), Good(h, x),
         Fits(h) => h.pkt[p].rtr_id # Self \/ p = h.node.self_lsp_pkt
  PROVE  Good(g, x) /\ Keeps(g, h) /\ (Fits(g) => Fits(h))
<1>1. h \in Memory /\ h.node.enabled
  BY DEF Good
<1>2. PICK Q, n : Q = Takers(h, J, p) /\ n = Cardinality(Q)
  OBVIOUS
<1>3. Queueing(g, h, p, Q, n)
  BY <1>1, <1>2, QueueDoes
<1>4. g \in Memory /\ Keeps(g, h) /\ g.node.enabled
  BY <1>1, <1>3 DEF Queueing, Keeps
<1>5. ASSUME Fits(g) PROVE Fits(h) /\ Sound(g, x) /\ Current(g, x)
  <2>1. Fits(h) /\ Sound(g, x)
    <3>1. Fits(h) => Sound(h, x)
      BY DEF Good
    <3> QED
      BY <1>1, <1>5, <3>1, QueueSound
  <2>2. Current(h, x) /\ Agrees(h, {})
    BY <2>1 DEF Good, Sound
  <2>3. \A q \in Pkts : h.pkt[q].rtr_id = Self /\ h.pkt[q].ref_count = x[q]
                          /\ q # h.node.self_lsp_pkt
                          => g.pkt[q] = Freed \/ g.pkt[q].ref_count = x[q]
    BY <1>3, <2>1 DEF Queueing
  <2>4. Current(g, x)
    BY <1>1, <1>4, <2>2, <2>3, CurrentKept
  <2> QED
    BY <2>1, <2>4
<1> QED
  BY <1>4, <1>5 DEF Good

\* A handler that gives its own references back keeps what it needs.
LEMMA DerefGood ==
  ASSUME NEW h, NEW n \in [Pkts -> Nat], NEW x \in [Pkts -> Int],
         NEW y \in [Pkts -> Int], \A p \in Pkts : y[p] = x[p] - n[p],
         Good(h, x), NEW g, g = deref(h, n),
         Fits(h) => \A p \in Pkts : n[p] > 0 => Truth(h.node.self_lsp_pkt = p) + y[p] >= 0
  PROVE  Good(g, y) /\ g.node = h.node /\ g.ifs = h.ifs
         /\ (Fits(h) => Keeps(g, h)) /\ (Fits(g) => Fits(h))
<1>1. h \in Memory /\ h.node.enabled
  BY DEF Good
<1>2. /\ g \in Memory /\ g.node = h.node /\ g.ifs = h.ifs
      /\ \A p \in Pkts : g.pkt[p] =
              IF n[p] > 0 /\ h.pkt[p].ref_count <= n[p] THEN Freed
              ELSE [h.pkt[p] EXCEPT !.ref_count = @ - n[p]]
  <2>1. Dereferenced(g, h, n)
    BY <1>1, DerefDoes
  <2> QED
    BY <2>1 DEF Dereferenced
<1>3. Fits(g) => Fits(h)
  BY <1>2 DEF Fits
<1>4. ASSUME Fits(h) PROVE Keeps(g, h) /\ Sound(g, y) /\ Current(g, y)
  <2>1. Sound(h, x) /\ Current(h, x)
    BY <1>4 DEF Good
  <2>2. Sound(g, y) /\ Keeps(g, h)
    BY <1>1, <1>4, <2>1, DerefSound
  <2>3. ASSUME NEW p \in Pkts, h.pkt[p].ref_count = x[p]
        PROVE  g.pkt[p] = Freed \/ g.pkt[p].ref_count = y[p]
    <3>1. h.pkt[p] \in Packets
      BY <1>1 DEF Memory
    <3> QED
      <4>1. CASE n[p] > 0 /\ h.pkt[p].ref_count <= n[p]
        BY <1>2, <4>1
      <4>2. CASE ~(n[p] > 0 /\ h.pkt[p].ref_count <= n[p])
        <5>1. g.pkt[p] = [h.pkt[p] EXCEPT !.ref_count = @ - n[p]]
          BY <1>2, <4>2
        <5> QED
          BY <2>3, <3>1, <5>1 DEF Packets
      <4> QED
        BY <4>1, <4>2
  <2>4. Agrees(h, {})
    BY <2>1 DEF Sound
  <2>5. Current(g, y)
    BY <1>1, <1>2, <2>1, <2>2, <2>3, <2>4, CurrentKept
  <2> QED
    BY <2>2, <2>5
<1> QED
  BY <1>1, <1>2, <1>3, <1>4 DEF Good

\* deref_each gives up one reference to each LSP of S.
LEMMA EachDoes ==
  ASSUME NEW h, NEW S \in SUBSET Pkts
  PROVE  \E n \in [Pkts -> Nat] :
            /\ deref_each(h, S) = deref(h, n)
            /\ \A p \in Pkts : n[p] = IF p \in S THEN 1 ELSE 0
<1> DEFINE n == [p \in Pkts |-> IF p \in S THEN 1 ELSE 0]
<1>1. n \in [Pkts -> Nat] /\ \A p \in Pkts : n[p] = IF p \in S THEN 1 ELSE 0
  OBVIOUS
<1>2. deref_each(h, S) = deref(h, n)
  BY DEF deref_each
<1> HIDE DEF n
<1> QED
  BY <1>1, <1>2

-----------------------------------------------------------------------------
(* The database. *)

\* isis_ref_isis_pkt of an LSP that somebody holds.
Referenced(g, h, p) ==
  /\ Keeps(g, h)
  /\ g.node = h.node /\ g.ifs = h.ifs /\ g.crashed = h.crashed
  /\ \A q \in Pkts \ {p} : g.pkt[q] = h.pkt[q]
  /\ g.pkt[p] = [h.pkt[p] EXCEPT !.ref_count = @ + 1]

\* The new reference is the handler's.
LEMMA RefSound ==
  ASSUME NEW h \in Memory, NEW p \in Pkts, NEW x \in [Pkts -> Int],
         NEW y \in [Pkts -> Int], \A q \in Pkts : y[q] = IF q = p THEN x[q] + 1 ELSE x[q],
         Fits(h), Sound(h, x), h.pkt[p] # Freed, NEW g, g = ref(h, p)
  PROVE  g \in Memory /\ Fits(g) /\ Sound(g, y) /\ Referenced(g, h, p)
<1>1. h.pkt \in [Pkts -> Packets]
  BY DEF Memory
<1> DEFINE s == [h.pkt EXCEPT ![p].ref_count = @ + 1]
<1>2. /\ s \in [Pkts -> Packets]
      /\ \A q \in Pkts \ {p} : s[q] = h.pkt[q]
      /\ s[p] = [h.pkt[p] EXCEPT !.ref_count = @ + 1]
      /\ \A q \in Pkts : /\ s[q].rtr_id = h.pkt[q].rtr_id
                         /\ s[q].seq_no = h.pkt[q].seq_no
                         /\ s[q].flood_eligibility = h.pkt[q].flood_eligibility
                         /\ s[q].installed_in_db = h.pkt[q].installed_in_db
                         /\ s[q].expiry_timer = h.pkt[q].expiry_timer
                         /\ s[q].flood_queue_count = h.pkt[q].flood_queue_count
                         /\ s[q].ref_count = IF q = p THEN h.pkt[q].ref_count + 1
                                                      ELSE h.pkt[q].ref_count
  BY <1>1 DEF Packets
<1>3. g = [h EXCEPT !.pkt = s]
  BY DEF ref
<1> HIDE DEF s
<1>4. /\ g \in Memory /\ g.pkt = s /\ g.node = h.node /\ g.ifs = h.ifs /\ g.db = h.db
      /\ g.ted = h.ted /\ g.highest = h.highest /\ g.crashed = h.crashed
  BY <1>2, <1>3 DEF Memory
<1>5. Keeps(g, h)
  BY <1>2, <1>4 DEF Keeps
<1>6. Counted(g, y)
  <2> SUFFICES ASSUME NEW q \in Pkts
               PROVE  /\ s[q].ref_count =
                           Truth(s[q].installed_in_db) + Truth(h.node.self_lsp_pkt = q)
                             + InQueues(h.ifs, Intfs, {q}) + y[q]
                      /\ s[q].flood_queue_count = InQueues(h.ifs, Intfs, {q})
                      /\ s[q].ref_count > 0 <=> s[q] # Freed
    BY <1>4 DEF Counted
  <2> DEFINE m == InQueues(h.ifs, Intfs, {q})
             d == Truth(h.pkt[q].installed_in_db)
             t == Truth(h.node.self_lsp_pkt = q)
  <2>1. m \in Nat /\ d \in Nat /\ t \in Nat
    BY CopiesFinite DEF Truth
  <2>2. /\ h.pkt[q].ref_count = d + t + m + x[q] /\ h.pkt[q].flood_queue_count = m
        /\ h.pkt[q].ref_count > 0 <=> h.pkt[q] # Freed
    BY DEF Sound, Counted
  <2>3. Truth(s[q].installed_in_db) = d
    BY <1>2
  <2> HIDE DEF m, d, t
  <2>4. s[q].ref_count > 0 <=> s[q] # Freed
    <3>1. CASE q = p
      <4>1. h.pkt[p].ref_count \in Nat
        BY <1>1 DEF Packets
      <4>2. s[q].ref_count > 0
        BY <1>2, <3>1, <4>1
      <4> QED
        BY <4>2 DEF Freed
    <3>2. CASE q # p
      BY <1>2, <2>2, <3>2
    <3> QED
      BY <3>1, <3>2
  <2>5. s[q].ref_count = d + t + m + y[q]
    <3>1. x[q] \in Int /\ y[q] = IF q = p THEN x[q] + 1 ELSE x[q]
      OBVIOUS
    <3> QED
      BY <1>2, <2>1, <2>2, <3>1
  <2>6. s[q].flood_queue_count = m
    BY <1>2, <2>2
  <2> QED
    BY <2>3, <2>4, <2>5, <2>6 DEF m, t
<1>7. Fits(g) /\ Queued(g) /\ g.crashed # "assert"
  BY <1>4 DEF Fits, Sound, Queued
<1>8. Numbers(g) /\ Agrees(g, {}) /\ Newer(g)
  BY <1>4, <1>5, Kept DEF Sound
<1> QED
  BY <1>2, <1>4, <1>5, <1>6, <1>7, <1>8 DEF Sound, Referenced

\* isis_lsp_pkt_flood_eligibility: nothing but the LSP's eligibility changes.
Marked(g, h, p) ==
  /\ g \in Memory /\ g.node = h.node /\ g.ifs = h.ifs /\ g.db = h.db
  /\ g.ted = h.ted /\ g.highest = h.highest /\ g.crashed = h.crashed
  /\ \A q \in Pkts \ {p} : g.pkt[q] = h.pkt[q]
  /\ g.pkt[p] = [h.pkt[p] EXCEPT !.flood_eligibility = FALSE]

\* It changes that field alone.
LEMMA MarkDoes ==
  ASSUME NEW h \in Memory, NEW p \in Pkts
  PROVE  Marked(mark_ineligible(h, p), h, p)
<1> DEFINE s == [h.pkt EXCEPT ![p].flood_eligibility = FALSE]
<1>1. h.pkt \in [Pkts -> Packets]
  BY DEF Memory
<1>2. /\ s \in [Pkts -> Packets] /\ \A q \in Pkts \ {p} : s[q] = h.pkt[q]
      /\ s[p] = [h.pkt[p] EXCEPT !.flood_eligibility = FALSE]
  BY <1>1 DEF Packets
<1>3. mark_ineligible(h, p) = [h EXCEPT !.pkt = s]
  BY DEF mark_ineligible
<1> HIDE DEF s
<1> QED
  BY <1>2, <1>3 DEF Memory, Marked

\* An LSP that may not be flooded any more is as sound as before.
LEMMA MarkSound ==
  ASSUME NEW h \in Memory, NEW p \in Pkts, NEW x, Fits(h), Sound(h, x),
         NEW g, g = mark_ineligible(h, p)
  PROVE  g \in Memory /\ Fits(g) /\ Sound(g, x) /\ Marked(g, h, p)
<1>1. Marked(g, h, p)
  BY MarkDoes
<1>2. h.pkt \in [Pkts -> Packets]
  BY DEF Memory
<1>3. ASSUME NEW q \in Pkts
      PROVE  /\ g.pkt[q].rtr_id = h.pkt[q].rtr_id
             /\ g.pkt[q].seq_no = h.pkt[q].seq_no
             /\ g.pkt[q].installed_in_db = h.pkt[q].installed_in_db
             /\ g.pkt[q].expiry_timer = h.pkt[q].expiry_timer
             /\ g.pkt[q].flood_queue_count = h.pkt[q].flood_queue_count
             /\ g.pkt[q].ref_count = h.pkt[q].ref_count
  BY <1>1, <1>2 DEF Marked, Packets
<1>4. /\ g \in Memory /\ g.node = h.node /\ g.ifs = h.ifs /\ g.db = h.db
      /\ g.ted = h.ted /\ g.highest = h.highest /\ g.crashed = h.crashed
  BY <1>1 DEF Marked
<1>5. ASSUME NEW q \in Pkts PROVE g.pkt[q].ref_count > 0 <=> g.pkt[q] # Freed
  <2>1. h.pkt[q].ref_count > 0 <=> h.pkt[q] # Freed
    BY DEF Sound, Counted
  <2>2. CASE h.pkt[q] = Freed
    <3>1. [Freed EXCEPT !.flood_eligibility = FALSE] = Freed
      <4>1. Freed \in Packets /\ Freed.flood_eligibility = FALSE
        BY FreedIs DEF Freed
      <4> QED
        BY <4>1 DEF Packets
    <3>2. g.pkt[q] = Freed
      BY <1>1, <2>2, <3>1 DEF Marked
    <3> QED
      BY <1>3, <2>1, <2>2, <3>2
  <2>3. CASE h.pkt[q] # Freed
    <3>1. g.pkt[q].ref_count > 0
      BY <1>3, <2>1, <2>3
    <3>2. Freed.ref_count = 0
      BY DEF Freed
    <3> QED
      BY <2>1, <2>3, <3>1, <3>2
  <2> QED
    BY <2>2, <2>3
<1>6. Counted(g, x)
  <2>1. Counted(h, x)
    BY DEF Sound
  <2> QED
    BY <1>3, <1>4, <1>5, <2>1 DEF Counted
<1>7. Fits(g) /\ Queued(g) /\ Numbers(g) /\ g.crashed # "assert"
  BY <1>3, <1>4 DEF Fits, Sound, Queued, Numbers
<1>8. Agrees(g, {})
  <2>1. Agrees(h, {})
    BY DEF Sound
  <2>2. \A r \in Rtrs : h.db[r] # NULL => h.db[r] \in Pkts
    BY DEF Memory
  <2> QED
    BY <1>3, <1>4, <2>1, <2>2 DEF Agrees
<1>9. Newer(g)
  <2>1. \A r \in Rtrs : h.db[r] # NULL => h.db[r] \in Pkts
    BY DEF Memory
  <2>2. Newer(h)
    BY DEF Sound
  <2> QED
    BY <1>3, <1>4, <2>1, <2>2 DEF Newer
<1> QED
  BY <1>1, <1>4, <1>6, <1>7, <1>8, <1>9 DEF Sound

\* What is left when LSPs leave the database: only those that were in it change.
Removed(g, h, S) ==
  /\ g \in Memory /\ g.node = h.node /\ g.ifs = h.ifs /\ g.highest = h.highest
  /\ \A r \in Rtrs : g.db[r] = IF h.db[r] \in S THEN NULL ELSE h.db[r]
  /\ \A p \in Pkts : p \notin S \/ ~h.pkt[p].installed_in_db => g.pkt[p] = h.pkt[p]
  /\ \A p \in Pkts : \/ g.pkt[p] = Freed
                     \/ /\ g.pkt[p].rtr_id = h.pkt[p].rtr_id
                        /\ g.pkt[p].seq_no = h.pkt[p].seq_no
                        /\ g.pkt[p].flood_eligibility = h.pkt[p].flood_eligibility

\* isis_remove_lsp_pkt_from_lspdb: the timer is stopped before the reference is given
\* up, so that no assertion of isis_deref_isis_pkt fails.
LEMMA RemoveSound ==
  ASSUME NEW h \in Memory, NEW S \in SUBSET Pkts, NEW x \in [Pkts -> Int], Fits(h),
         h.crashed # "assert", Counted(h, x), Queued(h), Numbers(h), Agrees(h, S), Newer(h),
         \A p \in S : h.pkt[p].installed_in_db
                        => Truth(h.node.self_lsp_pkt = p) + x[p] >= 0,
         NEW g, g = remove(h, S)
  PROVE  g \in Memory /\ Fits(g) /\ Sound(g, x) /\ Removed(g, h, S)
<1> DEFINE D == {p \in S : h.pkt[p].installed_in_db}
           P == [p \in Pkts |-> IF p \in D
                   THEN [h.pkt[p] EXCEPT !.installed_in_db = FALSE] ELSE h.pkt[p]]
           B == [r \in Rtrs |-> IF h.db[r] \in D THEN NULL ELSE h.db[r]]
           T == [r \in Nbrs |-> IF \E p \in D : h.pkt[p].rtr_id = r
                                THEN "absent" ELSE h.ted[r]]
           m == [h EXCEPT !.pkt = P, !.db = B, !.ted = T]
           l == late_job(m, D)
           U == [p \in Pkts |-> IF p \in D
                   THEN [m.pkt[p] EXCEPT !.expiry_timer = "NULL"] ELSE m.pkt[p]]
           t == [l EXCEPT !.pkt = U]
<1>1. /\ h.pkt \in [Pkts -> Packets] /\ h.db \in [Rtrs -> Pkts \union {NULL}]
      /\ h.ted \in [Nbrs -> {"absent", "fake", "real"}]
  BY DEF Memory
<1>2. /\ P \in [Pkts -> Packets] /\ B \in [Rtrs -> Pkts \union {NULL}]
      /\ T \in [Nbrs -> {"absent", "fake", "real"}]
  <2> HIDE DEF D
  <2>1. ASSUME NEW p \in Pkts
        PROVE  [h.pkt[p] EXCEPT !.installed_in_db = FALSE] \in Packets
    <3>1. h.pkt[p] \in Packets
      BY <1>1
    <3> QED
      BY <3>1 DEF Packets
  <2> QED
    BY <1>1, <2>1
<1>3. D \subseteq Pkts /\ D \subseteq S
  OBVIOUS
<1>4. \A p \in Pkts : p \in D <=> p \in S /\ h.pkt[p].installed_in_db
  OBVIOUS
<1>5. g = deref_each(t, D)
  BY DEF remove, stop_timers
<1>6. /\ \A r \in Rtrs : B[r] = IF h.db[r] \in D THEN NULL ELSE h.db[r]
      /\ \A r \in Nbrs : T[r] = IF \E p \in D : h.pkt[p].rtr_id = r
                                THEN "absent" ELSE h.ted[r]
      /\ \A p \in Pkts : P[p] = IF p \in D
                   THEN [h.pkt[p] EXCEPT !.installed_in_db = FALSE] ELSE h.pkt[p]
  OBVIOUS
<1> HIDE DEF D, P, B, T
<1>7. /\ m \in Memory /\ m.pkt = P /\ m.db = B /\ m.ted = T /\ m.node = h.node
      /\ m.ifs = h.ifs /\ m.highest = h.highest /\ m.crashed = h.crashed
  BY <1>2 DEF Memory
<1> HIDE DEF m
<1>8. /\ U \in [Pkts -> Packets]
      /\ \A p \in Pkts : U[p] = IF p \in D THEN [P[p] EXCEPT !.expiry_timer = "NULL"] ELSE P[p]
  <2>1. \A p \in Pkts : [P[p] EXCEPT !.expiry_timer = "NULL"] \in Packets
    BY <1>2 DEF Packets
  <2> QED
    BY <1>2, <1>7, <2>1
<1> HIDE DEF U
<1>9. ASSUME NEW p \in Pkts
      PROVE  /\ U[p].rtr_id = h.pkt[p].rtr_id /\ U[p].seq_no = h.pkt[p].seq_no
             /\ U[p].flood_eligibility = h.pkt[p].flood_eligibility
             /\ U[p].ref_count = h.pkt[p].ref_count
             /\ U[p].flood_queue_count = h.pkt[p].flood_queue_count
             /\ p \in D => ~U[p].installed_in_db /\ U[p].expiry_timer = "NULL"
             /\ p \notin D => U[p] = h.pkt[p]
  <2>1. h.pkt[p] \in Packets
    BY <1>1
  <2>2. CASE p \in D
    <3>1. U[p] = [[h.pkt[p] EXCEPT !.installed_in_db = FALSE] EXCEPT !.expiry_timer = "NULL"]
      BY <1>6, <1>8, <2>2
    <3> QED
      BY <2>1, <2>2, <3>1 DEF Packets
  <2>3. CASE p \notin D
    BY <1>6, <1>8, <2>3
  <2> QED
    BY <2>2, <2>3
<1>10. /\ l \in Memory /\ l.db = B /\ l.ted = T /\ l.node = h.node
       /\ l.ifs = h.ifs /\ l.highest = h.highest /\ l.crashed \in {h.crashed, "freed"}
  <2> DEFINE late == \E p \in D : m.pkt[p].expiry_timer = "expired"
  <2>1. l = fails(m, late, "freed") /\ late \in BOOLEAN
    BY DEF late_job
  <2> HIDE DEF late, l
  <2>2. Failed(l, m, late, "freed")
    BY <1>7, <2>1, FailsDoes
  <2> QED
    BY <1>7, <2>2 DEF Failed
<1> HIDE DEF l
<1>11. /\ t \in Memory /\ t.pkt = U /\ t.db = B /\ t.ted = T /\ t.node = h.node
       /\ t.ifs = h.ifs /\ t.highest = h.highest /\ t.crashed \in {h.crashed, "freed"}
  BY <1>8, <1>10 DEF Memory
<1> HIDE DEF t
<1> DEFINE y == [p \in Pkts |-> IF p \in D THEN x[p] + 1 ELSE x[p]]
<1>12. y \in [Pkts -> Int] /\ \A p \in Pkts : y[p] = IF p \in D THEN x[p] + 1 ELSE x[p]
  OBVIOUS
<1> HIDE DEF y
<1>13. Counted(t, y)
  <2>1. ASSUME NEW p \in Pkts
        PROVE  /\ U[p].ref_count =
                    Truth(U[p].installed_in_db) + Truth(h.node.self_lsp_pkt = p)
                      + InQueues(h.ifs, Intfs, {p}) + y[p]
               /\ U[p].flood_queue_count = InQueues(h.ifs, Intfs, {p})
               /\ U[p].ref_count > 0 <=> U[p] # Freed
    <3> DEFINE k == InQueues(h.ifs, Intfs, {p})
               s == Truth(h.node.self_lsp_pkt = p)
    <3>1. k \in Nat /\ s \in Nat /\ x[p] \in Int
      BY CopiesFinite DEF Truth
    <3>2. /\ h.pkt[p].ref_count = Truth(h.pkt[p].installed_in_db) + s + k + x[p]
          /\ h.pkt[p].flood_queue_count = k
          /\ h.pkt[p].ref_count > 0 <=> h.pkt[p] # Freed
      BY DEF Counted
    <3>3. p \in D => s + x[p] >= 0
      BY <1>3, <1>4
    <3> HIDE DEF k, s
    <3>4. CASE p \in D
      <4>1. h.pkt[p].installed_in_db /\ ~U[p].installed_in_db
        BY <1>4, <1>9, <3>4
      <4>2. Truth(h.pkt[p].installed_in_db) = 1 /\ Truth(U[p].installed_in_db) = 0
        BY <4>1 DEF Truth
      <4>3. U[p].ref_count = 1 + s + k + x[p] /\ y[p] = x[p] + 1
        BY <1>9, <1>12, <3>2, <3>4, <4>2
      <4>4. U[p].ref_count = 0 + s + k + y[p] /\ U[p].ref_count > 0
        BY <3>1, <3>3, <3>4, <4>3
      <4>5. U[p] # Freed
        BY <4>4 DEF Freed
      <4> QED
        BY <1>9, <3>2, <4>2, <4>4, <4>5 DEF k, s
    <3>5. CASE p \notin D
      <4>1. U[p] = h.pkt[p] /\ y[p] = x[p]
        BY <1>9, <1>12, <3>5
      <4> QED
        BY <3>2, <4>1 DEF k, s
    <3> QED
      BY <3>4, <3>5
  <2>2. /\ \A p \in Pkts : t.pkt[p] = U[p]
        /\ t.node = h.node /\ t.ifs = h.ifs
    BY <1>11
  <2> QED
    BY ONLY <2>1, <2>2 DEF Counted
<1>14. Fits(t) /\ Queued(t) /\ t.crashed # "assert"
  BY <1>11 DEF Fits, Queued
<1>15. Numbers(t)
  BY <1>9, <1>11 DEF Numbers
<1>16. \A r \in Rtrs : h.db[r] \in D => B[r] = NULL
  BY <1>6
<1>17. \A r \in Rtrs : h.db[r] \notin D => B[r] = h.db[r]
  BY <1>6
<1>18. Agrees(t, {})
  <2>1. ASSUME NEW p \in Pkts PROVE U[p].installed_in_db <=> \E r \in Rtrs : B[r] = p
    <3>1. h.pkt[p].installed_in_db <=> \E r \in Rtrs : h.db[r] = p
      BY DEF Agrees
    <3>2. CASE p \in D
      <4>1. ~U[p].installed_in_db
        BY <1>9, <3>2
      <4>2. \A r \in Rtrs : B[r] # p
        BY <1>16, <1>17, <3>2, Nulls
      <4> QED
        BY <4>1, <4>2
    <3>3. CASE p \notin D
      <4>1. U[p] = h.pkt[p]
        BY <1>9, <3>3
      <4>2. \A r \in Rtrs : B[r] = p <=> h.db[r] = p
        BY <1>16, <1>17, <3>3, Nulls
      <4> QED
        BY <3>1, <4>1, <4>2
    <3> QED
      BY <3>2, <3>3
  <2>2. ASSUME NEW p \in Pkts, U[p].expiry_timer # "NULL"
        PROVE  U[p].installed_in_db /\ U[p].rtr_id # Self
    BY <1>9, <2>2 DEF Agrees
  <2>3. ASSUME NEW p \in Pkts, U[p].installed_in_db, U[p].rtr_id # Self
        PROVE  U[p].expiry_timer # "NULL"
    <3>1. p \notin D /\ U[p] = h.pkt[p]
      BY <1>9, <2>3
    <3>2. p \notin S
      BY <1>4, <2>3, <3>1
    <3> QED
      BY <2>3, <3>1, <3>2 DEF Agrees
  <2>4. ASSUME NEW r \in Rtrs, B[r] # NULL
        PROVE  B[r] = h.db[r] /\ h.db[r] \in Pkts /\ U[B[r]].rtr_id = r
    <3>1. B[r] = h.db[r]
      BY <1>16, <1>17, <2>4
    <3>2. h.db[r] \in Pkts
      BY <1>1, <2>4, <3>1
    <3>3. h.pkt[h.db[r]].rtr_id = r
      BY <2>4, <3>1 DEF Agrees
    <3> QED
      BY <1>9, <3>1, <3>2, <3>3
  <2>5. ASSUME NEW r \in Nbrs PROVE T[r] = "real" <=> r \in Rtrs /\ B[r] # NULL
    <3>1. h.ted[r] = "real" <=> r \in Rtrs /\ h.db[r] # NULL
      BY DEF Agrees
    <3>2. CASE \E p \in D : h.pkt[p].rtr_id = r
      <4>1. PICK p \in D : h.pkt[p].rtr_id = r
        BY <3>2
      <4>2. h.pkt[p].installed_in_db
        BY <1>3, <1>4, <4>1
      <4>3. PICK s \in Rtrs : h.db[s] = p
        BY <1>3, <4>2 DEF Agrees
      <4>4. s = r
        BY <1>3, <4>1, <4>3, Nulls DEF Agrees
      <4>5. B[r] = NULL
        BY <1>16, <4>1, <4>3, <4>4
      <4>6. T[r] = "absent"
        BY <1>6, <3>2
      <4> QED
        BY <4>5, <4>6
    <3>3. CASE ~(\E p \in D : h.pkt[p].rtr_id = r)
      <4>1. T[r] = h.ted[r]
        BY <1>6, <3>3
      <4>2. ASSUME r \in Rtrs, h.db[r] # NULL PROVE B[r] = h.db[r]
        <5>1. h.pkt[h.db[r]].rtr_id = r
          BY <4>2 DEF Agrees
        <5>2. h.db[r] \notin D
          BY <3>3, <5>1
        <5> QED
          BY <1>17, <4>2, <5>2
      <4>3. ASSUME r \in Rtrs, h.db[r] = NULL PROVE B[r] = NULL
        BY <1>16, <1>17, <4>3
      <4> QED
        BY <3>1, <4>1, <4>2, <4>3
    <3> QED
      BY <3>2, <3>3
  <2> QED
    BY <1>11, <2>1, <2>2, <2>3, <2>4, <2>5 DEF Agrees
<1>19. Newer(t)
  <2>1. ASSUME NEW r \in Rtrs, db[r] # NULL, B[r] # NULL
        PROVE  U[B[r]].seq_no >= pkt[db[r]].seq_no
    <3>1. B[r] = h.db[r] /\ h.db[r] \in Pkts
      BY <1>1, <1>16, <1>17, <2>1
    <3>2. h.pkt[h.db[r]].seq_no >= pkt[db[r]].seq_no
      BY <2>1, <3>1 DEF Newer
    <3> QED
      BY <1>9, <3>1, <3>2
  <2> QED
    BY <1>11, <2>1 DEF Newer
<1>20. Sound(t, y)
  BY <1>13, <1>14, <1>15, <1>18, <1>19 DEF Sound
<1>21. PICK n \in [Pkts -> Nat] : /\ deref_each(t, D) = deref(t, n)
                                  /\ \A p \in Pkts : n[p] = IF p \in D THEN 1 ELSE 0
  BY <1>3, EachDoes
<1>22. \A p \in Pkts : x[p] = y[p] - n[p]
  BY <1>12, <1>21
<1>23. \A p \in Pkts : n[p] > 0 => Truth(t.node.self_lsp_pkt = p) + x[p] >= 0
  BY <1>3, <1>4, <1>11, <1>21
<1>24. g \in Memory /\ Fits(g) /\ Sound(g, x) /\ Keeps(g, t)
  <2>1. g = deref(t, n)
    BY <1>5, <1>21
  <2>2. t \in Memory /\ Fits(t)
    BY <1>11, <1>14
  <2>3. /\ deref(t, n) \in Memory /\ Fits(deref(t, n)) /\ Sound(deref(t, n), x)
        /\ Keeps(deref(t, n), t)
    BY <1>12, <1>20, <1>22, <1>23, <2>2, DerefSound
  <2> QED
    BY <2>1, <2>3
<1>25. Dereferenced(g, t, n)
  BY <1>5, <1>11, <1>21, DerefDoes
<1>26. Removed(g, h, S)
  <2>1. g.node = h.node /\ g.ifs = h.ifs /\ g.highest = h.highest /\ g.db = B
    BY <1>11, <1>25 DEF Dereferenced
  <2>2. ASSUME NEW r \in Rtrs
        PROVE  g.db[r] = IF h.db[r] \in S THEN NULL ELSE h.db[r]
    <3>1. ASSUME h.db[r] \in S PROVE h.db[r] \in D
      BY <1>4, <3>1 DEF Agrees
    <3>2. ASSUME h.db[r] \in D PROVE h.db[r] \in S
      BY <1>3, <3>2
    <3> QED
      BY <1>16, <1>17, <2>1, <3>1, <3>2
  <2>3. ASSUME NEW p \in Pkts, p \notin D PROVE g.pkt[p] = h.pkt[p]
    <3>1. g.pkt[p] = [U[p] EXCEPT !.ref_count = @ - 0]
      BY <1>11, <1>21, <1>25, <2>3 DEF Dereferenced
    <3>2. U[p] = h.pkt[p] /\ h.pkt[p] \in Packets
      BY <1>1, <1>9, <2>3
    <3>3. h.pkt[p].ref_count - 0 = h.pkt[p].ref_count
      BY <3>2 DEF Packets
    <3>4. g.pkt[p] = [h.pkt[p] EXCEPT !.ref_count = h.pkt[p].ref_count]
      BY <3>1, <3>2, <3>3
    <3> QED
      BY <3>2, <3>4 DEF Packets
  <2>4. ASSUME NEW p \in Pkts
        PROVE  \/ g.pkt[p] = Freed
               \/ /\ g.pkt[p].rtr_id = h.pkt[p].rtr_id
                  /\ g.pkt[p].seq_no = h.pkt[p].seq_no
                  /\ g.pkt[p].flood_eligibility = h.pkt[p].flood_eligibility
    BY <1>9, <1>11, <1>24 DEF Keeps
  <2>5. \A p \in Pkts : p \notin S \/ ~h.pkt[p].installed_in_db => g.pkt[p] = h.pkt[p]
    BY <1>4, <2>3
  <2> QED
    BY <1>24, <2>1, <2>2, <2>4, <2>5 DEF Removed
<1> QED
  BY <1>24, <1>26

\* What isis_add_lsp_pkt_in_lspdb leaves, for an LSP of the router r.
Added(g, h, p, r) ==
  /\ g \in Memory /\ g.node = h.node /\ g.ifs = h.ifs /\ g.highest = h.highest
  /\ g.crashed = h.crashed
  /\ \A s \in Rtrs : g.db[s] = IF s = r THEN p ELSE h.db[s]
  /\ \A q \in Pkts \ {p} : g.pkt[q] = h.pkt[q]
  /\ g.pkt[p].rtr_id = r /\ g.pkt[p].seq_no = h.pkt[p].seq_no
  /\ g.pkt[p].flood_eligibility = h.pkt[p].flood_eligibility

\* isis_add_lsp_pkt_in_lspdb of an LSP that somebody holds, when its router has none
\* in the database.
LEMMA AddSound ==
  ASSUME NEW h \in Memory, NEW p \in Pkts, NEW r \in Rtrs, NEW nbrs,
         NEW x \in [Pkts -> Int], Fits(h), Sound(h, x),
         h.pkt[p].rtr_id = r, ~h.pkt[p].installed_in_db, h.pkt[p] # Freed,
         h.db[r] = NULL, db[r] # NULL => h.pkt[p].seq_no >= pkt[db[r]].seq_no,
         NEW g, g = add(h, p, nbrs)
  PROVE  g \in Memory /\ Fits(g) /\ Sound(g, x) /\ Added(g, h, p, r)
<1> DEFINE B == [h.db EXCEPT ![r] = IF @ = NULL THEN p ELSE @]
           T == ted_install(h.ted, r, nbrs)
           e == IF r = Self THEN h.pkt[p].expiry_timer ELSE start_timer(h.pkt[p].expiry_timer)
           P == [h.pkt EXCEPT ![p].installed_in_db = TRUE, ![p].expiry_timer = e]
           m == [h EXCEPT !.db = B, !.ted = T, !.pkt = P]
<1>1. /\ h.pkt \in [Pkts -> Packets] /\ h.db \in [Rtrs -> Pkts \union {NULL}]
      /\ h.ted \in [Nbrs -> {"absent", "fake", "real"}]
  BY DEF Memory
<1>2. B \in [Rtrs -> Pkts \union {NULL}] /\ \A s \in Rtrs : B[s] = IF s = r THEN p ELSE h.db[s]
  BY <1>1
<1>3. /\ T \in [Nbrs -> {"absent", "fake", "real"}]
      /\ \A s \in Nbrs : T[s] = "real" <=> s = r \/ h.ted[s] = "real"
  BY <1>1 DEF ted_install
<1>4. h.pkt[p] \in Packets /\ h.pkt[p].expiry_timer = "NULL"
  BY <1>1 DEF Sound, Agrees, Packets
<1>5. e = IF r = Self THEN "NULL" ELSE "running"
  BY <1>4 DEF start_timer
<1> HIDE DEF e
<1>6. /\ P \in [Pkts -> Packets] /\ \A q \in Pkts \ {p} : P[q] = h.pkt[q]
      /\ P[p] = [h.pkt[p] EXCEPT !.installed_in_db = TRUE, !.expiry_timer = e]
  <2>1. e \in {"NULL", "running", "expired"}
    BY <1>5
  <2>2. [h.pkt[p] EXCEPT !.installed_in_db = TRUE, !.expiry_timer = e] \in Packets
    BY <1>4, <2>1 DEF Packets
  <2>3. P = [h.pkt EXCEPT ![p] = [h.pkt[p] EXCEPT !.installed_in_db = TRUE, !.expiry_timer = e]]
    BY <1>1, <1>4 DEF Packets
  <2> QED
    BY <1>1, <2>2, <2>3
<1>7. /\ P[p].rtr_id = r /\ P[p].seq_no = h.pkt[p].seq_no
      /\ P[p].flood_eligibility = h.pkt[p].flood_eligibility
      /\ P[p].installed_in_db = TRUE /\ P[p].expiry_timer = e
      /\ P[p].ref_count = h.pkt[p].ref_count
      /\ P[p].flood_queue_count = h.pkt[p].flood_queue_count
  BY <1>4, <1>6 DEF Packets
<1>8. g = ref(m, p)
  <2>1. h = [pkt |-> h.pkt, db |-> h.db, ted |-> h.ted, node |-> h.node, ifs |-> h.ifs,
             highest |-> h.highest, crashed |-> h.crashed]
    BY DEF Memory
  <2>2. g = ref([h EXCEPT !.db[r] = IF @ = NULL THEN p ELSE @,
                     !.ted = ted_install(@, r, nbrs),
                     !.pkt[p].installed_in_db = TRUE,
                     !.pkt[p].expiry_timer = IF r = Self THEN @ ELSE start_timer(@)], p)
    BY DEF add
  <2>3. [h EXCEPT !.db[r] = IF @ = NULL THEN p ELSE @,
                     !.ted = ted_install(@, r, nbrs),
                     !.pkt[p].installed_in_db = TRUE,
                     !.pkt[p].expiry_timer = IF r = Self THEN @ ELSE start_timer(@)] = m
    BY <2>1, ZenonT(40) DEF e
  <2> QED
    BY <2>2, <2>3
<1> HIDE DEF B, T, P
<1>9. /\ m \in Memory /\ m.pkt = P /\ m.db = B /\ m.ted = T /\ m.node = h.node
      /\ m.ifs = h.ifs /\ m.highest = h.highest /\ m.crashed = h.crashed
  BY <1>2, <1>3, <1>6 DEF Memory
<1> HIDE DEF m
<1> DEFINE y == [q \in Pkts |-> IF q = p THEN x[q] - 1 ELSE x[q]]
<1>10. y \in [Pkts -> Int] /\ \A q \in Pkts : y[q] = IF q = p THEN x[q] - 1 ELSE x[q]
  OBVIOUS
<1> HIDE DEF y
<1>11. Counted(m, y)
  <2> SUFFICES ASSUME NEW q \in Pkts
               PROVE  /\ P[q].ref_count =
                           Truth(P[q].installed_in_db) + Truth(h.node.self_lsp_pkt = q)
                             + InQueues(h.ifs, Intfs, {q}) + y[q]
                      /\ P[q].flood_queue_count = InQueues(h.ifs, Intfs, {q})
                      /\ P[q].ref_count > 0 <=> P[q] # Freed
    BY <1>9 DEF Counted
  <2> DEFINE k == InQueues(h.ifs, Intfs, {q})
             s == Truth(h.node.self_lsp_pkt = q)
  <2>1. k \in Nat /\ s \in Nat /\ x[q] \in Int
    BY CopiesFinite DEF Truth
  <2>2. /\ h.pkt[q].ref_count = Truth(h.pkt[q].installed_in_db) + s + k + x[q]
        /\ h.pkt[q].flood_queue_count = k
        /\ h.pkt[q].ref_count > 0 <=> h.pkt[q] # Freed
    BY DEF Sound, Counted
  <2> HIDE DEF k, s
  <2>3. CASE q = p
    <3>1. Truth(h.pkt[q].installed_in_db) = 0 /\ Truth(P[q].installed_in_db) = 1
      BY <1>7, <2>3 DEF Truth
    <3>2. P[q].ref_count = 0 + s + k + x[q] /\ y[q] = x[q] - 1
      BY <1>7, <1>10, <2>2, <2>3, <3>1
    <3>3. P[q].ref_count = 1 + s + k + y[q]
      BY <2>1, <3>2
    <3>4. P[q].ref_count > 0
      BY <1>7, <2>2, <2>3
    <3>5. Freed.ref_count = 0
      BY DEF Freed
    <3>6. P[q] # Freed
      BY <3>4, <3>5
    <3> QED
      BY <1>7, <2>2, <2>3, <3>1, <3>3, <3>4, <3>6 DEF k, s
  <2>4. CASE q # p
    BY <1>6, <1>10, <2>2, <2>4 DEF k, s
  <2> QED
    BY <2>3, <2>4
<1>12. Fits(m) /\ Queued(m) /\ m.crashed # "assert"
  BY <1>9 DEF Fits, Sound, Queued
<1>13. Numbers(m)
  BY <1>6, <1>7, <1>9 DEF Sound, Numbers
<1>14. Agrees(m, {})
  <2>1. Agrees(h, {})
    BY DEF Sound
  <2>2. ASSUME NEW q \in Pkts PROVE P[q].installed_in_db <=> \E s \in Rtrs : B[s] = q
    <3>1. CASE q = p
      BY <1>2, <1>7, <3>1
    <3>2. CASE q # p
      <4>1. \A s \in Rtrs : B[s] = q <=> h.db[s] = q
        BY <1>2, <3>2, Nulls
      <4>2. h.pkt[q].installed_in_db <=> \E s \in Rtrs : h.db[s] = q
        BY <2>1 DEF Agrees
      <4> QED
        BY <1>6, <3>2, <4>1, <4>2
    <3> QED
      BY <3>1, <3>2
  <2>3. ASSUME NEW q \in Pkts, P[q].expiry_timer # "NULL"
        PROVE  P[q].installed_in_db /\ P[q].rtr_id # Self
    <3>1. CASE q = p
      BY <1>5, <1>7, <2>3, <3>1
    <3>2. CASE q # p
      BY <1>6, <2>1, <2>3, <3>2 DEF Agrees
    <3> QED
      BY <3>1, <3>2
  <2>4. ASSUME NEW q \in Pkts, P[q].installed_in_db, P[q].rtr_id # Self
        PROVE  P[q].expiry_timer # "NULL"
    <3>1. CASE q = p
      BY <1>5, <1>7, <2>4, <3>1
    <3>2. CASE q # p
      BY <1>6, <2>1, <2>4, <3>2 DEF Agrees
    <3> QED
      BY <3>1, <3>2
  <2>5. ASSUME NEW s \in Rtrs, B[s] # NULL PROVE P[B[s]].rtr_id = s
    <3>1. CASE s = r
      BY <1>2, <1>7, <3>1
    <3>2. CASE s # r
      <4>1. B[s] = h.db[s] /\ h.db[s] \in Pkts
        BY <1>1, <1>2, <2>5, <3>2
      <4>2. h.pkt[h.db[s]].rtr_id = s
        BY <2>1, <2>5, <4>1 DEF Agrees
      <4> QED
        BY <1>6, <3>2, <4>1, <4>2
    <3> QED
      BY <3>1, <3>2
  <2>6. \A s \in Nbrs : T[s] = "real" <=> s \in Rtrs /\ B[s] # NULL
    BY <1>2, <1>3, <2>1, Nulls DEF Agrees
  <2> QED
    BY <1>9, <2>2, <2>3, <2>4, <2>5, <2>6 DEF Agrees
<1>15. Newer(m)
  <2>1. ASSUME NEW s \in Rtrs, db[s] # NULL, B[s] # NULL
        PROVE  P[B[s]].seq_no >= pkt[db[s]].seq_no
    <3>1. CASE s = r
      BY <1>2, <1>7, <2>1, <3>1
    <3>2. CASE s # r
      <4>1. B[s] = h.db[s] /\ h.db[s] \in Pkts
        BY <1>1, <1>2, <2>1, <3>2
      <4>2. h.pkt[h.db[s]].seq_no >= pkt[db[s]].seq_no
        BY <2>1, <4>1 DEF Sound, Newer
      <4>3. P[h.db[s]].seq_no = h.pkt[h.db[s]].seq_no
        BY <1>6, <1>7, <4>1
      <4> QED
        BY <4>1, <4>2, <4>3
    <3> QED
      BY <3>1, <3>2
  <2> QED
    BY <1>9, <2>1 DEF Newer
<1>16. Sound(m, y)
  BY <1>11, <1>12, <1>13, <1>14, <1>15 DEF Sound
<1>17. m.pkt[p] # Freed
  <2>1. P[p].installed_in_db = TRUE /\ Freed.installed_in_db = FALSE
    BY <1>7 DEF Freed
  <2> QED
    BY <1>9, <2>1
<1>18. \A q \in Pkts : x[q] = IF q = p THEN y[q] + 1 ELSE y[q]
  BY <1>10
<1>19. /\ g \in Memory /\ Fits(g) /\ Sound(g, x) /\ Keeps(g, m)
       /\ g.node = m.node /\ g.ifs = m.ifs /\ g.crashed = m.crashed
       /\ \A q \in Pkts \ {p} : g.pkt[q] = m.pkt[q]
       /\ g.pkt[p] = [m.pkt[p] EXCEPT !.ref_count = @ + 1]
  <2>1. g \in Memory /\ Fits(g) /\ Sound(g, x) /\ Referenced(g, m, p)
    BY <1>8, <1>9, <1>10, <1>12, <1>16, <1>17, <1>18, RefSound
  <2> QED
    BY <2>1 DEF Referenced
<1>20. g.db = B /\ g.highest = h.highest
  BY <1>9, <1>19 DEF Keeps
<1>21. /\ g.pkt[p].rtr_id = r /\ g.pkt[p].seq_no = h.pkt[p].seq_no
       /\ g.pkt[p].flood_eligibility = h.pkt[p].flood_eligibility
  BY <1>6, <1>7, <1>9, <1>19 DEF Packets
<1>22. Added(g, h, p, r)
  BY <1>2, <1>6, <1>9, <1>19, <1>20, <1>21 DEF Added
<1> QED
  BY <1>19, <1>22

-----------------------------------------------------------------------------
(* Transmit queues that are sent or purged. *)

\* Emptied queues take their copies with them.
LEMMA FewerCopies ==
  ASSUME NEW f, NEW g, NEW J \in SUBSET Intfs, NEW S \in SUBSET Pkts,
         \A i \in J, p \in S : g[i].lsp_xmit_list[p] = 0,
         \A i \in Intfs \ J, p \in S : g[i].lsp_xmit_list[p] = f[i].lsp_xmit_list[p]
  PROVE  InQueues(f, Intfs, S) = InQueues(g, Intfs, S) + InQueues(f, J, S)
<1> DEFINE K == Intfs \ J
<1>1. J \union K = Intfs /\ J \cap K = {} /\ K \in SUBSET Intfs
  OBVIOUS
<1> HIDE DEF K
<1>2. /\ InQueues(f, Intfs, S) = InQueues(f, J, S) + InQueues(f, K, S)
      /\ InQueues(g, Intfs, S) = InQueues(g, J, S) + InQueues(g, K, S)
  <2>1. /\ InQueues(f, J \union K, S) = InQueues(f, J, S) + InQueues(f, K, S)
        /\ InQueues(g, J \union K, S) = InQueues(g, J, S) + InQueues(g, K, S)
    BY <1>1, SplitCopies
  <2> QED
    BY <1>1, <2>1
<1>3. InQueues(g, J, S) = 0
  <2>1. \A i \in J, p \in S : g[i].lsp_xmit_list[p] \in 0..MaxQueue
    BY LspDbAssumption
  <2> QED
    BY <2>1, NoCopies
<1>4. InQueues(g, K, S) = InQueues(f, K, S)
  BY <1>1, SameCopies DEF K
<1>5. /\ InQueues(f, J, S) \in Nat /\ InQueues(f, K, S) \in Nat
  BY <1>1, CopiesFinite
<1> QED
  BY <1>2, <1>3, <1>4, <1>5

\* What the loop over the transmit queues of J leaves.
Emptied(g, h, J) ==
  /\ Keeps(g, h) /\ g.node = h.node
  /\ \A i \in J : g.ifs[i] = [h.ifs[i] EXCEPT !.lsp_xmit_list = EmptyQueue,
                                              !.lsp_xmit_job = FALSE]
  /\ \A i \in Intfs \ J : g.ifs[i] = h.ifs[i]
  /\ InQueues(h.ifs, Intfs, Pkts) = InQueues(g.ifs, Intfs, Pkts) + InQueues(h.ifs, J, Pkts)

\* The loop over a transmit queue gives up as many references to an LSP as the queue
\* has copies of it, and never more than the LSP counts.
LEMMA EmptySound ==
  ASSUME NEW h \in Memory, NEW J \in SUBSET Intfs, NEW x \in [Pkts -> Int],
         Fits(h), Sound(h, x),
         \A p \in Pkts : Truth(h.node.self_lsp_pkt = p) + x[p] >= 0,
         NEW g, g = empty(h, J)
  PROVE  g \in Memory /\ Fits(g) /\ Sound(g, x) /\ Emptied(g, h, J)
<1> DEFINE n == [p \in Pkts |-> InQueues(h.ifs, J, {p})]
           bad == \E p \in Pkts : h.pkt[p].flood_queue_count < n[p]
           P == [p \in Pkts |-> [h.pkt[p] EXCEPT !.flood_queue_count = @ - n[p]]]
           F == emptied(h.ifs, J)
           m == [fails(h, bad, "assert") EXCEPT !.pkt = P, !.ifs = F]
<1>1. g = deref(m, n)
  BY DEF empty
<1>2. h.pkt \in [Pkts -> Packets] /\ h.ifs \in [Intfs -> Ports]
  BY DEF Memory
<1>3. n \in [Pkts -> Nat] /\ \A p \in Pkts : n[p] = InQueues(h.ifs, J, {p})
  BY CopiesFinite
<1>4. \A p \in Pkts : P[p] = [h.pkt[p] EXCEPT !.flood_queue_count = @ - n[p]]
  OBVIOUS
<1>5. P \in [Pkts -> Packets] <=> \A p \in Pkts : P[p] \in Packets
  OBVIOUS
<1> HIDE DEF n, P
<1>6. \A p \in Pkts : h.ifs \in [Intfs -> Ports]
  BY <1>2
<1>7. /\ \A i \in J : F[i] = [h.ifs[i] EXCEPT !.lsp_xmit_list = EmptyQueue,
                                              !.lsp_xmit_job = FALSE]
      /\ \A i \in Intfs \ J : F[i] = h.ifs[i]
      /\ F \in [Intfs -> Ports]
  <2>1. EmptyQueue \in [Pkts -> Nat]
    BY DEF EmptyQueue
  <2>2. ASSUME NEW i \in Intfs
        PROVE  [h.ifs[i] EXCEPT !.lsp_xmit_list = EmptyQueue, !.lsp_xmit_job = FALSE] \in Ports
    <3>1. h.ifs[i] \in Ports
      BY <1>2
    <3> QED
      BY <2>1, <3>1 DEF Ports
  <2> QED
    BY <1>2, <2>2 DEF emptied
<1> HIDE DEF F
<1>8. ASSUME NEW i \in Intfs
      PROVE  /\ F[i].enabled = h.ifs[i].enabled /\ F[i].adjacency = h.ifs[i].adjacency
             /\ i \in J => ~F[i].lsp_xmit_job /\ F[i].lsp_xmit_list = EmptyQueue
             /\ i \notin J => F[i] = h.ifs[i]
  <2>1. h.ifs[i] \in Ports
    BY <1>2
  <2>2. CASE i \in J
    <3>1. F[i] = [h.ifs[i] EXCEPT !.lsp_xmit_list = EmptyQueue, !.lsp_xmit_job = FALSE]
      BY <1>7, <2>2
    <3> QED
      BY <2>1, <2>2, <3>1 DEF Ports
  <2> QED
    BY <1>7, <2>2
<1>9. ASSUME NEW S \in SUBSET Pkts
      PROVE  InQueues(h.ifs, Intfs, S) = InQueues(F, Intfs, S) + InQueues(h.ifs, J, S)
  <2>1. \A i \in J, p \in S : F[i].lsp_xmit_list[p] = 0
    BY <1>8 DEF EmptyQueue
  <2>2. \A i \in Intfs \ J, p \in S : F[i].lsp_xmit_list[p] = h.ifs[i].lsp_xmit_list[p]
    BY <1>8
  <2> QED
    BY <2>1, <2>2, FewerCopies
<1>10. ASSUME NEW p \in Pkts
       PROVE  /\ InQueues(F, Intfs, {p}) \in Nat
              /\ InQueues(h.ifs, Intfs, {p}) = InQueues(F, Intfs, {p}) + n[p]
              /\ h.pkt[p].flood_queue_count = InQueues(h.ifs, Intfs, {p})
              /\ n[p] \in Nat
  <2>1. {p} \in SUBSET Pkts
    OBVIOUS
  <2>2. InQueues(F, Intfs, {p}) \in Nat
    BY <2>1, CopiesFinite
  <2>3. InQueues(h.ifs, Intfs, {p}) = InQueues(F, Intfs, {p}) + n[p]
    BY <1>3, <1>9, <2>1
  <2> QED
    BY <1>3, <2>2, <2>3 DEF Sound, Counted
<1>11. ~bad
  <2>1. ASSUME NEW p \in Pkts PROVE ~(h.pkt[p].flood_queue_count < n[p])
    <3>1. /\ h.pkt[p].flood_queue_count = InQueues(F, Intfs, {p}) + n[p]
          /\ InQueues(F, Intfs, {p}) \in Nat /\ n[p] \in Nat
      BY <1>10
    <3> QED
      BY <3>1
  <2> QED
    BY <2>1
<1>12. m = [h EXCEPT !.pkt = P, !.ifs = F]
  <2>1. fails(h, bad, "assert") = h
    BY <1>11 DEF fails
  <2> QED
    BY <2>1
<1> HIDE DEF m, bad
<1>13. ASSUME NEW p \in Pkts
       PROVE  /\ P[p] \in Packets
              /\ P[p].rtr_id = h.pkt[p].rtr_id
              /\ P[p].seq_no = h.pkt[p].seq_no
              /\ P[p].flood_eligibility = h.pkt[p].flood_eligibility
              /\ P[p].installed_in_db = h.pkt[p].installed_in_db
              /\ P[p].expiry_timer = h.pkt[p].expiry_timer
              /\ P[p].ref_count = h.pkt[p].ref_count
              /\ P[p].flood_queue_count = InQueues(F, Intfs, {p})
  <2>1. h.pkt[p] \in Packets
    BY <1>2
  <2>2. h.pkt[p].flood_queue_count - n[p] = InQueues(F, Intfs, {p})
    BY <1>10
  <2>3. P[p] = [h.pkt[p] EXCEPT !.flood_queue_count = InQueues(F, Intfs, {p})]
    BY <1>4, <2>2
  <2> QED
    BY <1>10, <2>1, <2>3 DEF Packets
<1>14. P \in [Pkts -> Packets]
  BY <1>5, <1>13
<1>15. /\ m \in Memory /\ m.pkt = P /\ m.db = h.db /\ m.ted = h.ted /\ m.node = h.node
       /\ m.ifs = F /\ m.highest = h.highest /\ m.crashed = h.crashed
  BY <1>7, <1>12, <1>14 DEF Memory
<1>16. Keeps(m, h)
  BY <1>13, <1>15 DEF Keeps
<1> DEFINE y == [p \in Pkts |-> x[p] + n[p]]
<1>17. y \in [Pkts -> Int] /\ (\A p \in Pkts : y[p] = x[p] + n[p] /\ x[p] = y[p] - n[p])
  BY <1>3
<1> HIDE DEF y
<1>18. Counted(m, y)
  <2> SUFFICES ASSUME NEW p \in Pkts
               PROVE  /\ P[p].ref_count =
                           Truth(P[p].installed_in_db) + Truth(h.node.self_lsp_pkt = p)
                             + InQueues(F, Intfs, {p}) + y[p]
                      /\ P[p].flood_queue_count = InQueues(F, Intfs, {p})
                      /\ P[p].ref_count > 0 <=> P[p] # Freed
    BY <1>15 DEF Counted
  <2> DEFINE k == InQueues(F, Intfs, {p})
             s == Truth(h.node.self_lsp_pkt = p)
             d == Truth(h.pkt[p].installed_in_db)
  <2>1. k \in Nat /\ s \in Nat /\ d \in Nat /\ x[p] \in Int /\ n[p] \in Nat
        /\ InQueues(h.ifs, Intfs, {p}) = k + n[p] /\ y[p] = x[p] + n[p] /\ s + x[p] >= 0
    BY <1>10, <1>17 DEF Truth
  <2>2. /\ h.pkt[p].ref_count = d + s + InQueues(h.ifs, Intfs, {p}) + x[p]
        /\ h.pkt[p].ref_count > 0 <=> h.pkt[p] # Freed
    BY DEF Sound, Counted
  <2>3. P[p].ref_count = h.pkt[p].ref_count /\ Truth(P[p].installed_in_db) = d
        /\ P[p].flood_queue_count = k
    BY <1>13
  <2> HIDE DEF k, s, d
  <2>4. P[p].ref_count = d + s + k + y[p]
    BY <2>1, <2>2, <2>3
  <2>5. P[p].ref_count > 0 <=> P[p] # Freed
    <3>1. CASE h.pkt[p] = Freed
      <4>1. h.pkt[p].ref_count = 0
        BY <3>1 DEF Freed
      <4>2. k = 0
        BY <2>1, <2>2, <4>1
      <4>3. n[p] = 0
        BY <2>1, <2>2, <4>1
      <4>4. h.pkt[p].flood_queue_count = 0
        BY <3>1 DEF Freed
      <4>5. 0 - n[p] = 0
        BY <4>3
      <4>6. P[p] = [Freed EXCEPT !.flood_queue_count = 0]
        BY <1>4, <3>1, <4>4, <4>5
      <4>7. [Freed EXCEPT !.flood_queue_count = 0] = Freed
        <5>1. Freed \in Packets /\ Freed.flood_queue_count = 0
          BY FreedIs DEF Freed
        <5> QED
          BY <5>1 DEF Packets
      <4> QED
        BY <2>3, <4>1, <4>6, <4>7
    <3>2. CASE h.pkt[p] # Freed
      <4>1. P[p].ref_count > 0
        BY <2>2, <2>3, <3>2
      <4>2. Freed.ref_count = 0
        BY DEF Freed
      <4> QED
        BY <2>2, <2>3, <3>2, <4>1, <4>2
    <3> QED
      BY <3>1, <3>2
  <2> QED
    BY <2>3, <2>4, <2>5 DEF k, s
<1>19. Queued(m)
  <2>1. Queued(h)
    BY DEF Sound
  <2>2. h.node.pending_lsp_flood_count >= InQueues(F, Intfs, Pkts)
    <3>1. /\ InQueues(h.ifs, Intfs, Pkts) = InQueues(F, Intfs, Pkts) + InQueues(h.ifs, J, Pkts)
          /\ InQueues(F, Intfs, Pkts) \in Nat /\ InQueues(h.ifs, J, Pkts) \in Nat
      BY <1>9, CopiesFinite
    <3>2. h.node.pending_lsp_flood_count >= InQueues(h.ifs, Intfs, Pkts)
          /\ h.node.pending_lsp_flood_count \in Nat
      BY <2>1 DEF Queued, Memory, Nodes
    <3> QED
      BY <3>1, <3>2
  <2>3. ASSUME NEW i \in Intfs, ~F[i].enabled PROVE F[i] = Disabled
    <3>1. h.ifs[i] = Disabled
      BY <1>8, <2>1, <2>3 DEF Queued
    <3>2. CASE i \in J
      <4>1. F[i] = [Disabled EXCEPT !.lsp_xmit_list = EmptyQueue, !.lsp_xmit_job = FALSE]
        BY <1>7, <3>1, <3>2
      <4> QED
        BY <4>1 DEF Disabled
    <3>3. CASE i \notin J
      BY <1>8, <3>1, <3>3
    <3> QED
      BY <3>2, <3>3
  <2>4. \A i \in Intfs : F[i].lsp_xmit_job <=> F[i].lsp_xmit_list # EmptyQueue
    BY <1>8, <2>1 DEF Queued
  <2> QED
    BY <1>15, <2>2, <2>3, <2>4 DEF Queued
<1>20. Fits(m)
  <2>1. \A i \in Intfs, p \in Pkts : F[i].lsp_xmit_list[p] <= MaxQueue
    BY <1>8, LspDbAssumption DEF Fits, EmptyQueue
  <2> QED
    BY <1>15, <2>1 DEF Fits
<1>21. Numbers(m) /\ Agrees(m, {}) /\ Newer(m)
  BY <1>15, <1>16, Kept DEF Sound
<1>22. Sound(m, y)
  BY <1>15, <1>18, <1>19, <1>21 DEF Sound
<1>23. \A p \in Pkts : n[p] > 0 => Truth(m.node.self_lsp_pkt = p) + x[p] >= 0
  BY <1>15
<1>24. g \in Memory /\ Fits(g) /\ Sound(g, x) /\ Keeps(g, m)
  <2>1. /\ deref(m, n) \in Memory /\ Fits(deref(m, n)) /\ Sound(deref(m, n), x)
        /\ Keeps(deref(m, n), m)
    BY <1>3, <1>15, <1>17, <1>20, <1>22, <1>23, DerefSound
  <2> QED
    BY <1>1, <2>1
<1>25. g.ifs = F /\ g.node = h.node
  <2>1. Dereferenced(g, m, n)
    BY <1>1, <1>3, <1>15, DerefDoes
  <2> QED
    BY <1>15, <2>1 DEF Dereferenced
<1>26. Keeps(g, h)
  <2>1. ASSUME NEW p \in Pkts
        PROVE  \/ g.pkt[p] = Freed /\ ~h.pkt[p].installed_in_db
               \/ /\ g.pkt[p].rtr_id = h.pkt[p].rtr_id
                  /\ g.pkt[p].seq_no = h.pkt[p].seq_no
                  /\ g.pkt[p].flood_eligibility = h.pkt[p].flood_eligibility
                  /\ g.pkt[p].installed_in_db = h.pkt[p].installed_in_db
                  /\ g.pkt[p].expiry_timer = h.pkt[p].expiry_timer
    <3>1. CASE g.pkt[p] = Freed /\ ~m.pkt[p].installed_in_db
      BY <1>13, <1>15, <3>1
    <3>2. CASE ~(g.pkt[p] = Freed /\ ~m.pkt[p].installed_in_db)
      <4>1. /\ g.pkt[p].rtr_id = m.pkt[p].rtr_id
            /\ g.pkt[p].seq_no = m.pkt[p].seq_no
            /\ g.pkt[p].flood_eligibility = m.pkt[p].flood_eligibility
            /\ g.pkt[p].installed_in_db = m.pkt[p].installed_in_db
            /\ g.pkt[p].expiry_timer = m.pkt[p].expiry_timer
        BY <1>24, <3>2 DEF Keeps
      <4> QED
        BY <1>13, <1>15, <4>1
    <3> QED
      BY <3>1, <3>2
  <2> QED
    BY <1>15, <1>24, <1>25, <2>1 DEF Keeps
<1>27. InQueues(h.ifs, Intfs, Pkts) = InQueues(F, Intfs, Pkts) + InQueues(h.ifs, J, Pkts)
  BY <1>9
<1> QED
  BY <1>7, <1>24, <1>25, <1>26, <1>27 DEF Emptied

-----------------------------------------------------------------------------
(* The inductive invariant, and how a handler gives it back. *)

\* Without the protocol nothing is left of it.
Stopped ==
  ~node.enabled => /\ node = Off
                   /\ \A i \in Intfs : ifs[i] = Disabled
                   /\ \A r \in Rtrs : db[r] = NULL

\* The inductive invariant.
IInv == QueuesSound /\ DbSound /\ Stopped

\* No reference but those of the database, the node and the queues.
Zero == [p \in Pkts |-> 0]

\* How the process may end but for a failing assertion.
Ends == {"no", "ted", "timer", "null", "freed"}

\* Nothing is allocated, installed or queued: after isis_init, isis_protocol_shutdown_now
\* and a crash.
Fresh ==
  /\ pkt = [p \in Pkts |-> Freed]
  /\ db = [r \in Rtrs |-> NULL]
  /\ ted \in [Nbrs -> {"absent", "fake"}]
  /\ node \in {Off, Started}
  /\ ifs = [i \in Intfs |-> Disabled]
  /\ highest \in 0..MaxSeq
  /\ crashed \in Ends

\* The invariant holds of such a state.
LEMMA FreshSound ==
  ASSUME Fresh
  PROVE  IInv
<1>1. /\ \A p \in Pkts : pkt[p] = Freed
      /\ \A r \in Rtrs : db[r] = NULL
      /\ \A r \in Nbrs : ted[r] # "real"
      /\ \A i \in Intfs : ifs[i] = Disabled
      /\ node = Off \/ node = Started
  BY DEF Fresh
<1>2. /\ Started.enabled /\ Started.self_lsp_pkt = NULL /\ Started.seq_no = 0
      /\ Started.lsp_pkt_gen_task /\ Started.pending_lsp_flood_count = 0
      /\ ~Off.enabled /\ Off.self_lsp_pkt = NULL /\ Off.pending_lsp_flood_count = 0
      /\ Off \in NodeFields /\ Started \in NodeFields
  <2>1. Off \in NodeFields
    BY LspDbAssumption DEF Off, NodeFields
  <2>2. /\ Off.self_lsp_pkt = NULL /\ Off.seq_no = 0 /\ Off.pending_lsp_flood_count = 0
        /\ ~Off.enabled
    BY DEF Off
  <2>3. /\ Started \in NodeFields /\ Started.enabled = TRUE
        /\ Started.lsp_pkt_gen_task = TRUE
        /\ Started.self_lsp_pkt = Off.self_lsp_pkt /\ Started.seq_no = Off.seq_no
        /\ Started.pending_lsp_flood_count = Off.pending_lsp_flood_count
    BY <2>1 DEF Started, NodeFields
  <2> QED
    BY <2>1, <2>2, <2>3
<1>3. /\ Freed \in PktFields /\ Freed.ref_count = 0 /\ Freed.flood_queue_count = 0
      /\ ~Freed.installed_in_db /\ Freed.expiry_timer = "NULL" /\ Freed.rtr_id = NULL
  BY LspDbAssumption DEF Freed, PktFields
<1>4. EmptyQueue \in [Pkts -> 0..MaxQueue] /\ \A p \in Pkts : EmptyQueue[p] = 0
  BY LspDbAssumption DEF EmptyQueue
<1>5. /\ Disabled \in IntfFields /\ ~Disabled.lsp_xmit_job
      /\ Disabled.lsp_xmit_list = EmptyQueue
  BY <1>4 DEF Disabled, IntfFields
<1>6. TypeOK
  BY <1>2, <1>3, <1>5, Nulls DEF Fresh, TypeOK, Ends
<1>7. ASSUME NEW S \in SUBSET Pkts PROVE InQueues(ifs, Intfs, S) = 0
  <2>1. \A i \in Intfs, p \in S : ifs[i].lsp_xmit_list[p] = 0
    BY <1>1, <1>4, <1>5
  <2>2. \A i \in Intfs, p \in S : ifs[i].lsp_xmit_list[p] \in 0..MaxQueue
    BY <2>1, LspDbAssumption
  <2> QED
    BY <2>1, <2>2, NoCopies
<1>8. node.self_lsp_pkt = NULL /\ node.pending_lsp_flood_count = 0
  BY <1>1, <1>2
<1>9. CountsExact
  <2>1. ASSUME NEW p \in Pkts
        PROVE  LET n == InQueues(ifs, Intfs, {p}) IN
               /\ pkt[p].ref_count =
                    Truth(pkt[p].installed_in_db) + Truth(node.self_lsp_pkt = p) + n
               /\ pkt[p].flood_queue_count = n
               /\ pkt[p].ref_count > 0 <=> pkt[p] # Freed
    <3>1. InQueues(ifs, Intfs, {p}) = 0
      BY <1>7
    <3>2. Truth(pkt[p].installed_in_db) = 0 /\ Truth(node.self_lsp_pkt = p) = 0
      BY <1>1, <1>3, <1>8, Nulls DEF Truth
    <3> QED
      BY <1>1, <1>3, <3>1, <3>2
  <2>2. node.pending_lsp_flood_count >= InQueues(ifs, Intfs, Pkts)
    BY <1>7, <1>8
  <2> QED
    BY <1>1, <2>1, <2>2 DEF CountsExact
<1>10. QueuesServed /\ AssertsHold
  BY <1>1, <1>5 DEF QueuesServed, AssertsHold, Fresh, Ends
<1>11. DbConsistent
  BY <1>1, <1>3, Nulls DEF DbConsistent
<1>12. OwnLspCurrent
  BY <1>1, <1>2, <1>3, Nulls DEF OwnLspCurrent
<1>13. Stopped
  BY <1>1, <1>2 DEF Stopped
<1> QED
  BY <1>6, <1>9, <1>10, <1>11, <1>12, <1>13 DEF IInv, QueuesSound, DbSound

\* The state is one that a handler may start from.
LEMMA NowSound ==
  ASSUME IInv
  PROVE  /\ Now \in Memory /\ Fits(Now) /\ Sound(Now, Zero)
         /\ node.enabled => Current(Now, Zero)
<1> DEFINE h == Now
<1>1. /\ h.pkt = pkt /\ h.db = db /\ h.ted = ted /\ h.node = node
      /\ h.ifs = ifs /\ h.highest = highest /\ h.crashed = crashed
  BY DEF Now
<1>2. TypeOK
  BY DEF IInv, QueuesSound
<1>3. pkt \in [Pkts -> Packets] /\ \A p \in Pkts : pkt[p].seq_no <= MaxSeq
  BY <1>2, LspDbAssumption DEF TypeOK, PktFields, Packets
<1>4. node \in Nodes /\ node.seq_no <= MaxSeq
  BY <1>2, LspDbAssumption DEF TypeOK, NodeFields, Nodes
<1>5. ifs \in [Intfs -> Ports] /\ \A i \in Intfs, p \in Pkts : ifs[i].lsp_xmit_list[p] <= MaxQueue
  <2>1. ASSUME NEW i \in Intfs
        PROVE  ifs[i] \in Ports /\ ifs[i].lsp_xmit_list \in [Pkts -> 0..MaxQueue]
    <3>1. ifs[i] \in IntfFields
      BY <1>2 DEF TypeOK
    <3>2. [Pkts -> 0..MaxQueue] \subseteq [Pkts -> Nat]
      BY LspDbAssumption
    <3> QED
      BY <3>1, <3>2 DEF IntfFields, Ports
  <2>2. \A i \in Intfs, p \in Pkts : ifs[i].lsp_xmit_list[p] <= MaxQueue
    BY <2>1, LspDbAssumption
  <2>3. ifs \in [Intfs -> IntfFields]
    BY <1>2 DEF TypeOK
  <2> QED
    BY <2>1, <2>2, <2>3
<1>6. h \in Memory
  BY <1>1, <1>2, <1>3, <1>4, <1>5, LspDbAssumption DEF TypeOK, Memory, Now
<1> HIDE DEF h
<1>7. Fits(h)
  BY <1>1, <1>4, <1>5 DEF Fits
<1>8. Counted(h, Zero)
  <2> SUFFICES ASSUME NEW p \in Pkts
               PROVE  /\ pkt[p].ref_count =
                           Truth(pkt[p].installed_in_db) + Truth(node.self_lsp_pkt = p)
                             + InQueues(ifs, Intfs, {p}) + Zero[p]
                      /\ pkt[p].flood_queue_count = InQueues(ifs, Intfs, {p})
                      /\ pkt[p].ref_count > 0 <=> pkt[p] # Freed
    BY <1>1 DEF Counted
  <2> DEFINE k == InQueues(ifs, Intfs, {p})
  <2>1. /\ pkt[p].ref_count =
              Truth(pkt[p].installed_in_db) + Truth(node.self_lsp_pkt = p) + k
        /\ pkt[p].flood_queue_count = k
        /\ pkt[p].ref_count > 0 <=> pkt[p] # Freed
    BY DEF IInv, QueuesSound, CountsExact
  <2>2. Zero[p] = 0 /\ k \in Nat
    BY CopiesFinite DEF Zero
  <2>3. Truth(pkt[p].installed_in_db) \in Nat /\ Truth(node.self_lsp_pkt = p) \in Nat
    BY DEF Truth
  <2> QED
    BY <2>1, <2>2, <2>3
<1>9. Queued(h) /\ Numbers(h) /\ h.crashed # "assert"
  BY <1>1, <1>2, <1>3, LspDbAssumption
     DEF IInv, QueuesSound, CountsExact, QueuesServed, AssertsHold, Queued, Numbers, TypeOK
<1>10. Agrees(h, {})
  BY <1>1 DEF IInv, DbSound, DbConsistent, Agrees
<1>11. Newer(h)
  <2>1. \A r \in Rtrs : db[r] # NULL => pkt[db[r]].seq_no \in Nat
    BY <1>2, <1>3 DEF TypeOK, Packets
  <2> QED
    BY <1>1, <2>1 DEF Newer
<1>12. ASSUME node.enabled PROVE Current(h, Zero)
  BY <1>1, <1>12 DEF IInv, DbSound, OwnLspCurrent, Current
<1> QED
  BY <1>6, <1>7, <1>8, <1>9, <1>10, <1>11, <1>12 DEF Sound, h

\* The step of NewestWins.
Newest ==
  \A r \in Rtrs : db[r] # NULL /\ db'[r] # NULL
                    => pkt'[db'[r]].seq_no >= pkt[db[r]].seq_no

\* A crash leaves nothing of the process.
LEMMA CrashFresh ==
  ASSUME NEW h, highest \in 0..MaxSeq, Becomes(h), h.crashed \in Ends, h.crashed # "no"
  PROVE  Fresh' /\ Newest /\ crashed' # "no"
  BY Nulls DEF Becomes, Fresh, Newest, Ends

\* The step ends in h.
Reached(h) ==
  /\ pkt' = h.pkt /\ db' = h.db /\ ted' = h.ted /\ node' = h.node
  /\ ifs' = h.ifs /\ highest' = h.highest /\ crashed' = h.crashed

\* What a handler leaves when it has given its references back.
LEMMA Arrives ==
  ASSUME NEW h, Fits(h), Good(h, Zero), Reached(h), h.crashed = "no"
  PROVE  IInv' /\ Newest /\ node'.enabled
<1>1. Fits(h)
  OBVIOUS
<1>2. h \in Memory /\ h.node.enabled /\ Sound(h, Zero) /\ Current(h, Zero)
  BY DEF Good
<1>3. h.crashed = "no"
  OBVIOUS
<1>4. /\ pkt' = h.pkt /\ db' = h.db /\ ted' = h.ted /\ node' = h.node
      /\ ifs' = h.ifs /\ highest' = h.highest /\ crashed' = h.crashed
  BY DEF Reached
<1>5. TypeOK'
  <2>1. h.pkt \in [Pkts -> PktFields]
    <3>1. ASSUME NEW p \in Pkts PROVE h.pkt[p] \in PktFields
      <4>1. h.pkt[p] \in Packets /\ h.pkt[p].seq_no <= MaxSeq
        BY <1>2 DEF Memory, Sound, Numbers
      <4> QED
        BY <4>1, LspDbAssumption DEF Packets, PktFields
    <3> QED
      BY <1>2, <3>1 DEF Memory
  <2>2. h.node \in NodeFields
    <3>1. h.node \in Nodes /\ h.node.seq_no <= MaxSeq
      BY <1>1, <1>2 DEF Memory, Fits
    <3> QED
      BY <3>1, LspDbAssumption DEF Nodes, NodeFields
  <2>3. h.ifs \in [Intfs -> IntfFields]
    <3>1. ASSUME NEW i \in Intfs PROVE h.ifs[i] \in IntfFields
      <4>1. h.ifs[i] \in Ports
        BY <1>2 DEF Memory
      <4>2. h.ifs[i].lsp_xmit_list \in [Pkts -> Nat]
        BY <4>1 DEF Ports
      <4>3. \A p \in Pkts : h.ifs[i].lsp_xmit_list[p] \in 0..MaxQueue
        BY <1>1, <4>2, LspDbAssumption DEF Fits
      <4>4. h.ifs[i].lsp_xmit_list \in [Pkts -> 0..MaxQueue]
        BY <4>2, <4>3
      <4> QED
        BY <4>1, <4>4 DEF Ports, IntfFields
    <3> QED
      BY <1>2, <3>1 DEF Memory
  <2>4. h.highest \in 0..MaxSeq
    BY <1>2, LspDbAssumption DEF Memory, Sound, Numbers
  <2>5. /\ h.db \in [Rtrs -> Pkts \union {NULL}]
        /\ h.ted \in [Nbrs -> {"absent", "fake", "real"}]
    BY <1>2 DEF Memory
  <2> QED
    BY <1>3, <1>4, <2>1, <2>2, <2>3, <2>4, <2>5 DEF TypeOK
<1>6. ASSUME NEW p \in Pkts
      PROVE  /\ h.pkt[p].ref_count = Truth(h.pkt[p].installed_in_db)
                  + Truth(h.node.self_lsp_pkt = p) + InQueues(h.ifs, Intfs, {p})
             /\ h.pkt[p].flood_queue_count = InQueues(h.ifs, Intfs, {p})
             /\ h.pkt[p].ref_count > 0 <=> h.pkt[p] # Freed
  <2> DEFINE k == InQueues(h.ifs, Intfs, {p})
             d == Truth(h.pkt[p].installed_in_db)
             t == Truth(h.node.self_lsp_pkt = p)
  <2>1. /\ h.pkt[p].ref_count = d + t + k + Zero[p]
        /\ h.pkt[p].flood_queue_count = k
        /\ h.pkt[p].ref_count > 0 <=> h.pkt[p] # Freed
    BY <1>2 DEF Sound, Counted
  <2>2. Zero[p] = 0 /\ k \in Nat /\ d \in Nat /\ t \in Nat
    BY CopiesFinite DEF Zero, Truth
  <2> HIDE DEF k, d, t
  <2>3. h.pkt[p].ref_count = d + t + k
    BY <2>1, <2>2
  <2> QED
    BY <2>1, <2>3 DEF k, d, t
<1>7. CountsExact' /\ QueuesServed'
  BY <1>2, <1>4, <1>6 DEF CountsExact, QueuesServed, Sound, Queued
<1>8. AssertsHold'
  BY <1>3, <1>4 DEF AssertsHold
<1>9. DbConsistent'
  BY <1>2, <1>4 DEF DbConsistent, Sound, Agrees
<1>10. OwnLspCurrent'
  <2>1. ASSUME NEW p \in Pkts, h.pkt[p].rtr_id = Self, h.pkt[p].flood_eligibility
        PROVE  p = h.node.self_lsp_pkt
    <3>1. h.pkt[p] # Freed
      BY <2>1, Nulls DEF Freed
    <3>2. h.pkt[p].ref_count > 0
      BY <1>6, <3>1
    <3>3. h.pkt[p].ref_count # Zero[p]
      BY <3>2 DEF Zero
    <3> QED
      BY <1>2, <2>1, <3>3 DEF Current
  <2> QED
    BY <1>2, <1>4, <2>1 DEF OwnLspCurrent, Current
<1>11. Stopped' /\ node'.enabled
  BY <1>2, <1>4 DEF Stopped
<1>12. Newest
  BY <1>2, <1>4 DEF Newest, Sound, Newer
<1> QED
  BY <1>5, <1>7, <1>8, <1>9, <1>10, <1>11, <1>12 DEF IInv, QueuesSound, DbSound

\* A handler that keeps what it needs leaves the invariant, also when it crashes.
LEMMA Lands ==
  ASSUME highest \in 0..MaxSeq, NEW h, Good(h, Zero), Becomes(h)
  PROVE  IInv' /\ Newest /\ (crashed' = "no" => node'.enabled)
<1>1. Fits(h)
  BY DEF Becomes, Bounded, Fits
<1>2. h.crashed \in Ends
  BY <1>1 DEF Good, Memory, Sound, Ends
<1>3. CASE h.crashed # "no"
  <2>1. Fresh' /\ Newest /\ crashed' # "no"
    BY <1>2, <1>3, CrashFresh
  <2>2. IInv'
    BY <2>1, FreshSound, PTL
  <2> QED
    BY <2>1, <2>2
<1>4. CASE h.crashed = "no"
  <2>1. Reached(h)
    BY <1>4 DEF Becomes, Reached
  <2> QED
    BY <1>1, <1>4, <2>1, Arrives
<1> QED
  BY <1>3, <1>4

-----------------------------------------------------------------------------
(* The node's fields and the adjacencies. *)

\* Nothing of the queues is changed, and a disabled interface is as it was.
SameQueues(f, e) ==
  \A i \in Intfs :
    /\ f[i].lsp_xmit_list = e[i].lsp_xmit_list
    /\ f[i].lsp_xmit_job = e[i].lsp_xmit_job
    /\ ~f[i].enabled => f[i] = Disabled

\* Nothing of the LSPs and the databases is changed.
SamePkts(g, h) ==
  g.pkt = h.pkt /\ g.db = h.db /\ g.ted = h.ted /\ g.highest = h.highest

\* Whatever else a node or an interface holds tells nothing of the LSPs.
LEMMA SameSound ==
  ASSUME NEW h \in Memory, NEW g \in Memory, NEW x,
         SamePkts(g, h), SameQueues(g.ifs, h.ifs),
         g.node.self_lsp_pkt = h.node.self_lsp_pkt,
         g.node.pending_lsp_flood_count = h.node.pending_lsp_flood_count,
         g.crashed # "assert", Sound(h, x)
  PROVE  Sound(g, x)
<1>1. ASSUME NEW S \in SUBSET Pkts
      PROVE  InQueues(g.ifs, Intfs, S) = InQueues(h.ifs, Intfs, S)
  <2>1. \A i \in Intfs, p \in S : g.ifs[i].lsp_xmit_list[p] = h.ifs[i].lsp_xmit_list[p]
    BY DEF SameQueues
  <2> QED
    BY <2>1, SameCopies
<1>2. Counted(g, x)
  <2>1. Counted(h, x)
    BY DEF Sound
  <2>2. \A p \in Pkts : InQueues(g.ifs, Intfs, {p}) = InQueues(h.ifs, Intfs, {p})
    BY <1>1
  <2>3. g.pkt = h.pkt
    BY DEF SamePkts
  <2> QED
    BY <2>1, <2>2, <2>3 DEF Counted
<1>3. Queued(g)
  <2>1. InQueues(g.ifs, Intfs, Pkts) = InQueues(h.ifs, Intfs, Pkts)
    BY <1>1
  <2> QED
    BY <2>1 DEF Sound, Queued, SameQueues
<1>4. Numbers(g) /\ Agrees(g, {}) /\ Newer(g)
  BY DEF Sound, Numbers, Agrees, Newer, SamePkts
<1> QED
  BY <1>2, <1>3, <1>4 DEF Sound

\* Equal queues are within the bounds or not, both.
LEMMA SameFits ==
  ASSUME NEW h, NEW g, SameQueues(g.ifs, h.ifs)
  PROVE  /\ Fits(g) /\ h.node.seq_no <= MaxSeq => Fits(h)
         /\ Fits(h) /\ g.node.seq_no <= MaxSeq => Fits(g)
  BY DEF Fits, SameQueues

\* The current LSP, but for whether it is in the database when the node would answer
\* with it.
Owned(h, x) ==
  /\ h.db[Self] \in {NULL, h.node.self_lsp_pkt}
  /\ h.db[Self] # NULL => h.pkt[h.node.self_lsp_pkt].seq_no <= h.node.seq_no
  /\ \A p \in Pkts : h.pkt[p].rtr_id = Self /\ h.pkt[p].flood_eligibility
                       => p = h.node.self_lsp_pkt \/ h.pkt[p].ref_count = x[p]

\* Current is Owned, and an LSP on its way or a reconciliation stands for the rest.
LEMMA CurrentIs ==
  ASSUME NEW h, NEW x
  PROVE  /\ Current(h, x) => Owned(h, x)
         /\ Owned(h, x) /\ (h.node.lsp_pkt_gen_task \/ h.node.reconciliation_in_progress)
              => Current(h, x)
  BY DEF Current, Owned

\* Owned depends on the LSPs and on a node's number that has not become smaller.
LEMMA SameOwned ==
  ASSUME NEW h \in Memory, NEW g \in Memory, NEW x, SamePkts(g, h), Agrees(h, {}),
         g.node.self_lsp_pkt = h.node.self_lsp_pkt,
         h.db[Self] # NULL => h.node.seq_no <= g.node.seq_no, Owned(h, x)
  PROVE  Owned(g, x)
<1>1. ASSUME h.db[Self] # NULL
      PROVE  h.pkt[h.node.self_lsp_pkt].seq_no <= g.node.seq_no
  <2>1. h.db[Self] = h.node.self_lsp_pkt /\ h.db[Self] \in Pkts
    BY <1>1, Nulls DEF Owned, Memory
  <2>2. /\ h.pkt[h.node.self_lsp_pkt] \in Packets
        /\ h.node \in Nodes /\ g.node \in Nodes
    BY <2>1 DEF Memory
  <2>3. h.pkt[h.node.self_lsp_pkt].seq_no <= h.node.seq_no /\ h.node.seq_no <= g.node.seq_no
    BY <1>1 DEF Owned
  <2> QED
    BY <2>2, <2>3 DEF Packets, Nodes
<1> QED
  BY <1>1 DEF Owned, SamePkts

\* Equal queues, of the record itself.
LEMMA SelfQueues ==
  ASSUME NEW h, NEW x, Sound(h, x)
  PROVE  SameQueues(h.ifs, h.ifs)
  BY DEF Sound, Queued, SameQueues

\* A crash in a handler changes nothing that is counted.
LEMMA FailGood ==
  ASSUME NEW h, NEW x, Good(h, x), NEW cond \in BOOLEAN,
         NEW why \in {"ted", "timer", "null", "freed"}
  PROVE  Good(fails(h, cond, why), x) /\ (Fits(fails(h, cond, why)) => Fits(h))
<1> DEFINE g == fails(h, cond, why)
<1>1. h \in Memory /\ h.node.enabled
  BY DEF Good
<1>2. Failed(g, h, cond, why)
  BY <1>1, FailsDoes
<1> HIDE DEF g
<1>3. /\ g \in Memory /\ g.pkt = h.pkt /\ g.db = h.db /\ g.ted = h.ted
      /\ g.node = h.node /\ g.ifs = h.ifs /\ g.highest = h.highest
      /\ g.crashed \in {h.crashed, why}
  BY <1>2 DEF Failed
<1>4. Fits(g) => Fits(h)
  BY <1>3 DEF Fits
<1>5. ASSUME Fits(g) PROVE Sound(g, x) /\ Current(g, x)
  <2>1. Sound(h, x) /\ Current(h, x)
    BY <1>4, <1>5 DEF Good
  <2>2. g.crashed # "assert"
    BY <1>3, <2>1 DEF Sound
  <2>3. SameQueues(g.ifs, h.ifs) /\ SamePkts(g, h)
    BY <1>3, <2>1, SelfQueues DEF SamePkts
  <2>4. Sound(g, x)
    BY <1>1, <1>3, <2>1, <2>2, <2>3, SameSound
  <2> QED
    BY <1>3, <2>1, <2>4 DEF Current
<1>6. Good(g, x) /\ (Fits(g) => Fits(h))
  BY <1>1, <1>3, <1>4, <1>5 DEF Good
<1> QED
  BY <1>6 DEF g

\* isis_schedule_lsp_pkt_generation: an LSP is on its way, but in a shutdown.
LEMMA ScheduleGood ==
  ASSUME NEW h \in Memory, h.node.enabled, NEW x,
         Fits(h) => Sound(h, x) /\ Owned(h, x),
         Fits(h) /\ h.node.shutdown => Current(h, x),
         NEW g, g = schedule(h)
  PROVE  Good(g, x) /\ (Fits(g) => Fits(h))
<1>1. CASE h.node.shutdown
  BY <1>1 DEF schedule, Good
<1>2. CASE ~h.node.shutdown
  <2> DEFINE d == [h.node EXCEPT !.lsp_pkt_gen_task = TRUE]
  <2>1. /\ d \in Nodes /\ d.lsp_pkt_gen_task = TRUE
        /\ d.enabled = h.node.enabled /\ d.self_lsp_pkt = h.node.self_lsp_pkt
        /\ d.seq_no = h.node.seq_no
        /\ d.pending_lsp_flood_count = h.node.pending_lsp_flood_count
    <3>1. h.node \in Nodes
      BY DEF Memory
    <3> QED
      BY <3>1 DEF Nodes
  <2>2. g = [h EXCEPT !.node = d]
    BY <1>2 DEF schedule
  <2> HIDE DEF d
  <2>3. /\ g \in Memory /\ g.pkt = h.pkt /\ g.db = h.db /\ g.ted = h.ted /\ g.node = d
        /\ g.ifs = h.ifs /\ g.highest = h.highest /\ g.crashed = h.crashed
    BY <2>1, <2>2 DEF Memory
  <2>4. Fits(g) => Fits(h)
    BY <2>1, <2>3 DEF Fits
  <2>5. ASSUME Fits(g) PROVE Sound(g, x) /\ Current(g, x)
    <3>1. Sound(h, x) /\ Owned(h, x)
      BY <2>4, <2>5
    <3>2. SameQueues(g.ifs, h.ifs) /\ SamePkts(g, h)
      BY <2>3, <3>1, SelfQueues DEF SamePkts
    <3>3. g.crashed # "assert" /\ Agrees(h, {})
      BY <2>3, <3>1 DEF Sound
    <3>4. Sound(g, x)
      BY <2>1, <2>3, <3>1, <3>2, <3>3, SameSound
    <3>5. h.node.seq_no <= g.node.seq_no
      BY <2>1, <2>3 DEF Memory, Nodes
    <3>6. Owned(g, x)
      BY <2>1, <2>3, <3>1, <3>2, <3>3, <3>5, SameOwned
    <3> QED
      BY <2>1, <2>3, <3>4, <3>6, CurrentIs
  <2> QED
    BY <2>1, <2>3, <2>4, <2>5 DEF Good
<1> QED
  BY <1>1, <1>2

\* isis_enter_reconciliation_phase: no on-demand TLV is answered until it ends.
LEMMA EnterGood ==
  ASSUME NEW h \in Memory, h.node.enabled, NEW x,
         Fits(h) => Sound(h, x) /\ Owned(h, x),
         NEW g, g = enter_reconciliation(h)
  PROVE  Good(g, x) /\ (Fits(g) => Fits(h))
<1>1. CASE h.node.reconciliation_in_progress
  BY <1>1, CurrentIs DEF enter_reconciliation, Good
<1>2. CASE ~h.node.reconciliation_in_progress
  <2> DEFINE d == [h.node EXCEPT !.reconciliation_in_progress = TRUE]
             m == [h EXCEPT !.node = d]
  <2>1. /\ d \in Nodes /\ d.reconciliation_in_progress = TRUE
        /\ d.enabled = h.node.enabled /\ d.self_lsp_pkt = h.node.self_lsp_pkt
        /\ d.seq_no = h.node.seq_no
        /\ d.pending_lsp_flood_count = h.node.pending_lsp_flood_count
    <3>1. h.node \in Nodes
      BY DEF Memory
    <3> QED
      BY <3>1 DEF Nodes
  <2>2. g = fails(schedule(m), h.node.shutdown, "null")
    BY <1>2 DEF enter_reconciliation
  <2> HIDE DEF d
  <2>3. /\ m \in Memory /\ m.pkt = h.pkt /\ m.db = h.db /\ m.ted = h.ted /\ m.node = d
        /\ m.ifs = h.ifs /\ m.highest = h.highest /\ m.crashed = h.crashed
    BY <2>1 DEF Memory
  <2> HIDE DEF m
  <2>4. Fits(m) => Fits(h)
    BY <2>1, <2>3 DEF Fits
  <2>5. ASSUME Fits(m) PROVE Sound(m, x) /\ Owned(m, x) /\ Current(m, x)
    <3>1. Sound(h, x) /\ Owned(h, x)
      BY <2>4, <2>5
    <3>2. SameQueues(m.ifs, h.ifs) /\ SamePkts(m, h)
      BY <2>3, <3>1, SelfQueues DEF SamePkts
    <3>3. m.crashed # "assert" /\ Agrees(h, {})
      BY <2>3, <3>1 DEF Sound
    <3>4. Sound(m, x)
      BY <2>1, <2>3, <3>1, <3>2, <3>3, SameSound
    <3>5. h.node.seq_no <= m.node.seq_no
      BY <2>1, <2>3 DEF Memory, Nodes
    <3>6. Owned(m, x)
      BY <2>1, <2>3, <3>1, <3>2, <3>3, <3>5, SameOwned
    <3> QED
      BY <2>1, <2>3, <3>4, <3>6, CurrentIs
  <2>6. PICK s : s = schedule(m)
    OBVIOUS
  <2>7. Good(s, x) /\ (Fits(s) => Fits(m))
    BY <2>1, <2>3, <2>5, <2>6, ScheduleGood
  <2>8. h.node.shutdown \in BOOLEAN
    BY DEF Memory, Nodes
  <2>9. /\ Good(fails(s, h.node.shutdown, "null"), x)
        /\ Fits(fails(s, h.node.shutdown, "null")) => Fits(s)
    BY <2>7, <2>8, FailGood
  <2> QED
    BY <2>2, <2>4, <2>6, <2>7, <2>9
<1> QED
  BY <1>1, <1>2

-----------------------------------------------------------------------------
(* The handlers, one by one. *)

\* What is shown of each step.
Outcome == IInv' /\ Newest /\ (crashed' = "no" => node'.enabled)

\* The fields of Now.
LEMMA NowIs ==
  /\ Now.pkt = pkt /\ Now.db = db /\ Now.ted = ted /\ Now.node = node
  /\ Now.ifs = ifs /\ Now.highest = highest /\ Now.crashed = crashed
  BY DEF Now

\* A handler of a running protocol starts with what it needs.
LEMMA NowGood ==
  ASSUME IInv, node.enabled
  PROVE  /\ Good(Now, Zero) /\ Fits(Now) /\ Sound(Now, Zero) /\ Owned(Now, Zero)
         /\ Current(Now, Zero) /\ Now \in Memory /\ Now.node.enabled
         /\ highest \in 0..MaxSeq
  BY NowSound, NowIs, CurrentIs DEF Good, IInv, QueuesSound, TypeOK

\* What of an interface is changed without its queue.
Touched(h, f) ==
  /\ h \in Memory /\ Fits(h) /\ Sound(h, Zero) /\ Current(h, Zero) /\ Owned(h, Zero)
  /\ h.pkt = pkt /\ h.db = db /\ h.ted = ted /\ h.node = node /\ h.ifs = f
  /\ h.highest = highest /\ h.crashed = crashed

\* A change of an interface beside its queue keeps what a handler needs.
LEMMA IntfTouched ==
  ASSUME IInv, node.enabled, NEW f \in [Intfs -> Ports], SameQueues(f, ifs),
         NEW h, h = [Now EXCEPT !.ifs = f]
  PROVE  Touched(h, f) /\ Good(h, Zero)
<1>1. /\ Now \in Memory /\ Fits(Now) /\ Sound(Now, Zero) /\ Current(Now, Zero)
  BY NowGood
<1>2. /\ h \in Memory /\ h.pkt = pkt /\ h.db = db /\ h.ted = ted /\ h.node = node /\ h.ifs = f
      /\ h.highest = highest /\ h.crashed = crashed
  BY <1>1, NowIs DEF Memory
<1>3. SameQueues(h.ifs, Now.ifs) /\ SamePkts(h, Now) /\ Now.node = h.node
  BY <1>2, NowIs DEF SamePkts
<1>4. h.node.seq_no <= MaxSeq /\ h.crashed # "assert"
  BY <1>1, <1>2, NowIs DEF Fits, Sound
<1>5. Fits(h)
  BY <1>1, <1>3, <1>4, SameFits
<1>6. Sound(h, Zero)
  BY <1>1, <1>2, <1>3, <1>4, SameSound
<1>7. Current(h, Zero)
  BY <1>1, <1>3 DEF Current, SamePkts
<1> QED
  BY <1>2, <1>5, <1>6, <1>7, CurrentIs DEF Touched, Good

\* Changing the adjacency or the state of an enabled interface is such a change.
LEMMA PortsSame ==
  ASSUME IInv, NEW i \in Intfs, NEW e \in BOOLEAN, NEW a \in {"none", "some", "up"},
         ifs[i].enabled \/ ifs[i] = Disabled, e,
         NEW f, f = [ifs EXCEPT ![i] = [@ EXCEPT !.enabled = e, !.adjacency = a]]
  PROVE  f \in [Intfs -> Ports] /\ SameQueues(f, ifs)
<1>1. ifs \in [Intfs -> Ports]
  BY NowSound, NowIs DEF Memory
<1>2. \A j \in Intfs : ~ifs[j].enabled => ifs[j] = Disabled
  BY DEF IInv, QueuesSound, CountsExact
<1>3. /\ f[i] \in Ports /\ f[i].enabled = e
      /\ f[i].lsp_xmit_list = ifs[i].lsp_xmit_list /\ f[i].lsp_xmit_job = ifs[i].lsp_xmit_job
  BY <1>1 DEF Ports
<1>4. \A j \in Intfs \ {i} : f[j] = ifs[j]
  BY <1>1
<1>5. f \in [Intfs -> Ports]
  BY <1>1, <1>3, <1>4
<1>6. SameQueues(f, ifs)
  BY <1>2, <1>3, <1>4 DEF SameQueues
<1> QED
  BY <1>5, <1>6

\* isis_change_adjacency_state and isis_delete_adjacency change the adjacency only.
LEMMA AdjacencyKept ==
  ASSUME IInv, node.enabled, NEW i \in Intfs, ifs[i].enabled,
         NEW a \in {"none", "some", "up"}, NEW h, h = [Now EXCEPT !.ifs[i].adjacency = a]
  PROVE  /\ Touched(h, [ifs EXCEPT ![i].adjacency = a]) /\ Good(h, Zero)
<1> DEFINE f == [ifs EXCEPT ![i].adjacency = a]
<1>1. ifs \in [Intfs -> Ports]
  BY NowSound, NowIs DEF Memory
<1>2. f = [ifs EXCEPT ![i] = [@ EXCEPT !.enabled = TRUE, !.adjacency = a]]
  <2>1. ifs[i] \in Ports /\ ifs[i].enabled = TRUE
    BY <1>1 DEF Ports
  <2>2. [ifs[i] EXCEPT !.enabled = TRUE] = ifs[i]
    BY <2>1 DEF Ports
  <2> QED
    BY <2>2
<1>3. h = [Now EXCEPT !.ifs = f]
  BY NowIs
<1> HIDE DEF f
<1>4. f \in [Intfs -> Ports] /\ SameQueues(f, ifs)
  BY <1>2, PortsSame
<1>5. Touched(h, f) /\ Good(h, Zero)
  BY <1>3, <1>4, IntfTouched
<1> QED
  BY <1>5 DEF f

\* Only an enabled interface has an adjacency.
LEMMA EnabledWhenAdjacent ==
  ASSUME IInv, NEW i \in Intfs, ifs[i].adjacency # "none"
  PROVE  ifs[i].enabled
  BY DEF IInv, QueuesSound, CountsExact, Disabled

\* isis_timer_wrapper_lsp_flood
LEMMA PeriodicLspSound ==
  ASSUME IInv, PeriodicLsp
  PROVE  Outcome
<1>1. PICK g : g = schedule(Now)
  OBVIOUS
<1>2. Good(g, Zero)
  BY <1>1, NowGood, ScheduleGood DEF PeriodicLsp, Running
<1>3. Becomes(g)
  BY <1>1 DEF PeriodicLsp
<1> QED
  BY <1>2, <1>3, NowGood, Lands DEF PeriodicLsp, Running, Outcome

\* isis_change_adjacency_state, to UP: with the first adjacency reconciliation begins.
LEMMA AdjacencyUpSound ==
  ASSUME IInv, NEW i \in Intfs, AdjacencyUp(i)
  PROVE  Outcome
<1>1. /\ node.enabled /\ ifs[i].enabled
  BY EnabledWhenAdjacent DEF AdjacencyUp, Running
<1>2. PICK h : h = [Now EXCEPT !.ifs[i].adjacency = "up"]
  OBVIOUS
<1>3. Touched(h, [ifs EXCEPT ![i].adjacency = "up"])
  BY <1>1, <1>2, AdjacencyKept
<1>4. h \in Memory /\ h.node.enabled /\ Sound(h, Zero) /\ Owned(h, Zero) /\ Current(h, Zero)
  BY <1>1, <1>3 DEF Touched
<1>5. PICK g, k : g = enter_reconciliation(h) /\ k = schedule(h)
  OBVIOUS
<1>6. Good(g, Zero)
  BY <1>4, <1>5, EnterGood
<1>7. Good(k, Zero)
  BY <1>4, <1>5, ScheduleGood
<1>8. Becomes(g) \/ Becomes(k)
  BY <1>2, <1>5 DEF AdjacencyUp
<1> QED
  BY <1>1, <1>6, <1>7, <1>8, NowGood, Lands DEF Outcome

\* isis_change_adjacency_state, to DOWN.
LEMMA AdjacencyDownSound ==
  ASSUME IInv, NEW i \in Intfs, AdjacencyDown(i)
  PROVE  Outcome
<1>1. /\ node.enabled /\ ifs[i].enabled
  BY EnabledWhenAdjacent DEF AdjacencyDown, Running
<1>2. PICK h : h = [Now EXCEPT !.ifs[i].adjacency = "some"]
  OBVIOUS
<1>3. Touched(h, [ifs EXCEPT ![i].adjacency = "some"]) /\ Good(h, Zero)
  BY <1>1, <1>2, AdjacencyKept
<1>4. h \in Memory /\ h.node.enabled /\ Sound(h, Zero) /\ Owned(h, Zero) /\ Current(h, Zero)
  BY <1>1, <1>3 DEF Touched
<1>5. PICK g, k : g = fails(h, node.shutdown, "timer") /\ k = schedule(h)
  OBVIOUS
<1>6. Good(g, Zero)
  <2>1. node.shutdown \in BOOLEAN
    BY DEF IInv, QueuesSound, TypeOK, NodeFields
  <2> QED
    BY <1>3, <1>5, <2>1, FailGood
<1>7. Good(k, Zero)
  BY <1>4, <1>5, ScheduleGood
<1>8. Becomes(g) \/ Becomes(k)
  BY <1>2, <1>5 DEF AdjacencyDown
<1> QED
  BY <1>1, <1>6, <1>7, <1>8, NowGood, Lands DEF Outcome

\* isis_delete_adjacency
LEMMA AdjacencyDeletedSound ==
  ASSUME IInv, NEW i \in Intfs, AdjacencyDeleted(i)
  PROVE  Outcome
<1>1. /\ node.enabled /\ ifs[i].enabled
  BY EnabledWhenAdjacent DEF AdjacencyDeleted, Running
<1>2. PICK h : h = [Now EXCEPT !.ifs[i].adjacency = "none"]
  OBVIOUS
<1>3. Touched(h, [ifs EXCEPT ![i].adjacency = "none"]) /\ Good(h, Zero)
  BY <1>1, <1>2, AdjacencyKept
<1>4. h \in Memory /\ h.node.enabled /\ Sound(h, Zero) /\ Owned(h, Zero) /\ Current(h, Zero)
  BY <1>1, <1>3 DEF Touched
<1>5. PICK k : k = schedule(h)
  OBVIOUS
<1>6. Good(k, Zero)
  BY <1>4, <1>5, ScheduleGood
<1>7. Becomes(k) \/ Becomes(h)
  BY <1>2, <1>5 DEF AdjacencyDeleted
<1> QED
  BY <1>1, <1>3, <1>6, <1>7, NowGood, Lands DEF Outcome

\* isis_update_interface_adjacency_from_hello, the first hello.
LEMMA AdjacencyCreatedSound ==
  ASSUME IInv, NEW i \in Intfs, AdjacencyCreated(i)
  PROVE  Outcome
<1>1. crashed = "no" /\ node.enabled /\ ifs[i].enabled
  BY DEF AdjacencyCreated, Running
<1>2. PICK h : h = [Now EXCEPT !.ifs[i].adjacency = "some"]
  OBVIOUS
<1>3. Touched(h, [ifs EXCEPT ![i].adjacency = "some"]) /\ Good(h, Zero)
  BY <1>1, <1>2, AdjacencyKept
<1>4. Reached(h) /\ h.crashed = "no" /\ Fits(h)
  BY <1>1, <1>3 DEF Touched, Reached, AdjacencyCreated
<1> QED
  BY <1>3, <1>4, Arrives DEF Outcome

\* isis_enable_protocol_on_interface
LEMMA EnableIntfSound ==
  ASSUME IInv, NEW i \in Intfs, EnableIntf(i)
  PROVE  Outcome
<1> DEFINE f == [ifs EXCEPT ![i].enabled = TRUE]
<1>1. crashed = "no" /\ node.enabled /\ ifs[i] = Disabled /\ ifs[i].adjacency = "none"
  <2>1. crashed = "no" /\ node.enabled /\ ~ifs[i].enabled
    BY DEF EnableIntf, Running
  <2>2. ifs[i] = Disabled
    BY <2>1 DEF IInv, QueuesSound, CountsExact
  <2> QED
    BY <2>1, <2>2 DEF Disabled
<1>2. f = [ifs EXCEPT ![i] = [@ EXCEPT !.enabled = TRUE, !.adjacency = "none"]]
  <2>1. [ifs[i] EXCEPT !.enabled = TRUE]
          = [[ifs[i] EXCEPT !.enabled = TRUE] EXCEPT !.adjacency = "none"]
    BY <1>1 DEF Disabled
  <2> QED
    BY <2>1
<1> HIDE DEF f
<1>3. f \in [Intfs -> Ports] /\ SameQueues(f, ifs)
  BY <1>1, <1>2, PortsSame
<1>4. PICK h : h = [Now EXCEPT !.ifs = f]
  OBVIOUS
<1>5. Touched(h, f) /\ Good(h, Zero)
  BY <1>1, <1>3, <1>4, IntfTouched
<1>6. Reached(h) /\ h.crashed = "no" /\ Fits(h)
  BY <1>1, <1>5 DEF Touched, Reached, EnableIntf, f
<1> QED
  BY <1>5, <1>6, Arrives DEF Outcome

\* isis_timer_wrapper_exit_reconciliation_phase
LEMMA ReconciliationJobSound ==
  ASSUME IInv, ReconciliationJob
  PROVE  Outcome
<1> DEFINE d == [node EXCEPT !.reconciliation_in_progress = FALSE]
           m == [Now EXCEPT !.node = d]
<1>1. node.enabled /\ ~node.shutdown
  BY DEF ReconciliationJob, Running
<1>2. Now \in Memory /\ Fits(Now) /\ Sound(Now, Zero) /\ Owned(Now, Zero)
  BY <1>1, NowGood
<1>3. /\ d \in Nodes /\ d.enabled = node.enabled /\ d.self_lsp_pkt = node.self_lsp_pkt
      /\ d.seq_no = node.seq_no /\ d.shutdown = node.shutdown
      /\ d.pending_lsp_flood_count = node.pending_lsp_flood_count
  <2>1. node \in Nodes
    BY <1>2, NowIs DEF Memory
  <2> QED
    BY <2>1 DEF Nodes
<1>4. m = [Now EXCEPT !.node.reconciliation_in_progress = FALSE]
  BY NowIs
<1> HIDE DEF d
<1>5. /\ m \in Memory /\ m.pkt = pkt /\ m.db = db /\ m.ted = ted /\ m.node = d /\ m.ifs = ifs
      /\ m.highest = highest /\ m.crashed = crashed
  BY <1>2, <1>3, NowIs DEF Memory
<1> HIDE DEF m
<1>6. SameQueues(m.ifs, Now.ifs) /\ SamePkts(m, Now)
  BY <1>2, <1>5, NowIs, SelfQueues DEF SamePkts
<1>7. m.crashed # "assert" /\ Agrees(Now, {}) /\ Now.node.seq_no <= m.node.seq_no
  BY <1>2, <1>3, <1>5, NowIs DEF Sound, Memory, Nodes
<1>8. Sound(m, Zero)
  BY <1>2, <1>3, <1>5, <1>6, <1>7, NowIs, SameSound
<1>9. Owned(m, Zero)
  BY <1>2, <1>3, <1>5, <1>6, <1>7, NowIs, SameOwned
<1>10. PICK g : g = schedule(m)
  OBVIOUS
<1>11. Good(g, Zero)
  BY <1>1, <1>3, <1>5, <1>8, <1>9, <1>10, ScheduleGood
<1>12. Becomes(g)
  BY <1>4, <1>10 DEF ReconciliationJob
<1> QED
  BY <1>1, <1>11, <1>12, NowGood, Lands DEF Outcome

\* What of an LSP that ages is changed with its life-time timer.
Ticked(h, p, t) ==
  /\ h \in Memory /\ Fits(h)
  /\ h.db = db /\ h.ted = ted /\ h.node = node /\ h.ifs = ifs
  /\ h.highest = highest /\ h.crashed = crashed
  /\ \A q \in Pkts :
       /\ h.pkt[q].rtr_id = pkt[q].rtr_id /\ h.pkt[q].seq_no = pkt[q].seq_no
       /\ h.pkt[q].ref_count = pkt[q].ref_count
       /\ h.pkt[q].flood_eligibility = pkt[q].flood_eligibility
       /\ h.pkt[q].installed_in_db = pkt[q].installed_in_db
  /\ Counted(h, Zero) /\ Queued(h) /\ Numbers(h) /\ Newer(h) /\ Current(h, Zero)
  /\ Agrees(h, {p}) /\ (t # "NULL" => Agrees(h, {}))

\* The timer's state is nobody's concern but of the test that it exists.
LEMMA TimerTicked ==
  ASSUME IInv, node.enabled, NEW p \in Pkts, pkt[p].expiry_timer # "NULL",
         NEW t \in {"NULL", "running", "expired"},
         NEW h, h = [Now EXCEPT !.pkt[p].expiry_timer = t]
  PROVE  Ticked(h, p, t)
<1>1. /\ Now \in Memory /\ Fits(Now) /\ Sound(Now, Zero) /\ Current(Now, Zero)
      /\ Now.pkt = pkt /\ pkt \in [Pkts -> Packets]
  BY NowGood, NowIs DEF Memory
<1> DEFINE e == [pkt[p] EXCEPT !.expiry_timer = t]
<1>2. /\ e \in Packets
      /\ e.rtr_id = pkt[p].rtr_id /\ e.seq_no = pkt[p].seq_no
      /\ e.ref_count = pkt[p].ref_count
      /\ e.flood_queue_count = pkt[p].flood_queue_count
      /\ e.flood_eligibility = pkt[p].flood_eligibility
      /\ e.installed_in_db = pkt[p].installed_in_db
      /\ e.expiry_timer = t
  BY <1>1 DEF Packets
<1>3. h = [Now EXCEPT !.pkt = [pkt EXCEPT ![p] = e]]
  BY <1>1
<1> HIDE DEF e
<1>4. /\ h.db = db /\ h.ted = ted /\ h.node = node /\ h.ifs = ifs
      /\ h.highest = highest /\ h.crashed = crashed
      /\ h.pkt[p] = e /\ \A q \in Pkts \ {p} : h.pkt[q] = pkt[q]
      /\ h.pkt \in [Pkts -> Packets] /\ h \in Memory
  BY <1>1, <1>2, <1>3, NowIs DEF Memory
<1>5. \A q \in Pkts :
        /\ h.pkt[q].rtr_id = pkt[q].rtr_id /\ h.pkt[q].seq_no = pkt[q].seq_no
        /\ h.pkt[q].ref_count = pkt[q].ref_count
        /\ h.pkt[q].flood_queue_count = pkt[q].flood_queue_count
        /\ h.pkt[q].flood_eligibility = pkt[q].flood_eligibility
        /\ h.pkt[q].installed_in_db = pkt[q].installed_in_db
        /\ h.pkt[q].expiry_timer = IF q = p THEN t ELSE pkt[q].expiry_timer
  <2>1. ASSUME NEW q \in Pkts \ {p}
        PROVE  h.pkt[q] = pkt[q]
    BY <1>4
  <2>2. h.pkt[p] = e
    BY <1>4
  <2>3. ASSUME NEW q \in Pkts
        PROVE  /\ h.pkt[q].rtr_id = pkt[q].rtr_id /\ h.pkt[q].seq_no = pkt[q].seq_no
               /\ h.pkt[q].ref_count = pkt[q].ref_count
               /\ h.pkt[q].flood_queue_count = pkt[q].flood_queue_count
               /\ h.pkt[q].flood_eligibility = pkt[q].flood_eligibility
               /\ h.pkt[q].installed_in_db = pkt[q].installed_in_db
               /\ h.pkt[q].expiry_timer = IF q = p THEN t ELSE pkt[q].expiry_timer
    <3>1. CASE q = p
      BY <1>2, <2>2, <3>1
    <3>2. CASE q # p
      BY <2>1, <3>2
    <3> QED
      BY <3>1, <3>2
  <2> QED
    BY <2>3
<1>6. \A q \in Pkts : h.pkt[q].ref_count > 0 <=> h.pkt[q] # Freed
  <2>1. /\ \A q \in Pkts : pkt[q].ref_count > 0 <=> pkt[q] # Freed
    BY <1>1 DEF Sound, Counted
  <2>2. pkt[p] # Freed
    BY DEF Freed
  <2>3. h.pkt[p].ref_count > 0 /\ h.pkt[p] # Freed
    <3>1. h.pkt[p].ref_count > 0
      BY <1>5, <2>1, <2>2
    <3> QED
      BY <3>1 DEF Freed
  <2> QED
    BY <1>4, <1>5, <2>1, <2>3
<1>7. Counted(h, Zero)
  BY <1>1, <1>4, <1>5, <1>6, NowIs DEF Sound, Counted
<1>8. Queued(h) /\ Numbers(h) /\ Newer(h) /\ Fits(h)
  BY <1>1, <1>4, <1>5, NowIs, Nulls DEF Sound, Queued, Numbers, Newer, Fits, Memory
<1>9. Current(h, Zero)
  BY <1>1, <1>4, <1>5, NowIs, Nulls DEF Current, Memory
<1>10. Agrees(h, {p}) /\ (t # "NULL" => Agrees(h, {}))
  BY <1>1, <1>4, <1>5, NowIs, Nulls DEF Sound, Agrees, Memory
<1> QED
  BY <1>4, <1>5, <1>7, <1>8, <1>9, <1>10 DEF Ticked

\* The timer of an LSP expires.
LEMMA LifetimeFiresSound ==
  ASSUME IInv, NEW p \in Pkts, LifetimeFires(p)
  PROVE  Outcome
<1>1. node.enabled /\ crashed = "no" /\ pkt[p].expiry_timer = "running"
  BY DEF LifetimeFires, Running
<1>2. PICK h : h = [Now EXCEPT !.pkt[p].expiry_timer = "expired"]
  OBVIOUS
<1>3. Ticked(h, p, "expired")
  BY <1>1, <1>2, TimerTicked
<1>4. Good(h, Zero)
  BY <1>1, <1>3 DEF Ticked, Good, Sound
<1>5. h.pkt = [pkt EXCEPT ![p].expiry_timer = "expired"]
  BY <1>1, <1>2, NowGood, NowIs DEF Memory
<1>6. Reached(h)
  BY <1>3, <1>5 DEF Ticked, Reached, LifetimeFires
<1> QED
  BY <1>1, <1>3, <1>4, <1>6, Arrives DEF Ticked, Outcome

\* isis_lsp_pkt_delete_from_lspdb_timer_cb: its own timer is gone before the removal
\* looks at it.
LEMMA LifetimeJobSound ==
  ASSUME IInv, NEW p \in Pkts, LifetimeJob(p)
  PROVE  Outcome
<1>1. node.enabled /\ crashed = "no" /\ pkt[p].expiry_timer = "expired"
  BY DEF LifetimeJob, Running
<1>2. PICK h : h = [Now EXCEPT !.pkt[p].expiry_timer = "NULL"]
  OBVIOUS
<1>3. Ticked(h, p, "NULL")
  BY <1>1, <1>2, TimerTicked
<1>4. PICK g : g = remove(h, {p})
  OBVIOUS
<1>5. Zero \in [Pkts -> Int] /\ \A q \in Pkts : Truth(h.node.self_lsp_pkt = q) + Zero[q] >= 0
  BY DEF Zero, Truth
<1>6. g \in Memory /\ Fits(g) /\ Sound(g, Zero) /\ Removed(g, h, {p})
  <2>1. /\ h \in Memory /\ Fits(h) /\ h.crashed # "assert" /\ Counted(h, Zero) /\ Queued(h)
        /\ Numbers(h) /\ Agrees(h, {p}) /\ Newer(h)
    BY <1>1, <1>3 DEF Ticked
  <2> QED
    BY <1>4, <1>5, <2>1, RemoveSound
<1>7. pkt[p].rtr_id # Self
  BY <1>1, NowGood, NowIs DEF Sound, Agrees
<1>8. Current(g, Zero)
  <2>1. Current(h, Zero) /\ Agrees(h, {p}) /\ h.pkt[p].rtr_id # Self /\ h \in Memory
    BY <1>3, <1>7 DEF Ticked
  <2>2. h.db[Self] # p /\ Self \in Rtrs /\ NULL \notin Pkts /\ NULL # Self /\ Freed.rtr_id = NULL
    BY <2>1, Nulls DEF Agrees, Freed
  <2>3. g.db[Self] = h.db[Self] /\ g.node = h.node
    BY <1>6, <2>2 DEF Removed
  <2>4. \A q \in Pkts \ {p} : g.pkt[q] = h.pkt[q]
    BY <1>6 DEF Removed
  <2>5. g.pkt[p].rtr_id # Self
    BY <1>6, <2>1, <2>2 DEF Removed
  <2>6. h.db[Self] # NULL => h.node.self_lsp_pkt \in Pkts \ {p}
    BY <2>1, <2>2 DEF Current, Memory
  <2> QED
    BY <2>1, <2>3, <2>4, <2>5, <2>6 DEF Current
<1>9. Good(g, Zero)
  BY <1>1, <1>3, <1>6, <1>8 DEF Good, Ticked, Removed
<1>10. Becomes(g)
  BY <1>2, <1>4 DEF LifetimeJob
<1> QED
  BY <1>1, <1>9, <1>10, NowGood, Lands DEF Outcome

\* "clear node <node-name> protocol isis lsdb": nothing is in the database.
LEMMA ClearLsdbSound ==
  ASSUME IInv, ClearLsdb
  PROVE  Outcome
<1>1. node.enabled /\ crashed = "no"
  BY DEF ClearLsdb, Running
<1>2. /\ Now \in Memory /\ Fits(Now) /\ Sound(Now, Zero) /\ Owned(Now, Zero)
      /\ Now.node.enabled
  BY <1>1, NowGood
<1>3. PICK g, c, e : /\ g = remove(Now, Pkts) /\ c = [g EXCEPT !.node.seq_no = 0]
                     /\ e = enter_reconciliation(c)
  OBVIOUS
<1>4. Zero \in [Pkts -> Int] /\ \A q \in Pkts : Truth(Now.node.self_lsp_pkt = q) + Zero[q] >= 0
  BY DEF Zero, Truth
<1>5. g \in Memory /\ Fits(g) /\ Sound(g, Zero) /\ Removed(g, Now, Pkts)
  <2>1. Agrees(Now, Pkts)
    BY <1>2 DEF Sound, Agrees
  <2> QED
    BY <1>2, <1>3, <1>4, <2>1, RemoveSound DEF Sound
<1>6. Owned(g, Zero)
  <2>1. g.db[Self] = NULL
    BY <1>2, <1>5, Nulls DEF Removed, Memory
  <2>2. ASSUME NEW p \in Pkts, g.pkt[p].rtr_id = Self, g.pkt[p].flood_eligibility
        PROVE  p = g.node.self_lsp_pkt
    <3>1. Freed.rtr_id = NULL /\ Freed.ref_count = 0 /\ NULL # Self
      BY Nulls DEF Freed
    <3>2. Now.pkt[p].rtr_id = Self /\ Now.pkt[p].flood_eligibility
      BY <1>5, <2>2, <3>1 DEF Removed
    <3>3. Now.pkt[p].ref_count > 0
      BY <1>2, <3>1, <3>2 DEF Sound, Counted
    <3>4. p = Now.node.self_lsp_pkt
      BY <1>2, <3>2, <3>3 DEF Owned, Zero
    <3> QED
      BY <1>5, <3>4 DEF Removed
  <2> QED
    BY <2>1, <2>2 DEF Owned
<1>7. /\ c \in Memory /\ c.pkt = g.pkt /\ c.db = g.db /\ c.ted = g.ted /\ c.ifs = g.ifs
      /\ c.highest = g.highest /\ c.crashed = g.crashed
      /\ c.node = [g.node EXCEPT !.seq_no = 0]
      /\ c.node.self_lsp_pkt = g.node.self_lsp_pkt /\ c.node.enabled = g.node.enabled
      /\ c.node.pending_lsp_flood_count = g.node.pending_lsp_flood_count
  BY <1>3, <1>5 DEF Memory, Nodes
<1>8. SamePkts(c, g) /\ SameQueues(c.ifs, g.ifs) /\ c.crashed # "assert" /\ Agrees(g, {})
  BY <1>5, <1>7, SelfQueues DEF SamePkts, Sound
<1>9. Sound(c, Zero)
  BY <1>5, <1>7, <1>8, SameSound
<1>10. Owned(c, Zero)
  <2>1. g.db[Self] = NULL
    BY <1>2, <1>5, Nulls DEF Removed, Memory
  <2> QED
    BY <1>5, <1>6, <1>7, <1>8, <2>1, SameOwned
<1>11. c.node.enabled
  BY <1>2, <1>5, <1>7 DEF Removed
<1>12. Good(e, Zero)
  BY <1>3, <1>7, <1>9, <1>10, <1>11, EnterGood
<1>13. Becomes(e)
  BY <1>3 DEF ClearLsdb, cleanup
<1> QED
  BY <1>1, <1>12, <1>13, NowGood, Lands DEF Outcome

\* isis_disable_protocol_on_interface
DisabledOn(g, h, J) ==
  /\ Keeps(g, h) /\ g.node = h.node
  /\ \A i \in J : g.ifs[i] = Disabled
  /\ \A i \in Intfs \ J : g.ifs[i] = h.ifs[i]

\* A disabled interface holds no reference, and its job is gone.
LEMMA DisableSound ==
  ASSUME NEW h \in Memory, NEW J \in SUBSET Intfs, NEW x \in [Pkts -> Int],
         Fits(h), Sound(h, x),
         \A p \in Pkts : Truth(h.node.self_lsp_pkt = p) + x[p] >= 0,
         NEW g, g = disable(h, J)
  PROVE  g \in Memory /\ Fits(g) /\ Sound(g, x) /\ DisabledOn(g, h, J)
<1>1. PICK e : e = empty(h, J)
  OBVIOUS
<1>2. e \in Memory /\ Fits(e) /\ Sound(e, x) /\ Emptied(e, h, J)
  BY <1>1, EmptySound
<1>3. PICK F : F = [i \in Intfs |-> IF i \in J THEN Disabled ELSE e.ifs[i]]
  OBVIOUS
<1>4. g = [e EXCEPT !.ifs = F]
  BY <1>1, <1>2, <1>3 DEF disable, Memory
<1>5. Disabled \in Ports
  BY DEF Disabled, Ports, EmptyQueue
<1>6. F \in [Intfs -> Ports]
  BY <1>2, <1>3, <1>5 DEF Memory
<1>7. (\A i \in J : F[i] = Disabled) /\ (\A i \in Intfs \ J : F[i] = e.ifs[i])
  BY <1>3
<1>8. /\ g \in Memory /\ g.pkt = e.pkt /\ g.db = e.db /\ g.ted = e.ted /\ g.node = e.node
      /\ g.ifs = F /\ g.highest = e.highest /\ g.crashed = e.crashed
  BY <1>2, <1>4, <1>6 DEF Memory
<1>9. SameQueues(g.ifs, e.ifs)
  <2>1. ASSUME NEW i \in J
        PROVE  /\ F[i] = Disabled /\ F[i].lsp_xmit_list = e.ifs[i].lsp_xmit_list
               /\ F[i].lsp_xmit_job = e.ifs[i].lsp_xmit_job
    <3>1. e.ifs[i].lsp_xmit_list = EmptyQueue /\ e.ifs[i].lsp_xmit_job = FALSE
      <4>1. h.ifs[i] \in Ports /\ e.ifs[i] = [h.ifs[i] EXCEPT !.lsp_xmit_list = EmptyQueue,
                                                               !.lsp_xmit_job = FALSE]
        BY <1>2 DEF Memory, Emptied
      <4> QED
        BY <4>1 DEF Ports
    <3> QED
      <4>1. F[i] = Disabled
        BY <1>7
      <4>2. Disabled.lsp_xmit_list = EmptyQueue /\ Disabled.lsp_xmit_job = FALSE
        BY DEF Disabled
      <4> QED
        BY <3>1, <4>1, <4>2
  <2>2. ASSUME NEW i \in Intfs \ J
        PROVE  F[i] = e.ifs[i] /\ (~e.ifs[i].enabled => e.ifs[i] = Disabled)
    BY <1>2, <1>7 DEF Sound, Queued
  <2> QED
    BY <1>8, <2>1, <2>2 DEF SameQueues
<1>10. SamePkts(g, e) /\ g.crashed # "assert"
  BY <1>2, <1>8 DEF SamePkts, Sound
<1>11. Sound(g, x)
  BY <1>2, <1>8, <1>9, <1>10, SameSound
<1>12. Fits(g)
  BY <1>2, <1>8, <1>9, SameFits DEF Fits
<1>13. Keeps(g, h)
  <2>1. Keeps(e, h)
    BY <1>2 DEF Emptied
  <2> QED
    BY <1>8, <2>1 DEF Keeps
<1>14. DisabledOn(g, h, J)
  BY <1>2, <1>7, <1>8, <1>13 DEF Emptied, DisabledOn
<1> QED
  BY <1>8, <1>11, <1>12, <1>14

\* isis_disable_protocol_on_interface
LEMMA DisableIntfSound ==
  ASSUME IInv, NEW i \in Intfs, DisableIntf(i)
  PROVE  Outcome
<1>1. node.enabled /\ crashed = "no"
  BY DEF DisableIntf, Running
<1>2. /\ Now \in Memory /\ Fits(Now) /\ Sound(Now, Zero) /\ Current(Now, Zero)
      /\ Now.node.enabled
  BY <1>1, NowGood
<1>3. PICK g, k : g = disable(Now, {i}) /\ k = schedule(g)
  OBVIOUS
<1>4. Zero \in [Pkts -> Int] /\ \A q \in Pkts : Truth(Now.node.self_lsp_pkt = q) + Zero[q] >= 0
  BY DEF Zero, Truth
<1>5. g \in Memory /\ Fits(g) /\ Sound(g, Zero) /\ DisabledOn(g, Now, {i})
  BY <1>2, <1>3, <1>4, DisableSound
<1>6. Current(g, Zero) /\ g.node.enabled
  <2>1. ASSUME NEW p \in Pkts, Now.pkt[p].rtr_id = Self, Now.pkt[p].ref_count = Zero[p]
        PROVE  FALSE
    <3>1. Now.pkt[p] = Freed
      <4>1. Zero[p] = 0 /\ ~(0 > 0)
        BY DEF Zero
      <4>2. Now.pkt[p].ref_count > 0 <=> Now.pkt[p] # Freed
        BY <1>2 DEF Sound, Counted
      <4> QED
        BY <2>1, <4>1, <4>2
    <3> QED
      BY <2>1, <3>1, Nulls DEF Freed
  <2> QED
    BY <1>2, <1>5, <2>1, CurrentKept DEF DisabledOn, Sound
<1>7. Good(g, Zero) /\ Good(k, Zero)
  BY <1>3, <1>5, <1>6, ScheduleGood, CurrentIs DEF Good
<1>8. Becomes(g) \/ Becomes(k)
  BY <1>3 DEF DisableIntf
<1> QED
  BY <1>1, <1>7, <1>8, NowGood, Lands DEF Outcome

\* isis_protocol_shutdown_now: the node's own reference, the database and the queues
\* give up what they hold, which are all references there are.
LEMMA ShutdownNowFresh ==
  ASSUME NEW h \in Memory, Fits(h), Sound(h, Zero), highest \in 0..MaxSeq,
         NEW k, k = shutdown_now(h), Becomes(k)
  PROVE  Fresh' /\ Newest
<1> DEFINE self == h.node.self_lsp_pkt
           y == [p \in Pkts |-> IF p = self THEN -1 ELSE 0]
<1>1. PICK a, g, f, e :
        /\ a = IF self = NULL THEN h ELSE deref_each(h, {self})
        /\ g = remove(a, Pkts)
        /\ f = fails(g, \E r \in Nbrs : g.ted[r] # "absent", "ted")
        /\ e = disable(f, Intfs)
  OBVIOUS
<1>2. k = [e EXCEPT !.node = Off]
  BY <1>1 DEF shutdown_now, cleanup
<1>3. /\ y \in [Pkts -> Int] /\ Zero \in [Pkts -> Int]
      /\ \A p \in Pkts : Truth(self = p) + y[p] = 0
  BY DEF Zero, Truth
<1>4. a \in Memory /\ Fits(a) /\ Sound(a, y) /\ a.node.self_lsp_pkt = self
  <2>1. CASE self = NULL
    <3>1. y = Zero
      BY <2>1, Nulls DEF Zero
    <3> QED
      BY <1>1, <2>1, <3>1
  <2>2. CASE self # NULL
    <3>1. self \in Pkts
      BY <2>2 DEF Memory, Nodes
    <3>2. PICK n \in [Pkts -> Nat] :
            /\ deref_each(h, {self}) = deref(h, n)
            /\ \A p \in Pkts : n[p] = IF p \in {self} THEN 1 ELSE 0
      BY <3>1, EachDoes
    <3>3. \A p \in Pkts : y[p] = Zero[p] - n[p]
      BY <3>2 DEF Zero
    <3>4. \A p \in Pkts : Truth(h.node.self_lsp_pkt = p) + y[p] >= 0
      BY <1>3
    <3>5. deref(h, n) \in Memory /\ Fits(deref(h, n)) /\ Sound(deref(h, n), y)
          /\ Keeps(deref(h, n), h)
      BY <1>3, <3>3, <3>4, DerefSound
    <3> QED
      BY <1>1, <2>2, <3>2, <3>5 DEF Keeps
  <2> QED
    BY <2>1, <2>2
<1>5. \A p \in Pkts : Truth(a.node.self_lsp_pkt = p) + y[p] >= 0
  BY <1>3, <1>4
<1> HIDE DEF self, y
<1>6. g \in Memory /\ Fits(g) /\ Sound(g, y) /\ Removed(g, a, Pkts)
  <2>1. Agrees(a, Pkts)
    BY <1>4 DEF Sound, Agrees
  <2> QED
    BY <1>1, <1>3, <1>4, <1>5, <2>1, RemoveSound DEF Sound
<1>7. /\ f \in Memory /\ Fits(f) /\ Sound(f, y) /\ f.db = g.db /\ f.node = g.node
  <2>1. PICK b \in BOOLEAN : f = fails(g, b, "ted")
    BY <1>1
  <2>2. Failed(f, g, b, "ted")
    BY <1>6, <2>1, FailsDoes
  <2>3. SamePkts(f, g) /\ SameQueues(f.ifs, g.ifs) /\ f.crashed # "assert"
    BY <1>6, <2>2, SelfQueues DEF Failed, SamePkts, Sound
  <2>4. Sound(f, y)
    BY <1>6, <2>2, <2>3, SameSound DEF Failed
  <2> QED
    BY <1>6, <2>2, <2>4 DEF Failed, Fits
<1>8. e \in Memory /\ Fits(e) /\ Sound(e, y) /\ DisabledOn(e, f, Intfs)
  <2>1. \A p \in Pkts : Truth(f.node.self_lsp_pkt = p) + y[p] >= 0
    BY <1>5, <1>6, <1>7 DEF Removed
  <2> QED
    BY <1>1, <1>3, <1>7, <2>1, DisableSound
<1>9. \A r \in Rtrs : e.db[r] = NULL
  <2>1. e.db = g.db
    BY <1>7, <1>8 DEF DisabledOn, Keeps
  <2> QED
    BY <1>4, <1>6, <2>1 DEF Removed, Memory
<1>10. \A p \in Pkts : e.pkt[p] = Freed
  <2>1. ASSUME NEW p \in Pkts PROVE e.pkt[p] = Freed
    <3>1. InQueues(e.ifs, Intfs, {p}) = 0
      <4>1. \A i \in Intfs, q \in {p} : e.ifs[i].lsp_xmit_list[q] = 0
        BY <1>8 DEF DisabledOn, Disabled, EmptyQueue
      <4>2. \A i \in Intfs, q \in {p} : e.ifs[i].lsp_xmit_list[q] \in 0..MaxQueue
        BY <4>1, LspDbAssumption
      <4> QED
        BY <4>1, <4>2, NoCopies
    <3>2. Truth(e.pkt[p].installed_in_db) = 0
      BY <1>8, <1>9, Nulls DEF Sound, Agrees, Truth
    <3>3. Truth(e.node.self_lsp_pkt = p) + y[p] = 0
      BY <1>3, <1>4, <1>6, <1>7, <1>8 DEF Removed, DisabledOn, self
    <3>4. Truth(e.node.self_lsp_pkt = p) \in Int /\ y[p] \in Int
      BY <1>3 DEF Truth
    <3>5. e.pkt[p].ref_count = Truth(e.pkt[p].installed_in_db)
            + Truth(e.node.self_lsp_pkt = p) + InQueues(e.ifs, Intfs, {p}) + y[p]
      BY <1>8 DEF Sound, Counted
    <3>6. e.pkt[p].ref_count = 0
      BY <3>1, <3>2, <3>3, <3>4, <3>5
    <3>7. e.pkt[p].ref_count > 0 <=> e.pkt[p] # Freed
      BY <1>8 DEF Sound, Counted
    <3> HIDE DEF self
    <3> QED
      BY <3>6, <3>7
  <2> QED
    BY <2>1
<1>11. k.crashed \in Ends
  BY <1>2, <1>8 DEF Sound, Memory, Ends
<1>12. CASE k.crashed # "no"
  BY <1>11, <1>12, CrashFresh
<1>13. CASE k.crashed = "no"
  <2>1. /\ k.pkt = e.pkt /\ k.db = e.db /\ k.ted = e.ted /\ k.ifs = e.ifs /\ k.node = Off
        /\ k.highest = e.highest
    BY <1>2, <1>8 DEF Memory
  <2>2. /\ pkt' = e.pkt /\ db' = e.db /\ ted' = e.ted /\ ifs' = e.ifs /\ node' = Off
        /\ highest' = e.highest /\ crashed' = "no"
    BY <1>13, <2>1 DEF Becomes
  <2>3. /\ e.pkt \in [Pkts -> Packets] /\ e.db \in [Rtrs -> Pkts \union {NULL}]
        /\ e.ifs \in [Intfs -> Ports] /\ e.highest \in Nat
        /\ e.ted \in [Nbrs -> {"absent", "fake", "real"}]
    BY <1>8 DEF Memory
  <2>4. e.pkt = [p \in Pkts |-> Freed]
    BY <1>10, <2>3
  <2>5. e.db = [r \in Rtrs |-> NULL]
    BY <1>9, <2>3
  <2>6. e.ifs = [i \in Intfs |-> Disabled]
    BY <1>8, <2>3 DEF DisabledOn
  <2>7. e.ted \in [Nbrs -> {"absent", "fake"}]
    BY <1>8, <1>9, <2>3 DEF Sound, Agrees
  <2>8. e.highest \in 0..MaxSeq
    BY <1>8, <2>3, LspDbAssumption DEF Sound, Numbers
  <2>9. Fresh'
    BY <2>2, <2>4, <2>5, <2>6, <2>7, <2>8 DEF Fresh, Ends
  <2> QED
    BY <1>9, <2>2, <2>9 DEF Newest
<1> QED
  BY <1>12, <1>13

\* The protocol ends at once, or with the purge LSP on its way.
LEMMA ShutdownSound ==
  ASSUME IInv, Shutdown
  PROVE  IInv' /\ Newest
<1>1. node.enabled /\ crashed = "no"
  BY DEF Shutdown, Running
<1>2. /\ Now \in Memory /\ Fits(Now) /\ Sound(Now, Zero) /\ Owned(Now, Zero)
      /\ highest \in 0..MaxSeq
  BY <1>1, NowGood
<1>3. CASE \E i \in Intfs : ifs[i].enabled
  <2>1. PICK h : h = [Now EXCEPT !.node.shutdown = TRUE, !.node.lsp_pkt_gen_task = TRUE]
    OBVIOUS
  <2>2. /\ h \in Memory /\ h.pkt = Now.pkt /\ h.db = Now.db /\ h.ted = Now.ted
        /\ h.ifs = Now.ifs /\ h.highest = Now.highest /\ h.crashed = Now.crashed
        /\ h.node = [Now.node EXCEPT !.shutdown = TRUE, !.lsp_pkt_gen_task = TRUE]
        /\ h.node.self_lsp_pkt = Now.node.self_lsp_pkt /\ h.node.enabled = Now.node.enabled
        /\ h.node.pending_lsp_flood_count = Now.node.pending_lsp_flood_count
        /\ h.node.seq_no = Now.node.seq_no /\ h.node.lsp_pkt_gen_task = TRUE
    BY <1>2, <2>1 DEF Memory, Nodes
  <2>3. SamePkts(h, Now) /\ SameQueues(h.ifs, Now.ifs) /\ h.crashed # "assert"
        /\ Agrees(Now, {}) /\ Now.node.seq_no <= h.node.seq_no
    BY <1>2, <2>2, SelfQueues DEF SamePkts, Sound, Memory, Nodes
  <2>4. Sound(h, Zero)
    BY <1>2, <2>2, <2>3, SameSound
  <2>5. Owned(h, Zero)
    BY <1>2, <2>2, <2>3, SameOwned
  <2>6. Good(h, Zero)
    BY <1>1, <2>2, <2>4, <2>5, CurrentIs, NowIs DEF Good
  <2>7. Becomes(h)
    BY <1>3, <2>1 DEF Shutdown
  <2> QED
    BY <1>2, <2>6, <2>7, Lands
<1>4. CASE ~ \E i \in Intfs : ifs[i].enabled
  <2>1. PICK h, k : h = [Now EXCEPT !.node.lsp_pkt_gen_task = FALSE] /\ k = shutdown_now(h)
    OBVIOUS
  <2>2. /\ h \in Memory /\ h.pkt = Now.pkt /\ h.db = Now.db /\ h.ted = Now.ted
        /\ h.ifs = Now.ifs /\ h.highest = Now.highest /\ h.crashed = Now.crashed
        /\ h.node = [Now.node EXCEPT !.lsp_pkt_gen_task = FALSE]
        /\ h.node.self_lsp_pkt = Now.node.self_lsp_pkt
        /\ h.node.pending_lsp_flood_count = Now.node.pending_lsp_flood_count
        /\ h.node.seq_no = Now.node.seq_no
    BY <1>2, <2>1 DEF Memory, Nodes
  <2>3. SamePkts(h, Now) /\ SameQueues(h.ifs, Now.ifs) /\ h.crashed # "assert"
    BY <1>2, <2>2, SelfQueues DEF SamePkts, Sound
  <2>4. Sound(h, Zero)
    BY <1>2, <2>2, <2>3, SameSound
  <2>5. Fits(h)
    BY <1>2, <2>2 DEF Fits
  <2>6. Becomes(k)
    BY <1>4, <2>1 DEF Shutdown
  <2>7. Fresh' /\ Newest
    BY <1>2, <2>1, <2>2, <2>4, <2>5, <2>6, ShutdownNowFresh
  <2>8. IInv'
    BY <2>7, FreshSound, PTL
  <2> QED
    BY <2>7, <2>8
<1> QED
  BY <1>3, <1>4

\* A step that ends the protocol of a node in shutdown is the last transmission.
AfterPurge ==
  node.shutdown /\ ~node'.enabled /\ crashed' = "no" =>
    /\ ~node.lsp_pkt_gen_task
    /\ Cardinality({i \in Intfs : ifs[i].lsp_xmit_list # EmptyQueue}) <= 1

\* isis_lsp_xmit_job: the counter covers the queues of the other interfaces, so that it
\* is zero only when they are empty.
LEMMA XmitJobSound ==
  ASSUME IInv, NEW i \in Intfs, XmitJob(i)
  PROVE  IInv' /\ Newest /\ AfterPurge
<1>1. node.enabled /\ crashed = "no"
  BY DEF XmitJob, Running
<1>2. /\ Now \in Memory /\ Fits(Now) /\ Sound(Now, Zero) /\ Current(Now, Zero)
      /\ Now.node.enabled /\ highest \in 0..MaxSeq
  BY <1>1, NowGood
<1>3. PICK e, n, h : /\ e = empty(Now, {i}) /\ n = InQueues(ifs, {i}, Pkts)
                     /\ h = [e EXCEPT !.node.pending_lsp_flood_count = @ - n]
  OBVIOUS
<1>4. Becomes(IF purge_sent(h) THEN shutdown_now(h) ELSE h)
  BY <1>3 DEF XmitJob
<1>5. Zero \in [Pkts -> Int] /\ \A q \in Pkts : Truth(Now.node.self_lsp_pkt = q) + Zero[q] >= 0
  BY DEF Zero, Truth
<1>6. e \in Memory /\ Fits(e) /\ Sound(e, Zero) /\ Emptied(e, Now, {i})
  BY <1>2, <1>3, <1>5, EmptySound
<1> DEFINE c == InQueues(e.ifs, Intfs, Pkts)
           d == node.pending_lsp_flood_count
<1>7. n \in Nat /\ c \in Nat /\ d \in Nat /\ d - n \in Nat /\ d - n >= c
  <2>1. n \in Nat /\ c \in Nat /\ InQueues(ifs, Intfs, Pkts) \in Nat
    BY <1>3, CopiesFinite
  <2>2. d \in Nat /\ d >= InQueues(ifs, Intfs, Pkts)
    BY <1>2, NowIs DEF Memory, Nodes, Sound, Queued
  <2>3. InQueues(ifs, Intfs, Pkts) = c + n
    BY <1>3, <1>6, NowIs DEF Emptied
  <2> HIDE DEF c, d
  <2> QED
    BY <2>1, <2>2, <2>3
<1>8. e.node = node /\ node \in Nodes
  BY <1>2, <1>6, NowIs DEF Emptied, Memory
<1> HIDE DEF c, d
<1>9. PICK m : m = [node EXCEPT !.pending_lsp_flood_count = d - n]
  OBVIOUS
<1>10. /\ m \in Nodes /\ m.pending_lsp_flood_count = d - n /\ m.enabled = node.enabled
       /\ m.self_lsp_pkt = node.self_lsp_pkt /\ m.seq_no = node.seq_no
       /\ m.lsp_pkt_gen_task = node.lsp_pkt_gen_task /\ m.shutdown = node.shutdown
       /\ m.reconciliation_in_progress = node.reconciliation_in_progress
  BY <1>7, <1>8, <1>9 DEF Nodes
<1>11. h = [e EXCEPT !.node = m]
  BY <1>3, <1>8, <1>9 DEF d
<1>12. /\ h \in Memory /\ h.pkt = e.pkt /\ h.db = e.db /\ h.ted = e.ted /\ h.ifs = e.ifs
       /\ h.highest = e.highest /\ h.crashed = e.crashed /\ h.node = m
  BY <1>6, <1>10, <1>11 DEF Memory
<1>13. Sound(h, Zero)
  <2>1. Counted(h, Zero)
    BY <1>6, <1>8, <1>10, <1>12 DEF Sound, Counted
  <2>2. Queued(h)
    BY <1>6, <1>7, <1>10, <1>12 DEF Sound, Queued, c
  <2>3. Numbers(h) /\ Agrees(h, {}) /\ Newer(h)
    BY <1>6, <1>12 DEF Sound, Numbers, Agrees, Newer
  <2> QED
    BY <1>6, <1>12, <2>1, <2>2, <2>3 DEF Sound
<1>14. Fits(h)
  BY <1>6, <1>8, <1>10, <1>12 DEF Fits
<1>15. CASE purge_sent(h)
  <2>1. Fresh' /\ Newest
    BY <1>2, <1>4, <1>12, <1>13, <1>14, <1>15, ShutdownNowFresh
  <2>2. IInv'
    BY <2>1, FreshSound, PTL
  <2>3. ~node.lsp_pkt_gen_task /\ c = 0
    BY <1>7, <1>10, <1>12, <1>15 DEF purge_sent
  <2>4. ASSUME NEW j \in Intfs \ {i} PROVE ifs[j].lsp_xmit_list = EmptyQueue
    <3>1. \A k \in Intfs, p \in Pkts : e.ifs[k].lsp_xmit_list[p] \in 0..MaxQueue
      BY <1>6, LspDbAssumption DEF Fits, Memory, Ports
    <3>2. \A p \in Pkts : e.ifs[j].lsp_xmit_list[p] = 0
      <4>1. InQueues(e.ifs, Intfs, Pkts) = 0
        BY <2>3 DEF c
      <4>2. Intfs \in SUBSET Intfs /\ Pkts \in SUBSET Pkts
        OBVIOUS
      <4>3. InQueues(e.ifs, Intfs, Pkts) = 0
              <=> \A k \in Intfs, p \in Pkts : e.ifs[k].lsp_xmit_list[p] = 0
        BY ONLY <3>1, <4>2, NoCopies
      <4> QED
        BY <4>1, <4>3
    <3>3. e.ifs[j] = ifs[j] /\ ifs[j].lsp_xmit_list \in [Pkts -> Nat]
      BY <1>2, <1>6, NowIs DEF Emptied, Memory, Ports
    <3> QED
      BY <3>2, <3>3 DEF EmptyQueue
  <2>5. Cardinality({j \in Intfs : ifs[j].lsp_xmit_list # EmptyQueue}) <= 1
    <3>1. {j \in Intfs : ifs[j].lsp_xmit_list # EmptyQueue} \subseteq {i}
      BY <2>4
    <3>2. IsFiniteSet({i}) /\ Cardinality({i}) = 1
      BY FS_Singleton
    <3> QED
      BY <3>1, <3>2, FS_Subset
  <2> QED
    BY <2>1, <2>2, <2>3, <2>5 DEF AfterPurge
<1>16. CASE ~purge_sent(h)
  <2>1. Current(h, Zero)
    <3>1. ASSUME NEW p \in Pkts, Now.pkt[p].rtr_id = Self, Now.pkt[p].ref_count = Zero[p]
          PROVE  FALSE
      <4>1. Zero[p] = 0 /\ ~(0 > 0)
        BY DEF Zero
      <4>2. Now.pkt[p].ref_count > 0 <=> Now.pkt[p] # Freed
        BY <1>2 DEF Sound, Counted
      <4>3. Now.pkt[p] = Freed
        BY <3>1, <4>1, <4>2
      <4> QED
        BY <3>1, <4>3, Nulls DEF Freed
    <3>2. Current(e, Zero)
      BY <1>2, <1>6, <3>1, CurrentKept DEF Emptied, Sound
    <3> QED
      BY <1>8, <1>10, <1>12, <3>2 DEF Current
  <2>2. Good(h, Zero)
    BY <1>1, <1>10, <1>12, <1>13, <2>1 DEF Good
  <2>3. IInv' /\ Newest /\ (crashed' = "no" => node'.enabled)
    BY <1>2, <1>4, <1>16, <2>2, Lands
  <2> QED
    BY <2>3 DEF AfterPurge
<1> QED
  BY <1>15, <1>16

-----------------------------------------------------------------------------
(* isis_install_lsp. *)

\* The references y of a handler that holds one more than x, to the LSP p.
Holds(y, x, p) ==
  \A q \in Pkts : x[q] >= 0 /\ y[q] = IF q = p THEN x[q] + 1 ELSE x[q]

\* The LSP that leaves the database for a newer one, of which the handler holds a
\* reference of its own.
Ousted(g, h, old) ==
  /\ g.node = h.node /\ g.ifs = h.ifs /\ g.highest = h.highest
  /\ \A s \in Rtrs : g.db[s] = IF h.db[s] = old THEN NULL ELSE h.db[s]
  /\ \A q \in Pkts \ {old} : g.pkt[q] = h.pkt[q]
  /\ ~g.pkt[old].flood_eligibility

\* It leaves the database while the handler still holds it.
LEMMA OustSound ==
  ASSUME NEW h \in Memory, NEW old \in Pkts, NEW x \in [Pkts -> Int], NEW y \in [Pkts -> Int],
         Holds(y, x, old),
         Fits(h), Sound(h, x), h.pkt[old].installed_in_db,
         NEW g, g = mark_ineligible(remove(ref(h, old), {old}), old)
  PROVE  g \in Memory /\ Fits(g) /\ Sound(g, y) /\ Ousted(g, h, old)
<1>1. PICK a, b : a = ref(h, old) /\ b = remove(a, {old})
  OBVIOUS
<1>2. h.pkt[old] # Freed
  BY DEF Freed
<1>3. a \in Memory /\ Fits(a) /\ Sound(a, y) /\ Referenced(a, h, old)
  <2>1. \A q \in Pkts : y[q] = IF q = old THEN x[q] + 1 ELSE x[q]
    BY DEF Holds
  <2> QED
    BY <1>1, <1>2, <2>1, RefSound
<1>4. \A q \in Pkts : Truth(a.node.self_lsp_pkt = q) + y[q] >= 0
  <2>1. ASSUME NEW q \in Pkts PROVE y[q] >= 0 /\ y[q] \in Int
    BY <2>1 DEF Holds
  <2> QED
    BY <2>1 DEF Truth
<1>5. b \in Memory /\ Fits(b) /\ Sound(b, y) /\ Removed(b, a, {old})
  <2>1. Agrees(a, {old})
    BY <1>3 DEF Sound, Agrees
  <2>2. {old} \in SUBSET Pkts
    OBVIOUS
  <2> QED
    BY <1>1, <1>3, <1>4, <2>1, <2>2, RemoveSound DEF Sound
<1>6. g \in Memory /\ Fits(g) /\ Sound(g, y) /\ Marked(g, b, old)
  BY <1>1, <1>5, MarkSound
<1>7. /\ g.node = h.node /\ g.ifs = h.ifs /\ g.highest = h.highest
  BY <1>3, <1>5, <1>6 DEF Referenced, Keeps, Removed, Marked
<1>8. \A s \in Rtrs : g.db[s] = IF h.db[s] = old THEN NULL ELSE h.db[s]
  BY <1>3, <1>5, <1>6 DEF Referenced, Keeps, Removed, Marked
<1>9. ASSUME NEW q \in Pkts \ {old} PROVE g.pkt[q] = h.pkt[q]
  <2>1. a.pkt[q] = h.pkt[q] /\ b.pkt[q] = a.pkt[q] /\ g.pkt[q] = b.pkt[q]
    BY <1>3, <1>5, <1>6 DEF Referenced, Removed, Marked
  <2> QED
    BY <2>1
<1>10. ~g.pkt[old].flood_eligibility
  <2>1. b.pkt[old] \in Packets /\ g.pkt[old] = [b.pkt[old] EXCEPT !.flood_eligibility = FALSE]
    BY <1>5, <1>6 DEF Marked, Memory
  <2> QED
    BY <2>1 DEF Packets
<1> QED
  BY <1>6, <1>7, <1>8, <1>9, <1>10 DEF Ousted

\* The newer LSP takes its place.
Replaced(g, h, old, p, r) ==
  /\ g.node = h.node /\ g.ifs = h.ifs /\ g.highest = h.highest
  /\ \A s \in Rtrs : g.db[s] = IF s = r THEN p ELSE h.db[s]
  /\ \A q \in Pkts \ {old, p} : g.pkt[q] = h.pkt[q]
  /\ ~g.pkt[old].flood_eligibility
  /\ g.pkt[p].rtr_id = r /\ g.pkt[p].seq_no = h.pkt[p].seq_no
  /\ g.pkt[p].flood_eligibility = h.pkt[p].flood_eligibility

\* The database holds the newer LSP, and the handler the old one.
LEMMA ReplaceSound ==
  ASSUME NEW h \in Memory, NEW old \in Pkts, NEW p \in Pkts, NEW r \in Rtrs, NEW nbrs,
         NEW x \in [Pkts -> Int], NEW y \in [Pkts -> Int],
         Holds(y, x, old),
         Fits(h), Sound(h, x), h.db[r] = old, h.pkt[p].rtr_id = r,
         ~h.pkt[p].installed_in_db, h.pkt[p] # Freed, h.pkt[p].seq_no > h.pkt[old].seq_no,
         db[r] # NULL => pkt[db[r]].seq_no \in Nat,
         NEW g, g = replace(ref(h, old), old, p, nbrs)
  PROVE  g \in Memory /\ Fits(g) /\ Sound(g, y) /\ Replaced(g, h, old, p, r)
<1>1. PICK m : m = mark_ineligible(remove(ref(h, old), {old}), old)
  OBVIOUS
<1>2. g = add(m, p, nbrs)
  BY <1>1 DEF replace
<1>3. /\ h.pkt[old].installed_in_db /\ p # old
      /\ \A s \in Rtrs : h.db[s] = old => s = r
  <2>1. /\ \A q \in Pkts : h.pkt[q].installed_in_db <=> \E s \in Rtrs : h.db[s] = q
        /\ \A s \in Rtrs : h.db[s] # NULL => h.pkt[h.db[s]].rtr_id = s
    BY DEF Sound, Agrees
  <2>2. h.pkt[old].installed_in_db
    BY <2>1
  <2>3. \A s \in Rtrs : h.db[s] = old => s = h.pkt[old].rtr_id
    BY <2>1, Nulls
  <2> QED
    BY <2>2, <2>3
<1>4. m \in Memory /\ Fits(m) /\ Sound(m, y) /\ Ousted(m, h, old)
  BY <1>1, <1>3, OustSound
<1>5. m.pkt[p] = h.pkt[p] /\ m.db[r] = NULL
  BY <1>3, <1>4 DEF Ousted
<1>6. db[r] # NULL => m.pkt[p].seq_no >= pkt[db[r]].seq_no
  <2>1. CASE db[r] # NULL
    <3>1. old # NULL
      BY Nulls
    <3>2. h.pkt[old].seq_no >= pkt[db[r]].seq_no
      BY <2>1, <3>1 DEF Sound, Newer
    <3>3. h.pkt[old].seq_no \in Nat /\ h.pkt[p].seq_no \in Nat
      BY DEF Memory, Packets
    <3> QED
      BY <1>5, <3>2, <3>3
  <2> QED
    BY <2>1
<1>7. g \in Memory /\ Fits(g) /\ Sound(g, y) /\ Added(g, m, p, r)
  BY <1>2, <1>4, <1>5, <1>6, AddSound
<1>8. \A s \in Rtrs : g.db[s] = IF s = r THEN p ELSE h.db[s]
  BY <1>3, <1>4, <1>7 DEF Ousted, Added
<1>9. \A q \in Pkts \ {old, p} : g.pkt[q] = h.pkt[q]
  BY <1>4, <1>7 DEF Ousted, Added
<1>10. ~g.pkt[old].flood_eligibility
  BY <1>3, <1>4, <1>7 DEF Ousted, Added
<1>11. /\ g.node = h.node /\ g.ifs = h.ifs /\ g.highest = h.highest
       /\ g.pkt[p].rtr_id = r /\ g.pkt[p].seq_no = h.pkt[p].seq_no
       /\ g.pkt[p].flood_eligibility = h.pkt[p].flood_eligibility
  BY <1>4, <1>5, <1>7 DEF Ousted, Added
<1> QED
  BY <1>7, <1>8, <1>9, <1>10, <1>11 DEF Replaced

\* The number that is written into the router's own LSP is the next one.
renumbered(h, p, n) == [numbered(h, n) EXCEPT !.pkt[p].seq_no = n]

\* It stays the only own LSP that is flooded, and the one in the database.
LEMMA RenumberGood ==
  ASSUME NEW h, NEW x, Good(h, x), NEW p \in Pkts, p = h.node.self_lsp_pkt,
         ~h.node.lsp_pkt_gen_task, ~h.node.reconciliation_in_progress,
         db[Self] # NULL => pkt[db[Self]].seq_no \in Nat,
         NEW n, n = h.node.seq_no + 1, NEW g, g = renumbered(h, p, n)
  PROVE  Good(g, x) /\ (Fits(g) => Fits(h)) /\ g.node.self_lsp_pkt = p
<1>1. /\ h \in Memory /\ h.node.enabled /\ h.node \in Nodes /\ h.pkt \in [Pkts -> Packets]
      /\ h.highest \in Nat /\ n \in Nat
  BY DEF Good, Memory, Nodes
<1>2. PICK m, k, e : /\ m = [h.node EXCEPT !.seq_no = n]
                     /\ k = IF n > h.highest THEN n ELSE h.highest
                     /\ e = [h.pkt[p] EXCEPT !.seq_no = n]
  OBVIOUS
<1>3. g = [h EXCEPT !.node = m, !.highest = k, !.pkt = [h.pkt EXCEPT ![p] = e]]
  BY <1>1, <1>2 DEF renumbered, numbered, Memory
<1>4. /\ m \in Nodes /\ m.seq_no = n /\ m.enabled = h.node.enabled
      /\ m.self_lsp_pkt = p /\ m.shutdown = h.node.shutdown
      /\ m.pending_lsp_flood_count = h.node.pending_lsp_flood_count
      /\ m.lsp_pkt_gen_task = h.node.lsp_pkt_gen_task
      /\ m.reconciliation_in_progress = h.node.reconciliation_in_progress
  BY <1>1, <1>2 DEF Nodes
<1>5. /\ e \in Packets /\ e.seq_no = n /\ e.rtr_id = h.pkt[p].rtr_id
      /\ e.ref_count = h.pkt[p].ref_count
      /\ e.flood_queue_count = h.pkt[p].flood_queue_count
      /\ e.flood_eligibility = h.pkt[p].flood_eligibility
      /\ e.installed_in_db = h.pkt[p].installed_in_db
      /\ e.expiry_timer = h.pkt[p].expiry_timer
  BY <1>1, <1>2 DEF Packets
<1>6. /\ g \in Memory /\ g.db = h.db /\ g.ted = h.ted /\ g.ifs = h.ifs /\ g.node = m
      /\ g.highest = k /\ g.crashed = h.crashed
      /\ g.pkt[p] = e /\ \A q \in Pkts \ {p} : g.pkt[q] = h.pkt[q]
  <2>1. PICK P : P = [h.pkt EXCEPT ![p] = e]
    OBVIOUS
  <2>2. P \in [Pkts -> Packets] /\ P[p] = e /\ \A q \in Pkts \ {p} : P[q] = h.pkt[q]
    BY <1>1, <1>5, <2>1
  <2>3. k \in Nat
    BY <1>1, <1>2
  <2>4. g = [h EXCEPT !.node = m, !.highest = k, !.pkt = P]
    BY <1>3, <2>1
  <2> QED
    BY <1>1, <1>4, <2>2, <2>3, <2>4 DEF Memory
<1>7. Fits(g) => Fits(h) /\ n <= MaxSeq
  <2>1. h.node.seq_no \in Nat /\ h.node.seq_no <= n
    BY <1>1 DEF Nodes
  <2>2. g.node.seq_no = n /\ g.ifs = h.ifs /\ MaxSeq \in Nat
    BY <1>4, <1>6, LspDbAssumption
  <2>3. g.node.seq_no <= MaxSeq => n <= MaxSeq /\ h.node.seq_no <= MaxSeq
    BY ONLY <1>1, <2>1, <2>2
  <2> QED
    BY ONLY <2>2, <2>3 DEF Fits
<1>8. ASSUME Fits(g) PROVE Sound(g, x) /\ Current(g, x)
  <2>1. Sound(h, x) /\ Current(h, x) /\ n <= MaxSeq
    BY <1>7, <1>8 DEF Good
  <2>2. h.db[Self] = p /\ h.pkt[p].installed_in_db /\ h.pkt[p].seq_no <= h.node.seq_no
    BY <2>1, Nulls DEF Current, Sound, Agrees
  <2>3. \A r \in Rtrs : h.db[r] = p => r = Self
    BY <2>1, <2>2, Nulls DEF Sound, Agrees
  <2>4. \A q \in Pkts :
          /\ g.pkt[q].rtr_id = h.pkt[q].rtr_id
          /\ g.pkt[q].ref_count = h.pkt[q].ref_count
          /\ g.pkt[q].flood_queue_count = h.pkt[q].flood_queue_count
          /\ g.pkt[q].flood_eligibility = h.pkt[q].flood_eligibility
          /\ g.pkt[q].installed_in_db = h.pkt[q].installed_in_db
          /\ g.pkt[q].expiry_timer = h.pkt[q].expiry_timer
    <3>1. ASSUME NEW q \in Pkts \ {p} PROVE g.pkt[q] = h.pkt[q]
      BY <1>6
    <3> QED
      BY <1>5, <1>6, <3>1
  <2>5. \A q \in Pkts : g.pkt[q] # Freed <=> h.pkt[q] # Freed
    <3>1. e.installed_in_db /\ h.pkt[p].installed_in_db /\ ~Freed.installed_in_db
      BY <1>5, <2>2 DEF Freed
    <3> QED
      BY <1>6, <3>1
  <2>6. Counted(g, x)
    <3>1. g.node.self_lsp_pkt = h.node.self_lsp_pkt /\ Counted(h, x)
      BY <1>4, <1>6, <2>1 DEF Sound
    <3> QED
      BY ONLY <1>6, <2>4, <2>5, <3>1 DEF Counted
  <2>7. Queued(g)
    BY <1>4, <1>6, <2>1 DEF Sound, Queued
  <2>8. Numbers(g)
    <3>1. k <= MaxSeq
      BY <1>2, <2>1 DEF Sound, Numbers
    <3> QED
      BY <1>5, <1>6, <2>1, <3>1 DEF Sound, Numbers
  <2>9. Agrees(g, {})
    <3>1. Agrees(h, {}) /\ \A r \in Rtrs : h.db[r] \in Pkts \union {NULL}
      BY <1>1, <2>1 DEF Sound, Memory
    <3> QED
      BY ONLY <1>6, <2>4, <3>1, Nulls DEF Agrees
  <2>10. Newer(g)
    <3>1. ASSUME NEW r \in Rtrs, db[r] # NULL, g.db[r] # NULL
          PROVE  g.pkt[g.db[r]].seq_no >= pkt[db[r]].seq_no
      <4>1. h.db[r] \in Pkts /\ g.db[r] = h.db[r]
                /\ h.pkt[h.db[r]].seq_no >= pkt[db[r]].seq_no
        <5>1. h.db[r] \in Pkts \union {NULL} /\ Newer(h)
          BY <1>1, <2>1 DEF Sound, Memory
        <5> QED
          BY <1>6, <3>1, <5>1 DEF Newer
      <4>2. CASE r = Self
        <5>1. h.pkt[p].seq_no >= pkt[db[Self]].seq_no /\ g.pkt[g.db[r]].seq_no = n
          BY <1>5, <1>6, <2>2, <4>1, <4>2
        <5>2. /\ pkt[db[Self]].seq_no \in Nat
              /\ h.node.seq_no \in Nat /\ h.pkt[p].seq_no \in Nat
          BY <1>1, <3>1, <4>2 DEF Nodes, Packets
        <5> QED
          BY <2>2, <4>2, <5>1, <5>2
      <4>3. CASE r # Self
        BY <1>6, <2>3, <4>1, <4>3
      <4> QED
        BY <4>2, <4>3
    <3> QED
      BY <3>1 DEF Newer
  <2>11. Current(g, x)
    <3>1. n <= n
      BY <1>1
    <3>2. g.node.self_lsp_pkt = p /\ g.db[Self] = p /\ g.pkt[p].seq_no <= g.node.seq_no
      BY ONLY <1>4, <1>5, <1>6, <2>2, <3>1
    <3>3. p # NULL
      BY Nulls
    <3>4. ASSUME NEW q \in Pkts, g.pkt[q].rtr_id = Self, g.pkt[q].flood_eligibility
          PROVE  q = p \/ g.pkt[q].ref_count = x[q]
      BY <2>1, <2>4, <3>4 DEF Current
    <3> QED
      BY <3>2, <3>3, <3>4 DEF Current
  <2> QED
    BY <1>6, <2>1, <2>6, <2>7, <2>8, <2>9, <2>10, <2>11 DEF Sound
<1> QED
  BY <1>1, <1>4, <1>6, <1>7, <1>8 DEF Good

\* The answer to an on-demand TLV.
LEMMA AnswerGood ==
  ASSUME NEW h, NEW x \in [Pkts -> Int], Good(h, x), NEW l,
         db[Self] # NULL => pkt[db[Self]].seq_no \in Nat,
         NEW g, g = answer(h, l)
  PROVE  Good(g, x)
<1> DEFINE p == h.node.self_lsp_pkt
           n == h.node.seq_no + 1
           k == [numbered(h, n) EXCEPT !.pkt[p].seq_no = n]
<1>1. h \in Memory /\ h.node.enabled /\ p \in Pkts \union {NULL}
  BY DEF Good, Memory, Nodes
<1>2. CASE g = h
  BY <1>2
<1>3. CASE g = fails(h, TRUE, "null")
  BY <1>3, FailGood
<1>4. CASE g = schedule(h)
  BY <1>1, <1>4, ScheduleGood, CurrentIs DEF Good
<1>5. CASE /\ p # NULL /\ ~h.node.lsp_pkt_gen_task /\ ~h.node.reconciliation_in_progress
           /\ g = flood(k, p, NULL)
  <2>1. PICK J \in SUBSET Intfs : g = queue(k, J, p)
    BY <1>5 DEF flood
  <2>2. Good(k, x) /\ k.node.self_lsp_pkt = p
    <3>1. p \in Pkts /\ k = renumbered(h, p, n)
      BY <1>1, <1>5 DEF renumbered
    <3>2. ~h.node.lsp_pkt_gen_task /\ ~h.node.reconciliation_in_progress
      BY <1>5
    <3> HIDE DEF k
    <3> QED
      BY <3>1, <3>2, RenumberGood
  <2> HIDE DEF k
  <2> QED
    BY <1>1, <1>5, <2>1, <2>2, QueueGood
<1> QED
  BY <1>2, <1>3, <1>4, <1>5 DEF answer, on_demand_flood

\* malloc gives out an address that nobody uses.
LEMMA FreeIs ==
  ASSUME NEW h, NEW p \in Free(h)
  PROVE  p \in Pkts /\ h.pkt[p] = Freed
  BY DEF Free

\* What the database holds is an LSP with a number.
LEMMA NumbersNat ==
  ASSUME IInv, NEW r \in Rtrs, db[r] # NULL
  PROVE  db[r] \in Pkts /\ pkt[db[r]].seq_no \in Nat
<1>1. pkt \in [Pkts -> PktFields] /\ db \in [Rtrs -> Pkts \union {NULL}]
  BY DEF IInv, QueuesSound, TypeOK
<1>2. db[r] \in Pkts
  BY <1>1
<1>3. pkt[db[r]] \in PktFields
  BY <1>1, <1>2
<1> QED
  BY <1>2, <1>3, LspDbAssumption DEF PktFields

\* A new LSP, of which the handler holds the only reference.
Received(h, p, r, s) ==
  /\ h.pkt[p].rtr_id = r /\ h.pkt[p].seq_no = s /\ ~h.pkt[p].installed_in_db
  /\ h.pkt[p] # Freed /\ h.db = db /\ h.node = node
  /\ p # node.self_lsp_pkt /\ (\A t \in Rtrs : db[t] # p)

\* isis_process_lsp_pkt starts with one.
LEMMA ReceivedSound ==
  ASSUME IInv, node.enabled, NEW p \in Pkts, pkt[p] = Freed,
         NEW r \in Rtrs, NEW s \in 1..MaxSeq,
         NEW h, h = [Now EXCEPT !.pkt[p] = NewPkt(r, s)],
         NEW x, x = [q \in Pkts |-> IF q = p THEN 1 ELSE 0]
  PROVE  h \in Memory /\ Fits(h) /\ Sound(h, x) /\ Current(h, x) /\ Received(h, p, r, s)
<1>1. /\ Now \in Memory /\ Fits(Now) /\ Sound(Now, Zero) /\ Current(Now, Zero)
      /\ Now.pkt = pkt /\ pkt \in [Pkts -> Packets]
  BY NowGood, NowIs DEF Memory
<1>2. PICK e : e = NewPkt(r, s)
  OBVIOUS
<1>3. /\ e \in Packets /\ e.rtr_id = r /\ e.seq_no = s /\ e.ref_count = 1
      /\ e.flood_queue_count = 0 /\ e.flood_eligibility = TRUE
      /\ e.installed_in_db = FALSE /\ e.expiry_timer = "NULL"
  <2>1. s \in Nat
    BY LspDbAssumption
  <2> QED
    BY <1>2, <2>1 DEF NewPkt, Freed, Packets
<1>4. h = [Now EXCEPT !.pkt = [pkt EXCEPT ![p] = e]]
  BY <1>1, <1>2
<1>5. /\ h.db = db /\ h.ted = ted /\ h.node = node /\ h.ifs = ifs
      /\ h.highest = highest /\ h.crashed = crashed
      /\ h.pkt[p] = e /\ \A q \in Pkts \ {p} : h.pkt[q] = pkt[q]
      /\ h \in Memory
  <2>1. PICK P : P = [pkt EXCEPT ![p] = e]
    OBVIOUS
  <2>2. P \in [Pkts -> Packets] /\ P[p] = e /\ \A q \in Pkts \ {p} : P[q] = pkt[q]
    BY <1>1, <1>3, <2>1
  <2> QED
    BY <1>1, <1>4, <2>1, <2>2, NowIs DEF Memory
<1>6. /\ Freed.ref_count = 0 /\ Freed.flood_queue_count = 0 /\ ~Freed.installed_in_db
      /\ Freed.expiry_timer = "NULL" /\ Freed.rtr_id = NULL
  BY DEF Freed
<1>7. InQueues(ifs, Intfs, {p}) = 0 /\ node.self_lsp_pkt # p /\ \A t \in Rtrs : db[t] # p
  <2>1. /\ pkt[p].ref_count =
             Truth(pkt[p].installed_in_db) + Truth(node.self_lsp_pkt = p)
               + InQueues(ifs, Intfs, {p}) + Zero[p]
        /\ pkt[p].flood_queue_count = InQueues(ifs, Intfs, {p})
    BY <1>1, NowIs DEF Sound, Counted
  <2>2. Truth(pkt[p].installed_in_db) = 0 /\ Zero[p] = 0
    BY <1>6 DEF Truth, Zero
  <2>3. InQueues(ifs, Intfs, {p}) = 0 /\ Truth(node.self_lsp_pkt = p) \in Int
    BY <1>6, <2>1 DEF Truth
  <2>4. Truth(node.self_lsp_pkt = p) = 0
    BY <1>6, <2>1, <2>2, <2>3
  <2>5. node.self_lsp_pkt # p
    BY <2>4 DEF Truth
  <2>6. \A t \in Rtrs : db[t] # p
    BY <1>1, <1>6, NowIs DEF Sound, Agrees
  <2> QED
    BY <2>3, <2>5, <2>6
<1>8. Counted(h, x)
  <2>1. ASSUME NEW q \in Pkts
        PROVE  /\ h.pkt[q].ref_count =
                    Truth(h.pkt[q].installed_in_db) + Truth(h.node.self_lsp_pkt = q)
                      + InQueues(h.ifs, Intfs, {q}) + x[q]
               /\ h.pkt[q].flood_queue_count = InQueues(h.ifs, Intfs, {q})
               /\ h.pkt[q].ref_count > 0 <=> h.pkt[q] # Freed
    <3>1. CASE q = p
      <4>1. Truth(e.installed_in_db) = 0 /\ Truth(node.self_lsp_pkt = p) = 0 /\ x[p] = 1
        BY <1>3, <1>7 DEF Truth
      <4>2. e # Freed
        BY <1>3, <1>6
      <4> QED
        BY <1>3, <1>5, <1>7, <3>1, <4>1, <4>2
    <3>2. CASE q # p
      <4>1. h.pkt[q] = pkt[q] /\ x[q] = Zero[q]
        BY <1>5, <3>2 DEF Zero
      <4>2. Counted(Now, Zero)
        BY <1>1 DEF Sound
      <4> QED
        BY <1>5, <4>1, <4>2, NowIs DEF Counted
    <3> QED
      BY <3>1, <3>2
  <2> QED
    BY <2>1 DEF Counted
<1>9. Queued(h) /\ Fits(h)
  BY <1>1, <1>5, NowIs DEF Sound, Queued, Fits
<1>10. Numbers(h)
  <2>1. s <= MaxSeq
    BY LspDbAssumption
  <2>2. Numbers(Now)
    BY <1>1 DEF Sound
  <2> QED
    BY <1>3, <1>5, <2>1, <2>2, NowIs DEF Numbers
<1>11. Agrees(h, {})
  <2>1. Agrees(Now, {}) /\ \A t \in Rtrs : db[t] \in Pkts \union {NULL}
    BY <1>1, NowIs DEF Sound, Memory
  <2>2. ASSUME NEW q \in Pkts
        PROVE  /\ h.pkt[q].installed_in_db <=> \E t \in Rtrs : h.db[t] = q
               /\ h.pkt[q].expiry_timer # "NULL"
                    <=> h.pkt[q].installed_in_db /\ h.pkt[q].rtr_id # Self
    <3>1. CASE q = p
      BY <1>3, <1>5, <1>7, <3>1
    <3>2. CASE q # p
      BY <1>5, <2>1, <3>2, NowIs DEF Agrees
    <3> QED
      BY <3>1, <3>2
  <2>3. \A t \in Rtrs : h.db[t] # NULL => h.pkt[h.db[t]].rtr_id = t
    BY <1>5, <1>7, <2>1, NowIs DEF Agrees
  <2>4. \A t \in Nbrs : h.ted[t] = "real" <=> t \in Rtrs /\ h.db[t] # NULL
    BY <1>5, <2>1, NowIs DEF Agrees
  <2> QED
    BY <2>2, <2>3, <2>4 DEF Agrees
<1>12. Newer(h)
  <2>1. ASSUME NEW t \in Rtrs, db[t] # NULL
        PROVE  h.pkt[db[t]].seq_no >= pkt[db[t]].seq_no
    BY <1>5, <1>7, <2>1, NumbersNat
  <2> QED
    BY <1>5, <2>1 DEF Newer
<1>13. Current(h, x)
  <2>1. Current(Now, Zero) /\ \A t \in Rtrs : db[t] \in Pkts \union {NULL}
    BY <1>1, NowIs DEF Memory
  <2>2. ASSUME NEW q \in Pkts, h.pkt[q].rtr_id = Self, h.pkt[q].flood_eligibility
        PROVE  q = h.node.self_lsp_pkt \/ h.pkt[q].ref_count = x[q]
    <3>1. CASE q = p
      BY <1>3, <1>5, <3>1
    <3>2. CASE q # p
      <4>1. h.pkt[q] = pkt[q] /\ x[q] = Zero[q]
        BY <1>5, <3>2 DEF Zero
      <4> QED
        BY <1>5, <2>1, <2>2, <4>1, NowIs DEF Current
    <3> QED
      BY <3>1, <3>2
  <2>3. db[Self] # NULL => h.pkt[node.self_lsp_pkt] = pkt[node.self_lsp_pkt]
    BY <1>5, <1>7, <2>1, Nulls, NowIs DEF Current
  <2> QED
    BY <1>5, <2>1, <2>2, <2>3, NowIs DEF Current
<1>14. h.crashed # "assert"
  BY <1>1, <1>5, NowIs DEF Sound
<1>15. Received(h, p, r, s)
  BY <1>3, <1>5, <1>6, <1>7 DEF Received
<1> QED
  BY <1>5, <1>8, <1>9, <1>10, <1>11, <1>12, <1>13, <1>14, <1>15 DEF Sound

\* An own LSP comes back: its number is taken over if it is newer than the one in the
\* database, and that one is flooded again if it is older.
LEMMA InstallOwnGood ==
  ASSUME NEW h, NEW x \in [Pkts -> Int], Good(h, x), Fits(h), ~h.node.shutdown,
         NEW p \in Pkts, NEW g, g = install_own(h, p)
  PROVE  Good(g, x)
<1> DEFINE old == h.db[Self]
<1>1. /\ h \in Memory /\ h.node \in Nodes /\ h.node.enabled /\ Sound(h, x) /\ Current(h, x)
      /\ old \in Pkts \union {NULL} /\ h.pkt[p].seq_no \in Nat
  BY Nulls DEF Good, Memory, Packets
<1>2. PICK m, k : /\ m = [h.node EXCEPT !.seq_no = h.pkt[p].seq_no]
                  /\ k = [h EXCEPT !.node = m]
  OBVIOUS
<1>3. CASE /\ old = NULL \/ h.pkt[p].seq_no > h.pkt[old].seq_no
           /\ g = schedule(k)
  <2>1. /\ m \in Nodes /\ m.seq_no = h.pkt[p].seq_no /\ m.enabled = h.node.enabled
        /\ m.self_lsp_pkt = h.node.self_lsp_pkt /\ m.shutdown = h.node.shutdown
        /\ m.pending_lsp_flood_count = h.node.pending_lsp_flood_count
    BY <1>1, <1>2 DEF Nodes
  <2>2. /\ k \in Memory /\ k.pkt = h.pkt /\ k.db = h.db /\ k.ted = h.ted /\ k.ifs = h.ifs
        /\ k.highest = h.highest /\ k.crashed = h.crashed /\ k.node = m
    BY <1>1, <1>2, <2>1 DEF Memory
  <2>3. SamePkts(k, h) /\ SameQueues(k.ifs, h.ifs) /\ k.crashed # "assert"
    BY <1>1, <2>2, SelfQueues DEF SamePkts, Sound
  <2>4. Sound(k, x)
    BY <1>1, <2>1, <2>2, <2>3, SameSound
  <2>5. Owned(k, x)
    <3>1. old # NULL => h.pkt[h.node.self_lsp_pkt].seq_no <= m.seq_no
      <4>1. ASSUME old # NULL PROVE h.pkt[h.node.self_lsp_pkt].seq_no <= m.seq_no
        <5>1. old = h.node.self_lsp_pkt /\ h.pkt[old].seq_no \in Nat
          BY <1>1, <4>1 DEF Current, Memory, Packets
        <5> QED
          BY <1>1, <1>3, <2>1, <4>1, <5>1
      <4> QED
        BY <4>1
    <3> QED
      BY <1>1, <2>1, <2>2, <3>1 DEF Current, Owned
  <2>6. k.node.enabled /\ ~k.node.shutdown
    BY <1>1, <2>1, <2>2
  <2> QED
    BY <1>3, <2>2, <2>4, <2>5, <2>6, ScheduleGood
<1>4. CASE old # NULL /\ g = flood(h, old, NULL)
  <2>1. PICK J \in SUBSET Intfs : g = queue(h, J, old)
    BY <1>4 DEF flood
  <2>2. old \in Pkts /\ old = h.node.self_lsp_pkt
    BY <1>1, <1>4 DEF Current
  <2> QED
    BY <2>1, <2>2, QueueGood
<1>5. CASE g = h
  BY <1>5
<1>6. h.node = [h.node EXCEPT !.seq_no = @] /\ [h EXCEPT !.node.seq_no = h.pkt[p].seq_no] = k
  BY <1>1, <1>2 DEF Memory, Nodes
<1> QED
  BY <1>3, <1>4, <1>5, <1>6 DEF install_own

\* The two ways a database changes for an LSP of another router.
LEMMA FirstGood ==
  ASSUME NEW h, NEW x \in [Pkts -> Int], Good(h, x), Fits(h),
         NEW p \in Pkts, NEW r \in Rtrs, r # Self, NEW nbrs,
         h.pkt[p].rtr_id = r, ~h.pkt[p].installed_in_db, h.pkt[p] # Freed,
         h.db[r] = NULL, db[r] = NULL, NEW g, g = add(h, p, nbrs)
  PROVE  Good(g, x) /\ g.pkt[p].rtr_id # Self
<1>1. h \in Memory /\ h.node.enabled /\ Sound(h, x) /\ Current(h, x)
  BY DEF Good
<1>2. g \in Memory /\ Fits(g) /\ Sound(g, x) /\ Added(g, h, p, r)
  BY <1>1, AddSound
<1>3. Current(g, x)
  <2>1. g.db[Self] = h.db[Self] /\ g.node = h.node /\ h.db[Self] \in Pkts \union {NULL}
    BY <1>1, <1>2, Nulls DEF Added, Memory
  <2>2. h.db[Self] # p
    BY <1>1, Nulls DEF Sound, Agrees
  <2>3. h.db[Self] # NULL => g.pkt[h.node.self_lsp_pkt] = h.pkt[h.node.self_lsp_pkt]
    BY <1>1, <1>2, <2>1, <2>2 DEF Added, Current
  <2>4. ASSUME NEW q \in Pkts, g.pkt[q].rtr_id = Self, g.pkt[q].flood_eligibility
        PROVE  q = h.node.self_lsp_pkt \/ g.pkt[q].ref_count = x[q]
    <3>1. q # p
      BY <1>2, <2>4 DEF Added
    <3>2. g.pkt[q] = h.pkt[q]
      BY <1>2, <3>1 DEF Added
    <3> QED
      BY <1>1, <2>4, <3>2 DEF Current
  <2> QED
    BY <1>1, <2>1, <2>3, <2>4 DEF Current
<1> QED
  BY <1>1, <1>2, <1>3 DEF Good, Added

\* The newer LSP replaces the old one or, if it is a purge, only removes it.
Newly(g, h, old, p, nbrs) ==
  \/ g = replace(ref(h, old), old, p, nbrs)
  \/ g = mark_ineligible(remove(ref(h, old), {old}), old)

\* Either way the database keeps no older LSP, and the own LSP is untouched.
LEMMA NewerGood ==
  ASSUME NEW h, NEW x \in [Pkts -> Int], NEW y \in [Pkts -> Int], Good(h, x), Fits(h),
         NEW p \in Pkts, NEW r \in Rtrs, r # Self, NEW old \in Pkts, NEW nbrs \in Lists,
         Holds(y, x, old),
         h.pkt[p].rtr_id = r, ~h.pkt[p].installed_in_db, h.pkt[p] # Freed,
         h.db[r] = old, h.pkt[p].seq_no > h.pkt[old].seq_no,
         db[r] # NULL => pkt[db[r]].seq_no \in Nat,
         NEW g, Newly(g, h, old, p, nbrs)
  PROVE  Good(g, y) /\ g.pkt[p].rtr_id # Self
<1>1. h \in Memory /\ h.node.enabled /\ Sound(h, x) /\ Current(h, x)
  BY DEF Good
<1>2. /\ h.pkt[old].installed_in_db /\ old # p /\ h.pkt[old].rtr_id = r
      /\ h.db[Self] # old /\ h.db[Self] # p
  <2>1. /\ \A q \in Pkts : h.pkt[q].installed_in_db <=> \E s \in Rtrs : h.db[s] = q
        /\ \A s \in Rtrs : h.db[s] # NULL => h.pkt[h.db[s]].rtr_id = s
    BY <1>1 DEF Sound, Agrees
  <2> QED
    BY <2>1, Nulls
<1>3. /\ g \in Memory /\ Fits(g) /\ Sound(g, y) /\ g.node = h.node
      /\ g.db[Self] = h.db[Self] /\ \A q \in Pkts \ {old, p} : g.pkt[q] = h.pkt[q]
      /\ ~g.pkt[old].flood_eligibility /\ g.pkt[p].rtr_id = r
  <2>1. CASE g = replace(ref(h, old), old, p, nbrs)
    <3>1. g \in Memory /\ Fits(g) /\ Sound(g, y) /\ Replaced(g, h, old, p, r)
      BY <1>1, <2>1, ReplaceSound
    <3> QED
      BY <3>1, Nulls DEF Replaced
  <2>2. CASE g = mark_ineligible(remove(ref(h, old), {old}), old)
    <3>1. g \in Memory /\ Fits(g) /\ Sound(g, y) /\ Ousted(g, h, old)
      BY <1>1, <1>2, <2>2, OustSound
    <3> QED
      BY <1>2, <3>1, Nulls DEF Ousted
  <2> QED
    BY <2>1, <2>2 DEF Newly
<1>4. Current(g, y)
  <2>1. h.db[Self] \in Pkts \union {NULL}
    BY <1>1, Nulls DEF Memory
  <2>2. h.db[Self] # NULL => g.pkt[h.node.self_lsp_pkt] = h.pkt[h.node.self_lsp_pkt]
    BY <1>1, <1>2, <1>3, <2>1 DEF Current
  <2>3. ASSUME NEW q \in Pkts, g.pkt[q].rtr_id = Self, g.pkt[q].flood_eligibility
        PROVE  q = h.node.self_lsp_pkt \/ g.pkt[q].ref_count = y[q]
    <3>1. q # p /\ q # old
      BY <1>3, <2>3
    <3>2. g.pkt[q] = h.pkt[q] /\ y[q] = x[q]
      BY <1>3, <3>1 DEF Holds
    <3> QED
      BY <1>1, <2>3, <3>2 DEF Current
  <2> QED
    BY <1>1, <1>3, <2>2, <2>3 DEF Current
<1> QED
  BY <1>1, <1>3, <1>4 DEF Good

\* isis_install_lsp for an LSP of another router: it is put into the database, replaces
\* the older one, is answered with the newer one, or ignored.
LEMMA InstallRemoteGood ==
  ASSUME IInv, NEW h, NEW p \in Pkts, NEW l \in Lsps, l.rtr_id # Self, NEW i \in Intfs,
         NEW x \in [Pkts -> Int], \A q \in Pkts : x[q] >= 0, Good(h, x), Fits(h),
         Received(h, p, l.rtr_id, l.seq_no), NEW g, g = install_remote(h, i, p, l)
  PROVE  Good(g, x)
<1> DEFINE r == l.rtr_id
           old == h.db[r]
           y == [q \in Pkts |-> IF q = old THEN x[q] + 1 ELSE x[q]]
<1>1. /\ r \in Rtrs /\ h \in Memory /\ Sound(h, x) /\ old \in Pkts \union {NULL}
      /\ h.db = db /\ h.pkt[p].rtr_id = r /\ h.pkt[p].seq_no = l.seq_no
      /\ ~h.pkt[p].installed_in_db /\ h.pkt[p] # Freed
  BY DEF Lsps, Good, Memory, Received
<1>2. db[r] # NULL => pkt[db[r]].seq_no \in Nat
  BY <1>1, NumbersNat
<1>3. db[Self] # NULL => pkt[db[Self]].seq_no \in Nat
  BY NumbersNat, Nulls
<1>4. CASE g = h
  BY <1>4
<1>5. CASE /\ old = NULL
           /\ g = answer(flood(add(h, p, l.nbrs), p, i), l)
  <2>1. PICK a, b : a = add(h, p, l.nbrs) /\ b = flood(a, p, i)
    OBVIOUS
  <2>2. Good(a, x) /\ a.pkt[p].rtr_id # Self
    BY <1>1, <1>5, <2>1, FirstGood
  <2>3. PICK K \in SUBSET Intfs : b = queue(a, K, p)
    BY <2>1 DEF flood
  <2>4. Good(b, x)
    BY <2>2, <2>3, QueueGood
  <2> QED
    BY <1>3, <1>5, <2>1, <2>4, AnswerGood
<1>6. ASSUME old # NULL, l.seq_no > h.pkt[old].seq_no,
             NEW m, \/ m = replace(ref(h, old), old, p, l.nbrs)
                    \/ m = mark_ineligible(remove(ref(h, old), {old}), old),
             g = deref_each(answer(flood(m, p, i), l), {old})
      PROVE  Good(g, x)
  <2>1. PICK a, b : a = flood(m, p, i) /\ b = answer(a, l)
    OBVIOUS
  <2>2. old \in Pkts /\ y \in [Pkts -> Int]
    BY <1>1, <1>6
  <2>3. Holds(y, x, old)
    BY DEF Holds
  <2> HIDE DEF y
  <2>4. Good(m, y) /\ m.pkt[p].rtr_id # Self
    <3>1. h.db[r] = old /\ r # Self /\ h.pkt[p].seq_no > h.pkt[old].seq_no
      BY <1>1, <1>6
    <3>2. PICK nbrs \in Lists : nbrs = l.nbrs
      BY DEF Lsps
    <3>3. Newly(m, h, old, p, nbrs)
      BY <1>6, <3>2 DEF Newly
    <3> HIDE DEF old, r
    <3> QED
      BY <1>1, <1>2, <2>2, <2>3, <3>1, <3>3, NewerGood
  <2>5. PICK K \in SUBSET Intfs : a = queue(m, K, p)
    BY <2>1 DEF flood
  <2>6. Good(a, y)
    BY <2>2, <2>4, <2>5, QueueGood
  <2>7. Good(b, y)
    BY <1>3, <2>1, <2>2, <2>6, AnswerGood
  <2>8. PICK n \in [Pkts -> Nat] :
          /\ deref_each(b, {old}) = deref(b, n)
          /\ \A q \in Pkts : n[q] = IF q \in {old} THEN 1 ELSE 0
    BY <2>2, EachDoes
  <2>9. \A q \in Pkts : x[q] = y[q] - n[q]
    BY <2>3, <2>8 DEF Holds
  <2>10. \A q \in Pkts : Truth(b.node.self_lsp_pkt = q) + x[q] >= 0
    <3>1. ASSUME NEW q \in Pkts PROVE x[q] >= 0 /\ x[q] \in Int
      OBVIOUS
    <3> QED
      BY <3>1 DEF Truth
  <2> QED
    BY <1>6, <2>1, <2>2, <2>7, <2>8, <2>9, <2>10, DerefGood
<1>7. CASE old # NULL /\ g = queue(h, {i}, old)
  <2>1. old \in Pkts /\ h.pkt[old].rtr_id # Self
    BY <1>1, <1>7 DEF Sound, Agrees
  <2> QED
    BY <1>7, <2>1, QueueGood
<1>8. l.purge \in BOOLEAN
  BY DEF Lsps
<1>9. CASE old = NULL
  BY <1>4, <1>5, <1>8, <1>9 DEF install_remote
<1>10. CASE old # NULL /\ l.seq_no > h.pkt[old].seq_no
  <2>1. ~(l.seq_no < h.pkt[old].seq_no)
    <3>1. old \in Pkts /\ l.seq_no \in Nat
      BY <1>1, <1>10 DEF Lsps
    <3>2. h.pkt[old].seq_no \in Nat
      BY <1>1, <3>1 DEF Memory, Packets
    <3> HIDE DEF old
    <3> QED
      BY <1>10, <3>1, <3>2
  <2>2. CASE l.purge
    <3>1. g = deref_each(answer(flood(mark_ineligible(remove(ref(h, old), {old}), old), p, i),
                                l), {old})
      BY <1>8, <1>10, <2>2, <2>1 DEF install_remote
    <3> HIDE DEF old
    <3> QED
      BY <1>6, <1>10, <3>1
  <2>3. CASE ~l.purge
    <3>1. g = deref_each(answer(flood(replace(ref(h, old), old, p, l.nbrs), p, i), l), {old})
      BY <1>8, <1>10, <2>3, <2>1 DEF install_remote
    <3> HIDE DEF old
    <3> QED
      BY <1>6, <1>10, <3>1
  <2> QED
    BY <2>2, <2>3
<1>11. CASE old # NULL /\ ~(l.seq_no > h.pkt[old].seq_no)
  BY <1>4, <1>7, <1>8, <1>11 DEF install_remote
<1> QED
  BY <1>9, <1>10, <1>11

\* isis_process_lsp_pkt: its own reference is given back when the LSP is installed.
LEMMA ReceiveSound ==
  ASSUME IInv, NEW i \in Intfs, Receive(i)
  PROVE  Outcome
<1>1. node.enabled /\ crashed = "no" /\ ~node.shutdown
  BY DEF Receive, Running
<1>2. PICK p \in Free(Now), l \in Lsps :
        LET h == [Now EXCEPT !.pkt[p] = NewPkt(l.rtr_id, l.seq_no)] IN
          Becomes(deref_each(IF l.rtr_id = Self THEN install_own(h, p)
                                                ELSE install_remote(h, i, p, l), {p}))
  BY DEF Receive
<1>3. PICK h, g, e : /\ h = [Now EXCEPT !.pkt[p] = NewPkt(l.rtr_id, l.seq_no)]
                     /\ g = IF l.rtr_id = Self THEN install_own(h, p)
                                               ELSE install_remote(h, i, p, l)
                     /\ e = deref_each(g, {p})
  OBVIOUS
<1>4. Becomes(e)
  BY <1>2, <1>3
<1>5. p \in Pkts /\ pkt[p] = Freed /\ l.rtr_id \in Rtrs /\ l.seq_no \in 1..MaxSeq
  BY FreeIs, NowIs DEF Lsps
<1>6. PICK x : x = [q \in Pkts |-> IF q = p THEN 1 ELSE 0]
  OBVIOUS
<1>7. /\ x \in [Pkts -> Int] /\ (\A q \in Pkts : x[q] >= 0)
      /\ \A q \in Pkts : x[q] = IF q \in {p} THEN 1 ELSE 0
  BY <1>6
<1>8. h \in Memory /\ Fits(h) /\ Sound(h, x) /\ Current(h, x)
      /\ Received(h, p, l.rtr_id, l.seq_no)
  BY <1>1, <1>3, <1>5, <1>6, ReceivedSound
<1>9. Good(h, x) /\ ~h.node.shutdown
  BY <1>1, <1>8 DEF Good, Received
<1>10. Good(g, x)
  BY <1>3, <1>5, <1>7, <1>8, <1>9, InstallOwnGood, InstallRemoteGood
<1>11. Good(e, Zero)
  <2>1. PICK n \in [Pkts -> Nat] :
          /\ deref_each(g, {p}) = deref(g, n)
          /\ \A q \in Pkts : n[q] = IF q \in {p} THEN 1 ELSE 0
    BY <1>5, EachDoes
  <2>2. Zero \in [Pkts -> Int] /\ \A q \in Pkts : Zero[q] = x[q] - n[q]
    BY <1>7, <2>1 DEF Zero
  <2>3. \A q \in Pkts : Truth(g.node.self_lsp_pkt = q) + Zero[q] >= 0
    BY DEF Zero, Truth
  <2> QED
    BY <1>3, <1>7, <1>10, <2>1, <2>2, <2>3, DerefGood
<1> QED
  BY <1>1, <1>4, <1>11, NowGood, Lands DEF Outcome

\* When the next LSP is made no own LSP is flooded any more, and the router's number is
\* at least that of the one in the database.
Cleared(h) ==
  /\ h.node.enabled /\ h.node.self_lsp_pkt = NULL /\ h.node.seq_no = node.seq_no
  /\ h.db = db
  /\ \A p \in Pkts : h.pkt[p].rtr_id = Self => ~h.pkt[p].flood_eligibility
  /\ h.db[Self] # NULL => h.pkt[h.db[Self]].seq_no <= h.node.seq_no

\* The first half of isis_create_fresh_lsp_pkt: the node gives its LSP up.
LEMMA OutdatedSound ==
  ASSUME IInv, node.enabled, NEW h, h = [Now EXCEPT !.node.lsp_pkt_gen_task = FALSE],
         NEW g, g = outdated(h)
  PROVE  g \in Memory /\ Fits(g) /\ Sound(g, Zero) /\ Cleared(g)
<1> DEFINE old == node.self_lsp_pkt
<1>1. /\ Now \in Memory /\ Fits(Now) /\ Sound(Now, Zero) /\ Owned(Now, Zero)
  BY NowGood
<1>2. /\ h \in Memory /\ SamePkts(h, Now) /\ h.ifs = Now.ifs /\ h.crashed = Now.crashed
      /\ h.node.self_lsp_pkt = old /\ h.node.enabled /\ h.node.seq_no = node.seq_no
      /\ h.node.pending_lsp_flood_count = Now.node.pending_lsp_flood_count
  BY <1>1, NowIs DEF Memory, Nodes, SamePkts
<1>3. SameQueues(h.ifs, Now.ifs) /\ h.crashed # "assert" /\ Agrees(Now, {})
  BY <1>1, <1>2, SelfQueues DEF Sound
<1>4. Sound(h, Zero)
  BY <1>1, <1>2, <1>3, NowIs, SameSound
<1>5. Fits(h)
  BY <1>1, <1>2, NowIs DEF Fits
<1>6. /\ old \in Pkts \union {NULL} /\ h.db = db /\ db[Self] \in Pkts \union {NULL}
      /\ db[Self] \in {NULL, old}
      /\ db[Self] # NULL => h.pkt[db[Self]].seq_no <= node.seq_no
  BY <1>1, <1>2, NowIs, Nulls DEF Owned, SamePkts, Memory, Nodes
<1>7. ASSUME NEW p \in Pkts, h.pkt[p].rtr_id = Self, h.pkt[p].flood_eligibility
      PROVE  p = old
  <2>1. h.pkt[p] # Freed
    BY <1>7, Nulls DEF Freed
  <2>2. h.pkt[p].ref_count > 0
    BY <1>4, <2>1 DEF Sound, Counted
  <2>3. h.pkt[p].ref_count # Zero[p]
    BY <2>2 DEF Zero
  <2> QED
    BY <1>1, <1>2, <1>7, <2>3, NowIs DEF Owned, SamePkts
<1>8. CASE old = NULL
  <2>1. g = h
    BY <1>2, <1>8 DEF outdated
  <2> QED
    BY <1>2, <1>4, <1>5, <1>6, <1>7, <1>8, <2>1, Nulls DEF Cleared
<1>9. CASE old # NULL
  <2> DEFINE y == [p \in Pkts |-> IF p = old THEN -1 ELSE 0]
  <2>1. PICK m, d : m = mark_ineligible(h, old) /\ d = deref_each(m, {old})
    OBVIOUS
  <2>2. old \in Pkts /\ g = [d EXCEPT !.node.self_lsp_pkt = NULL]
    BY <1>2, <1>6, <1>9, <2>1 DEF outdated
  <2>3. m \in Memory /\ Fits(m) /\ Sound(m, Zero) /\ Marked(m, h, old)
    BY <1>2, <1>4, <1>5, <2>1, <2>2, MarkSound
  <2>4. PICK n \in [Pkts -> Nat] :
          /\ d = deref(m, n)
          /\ \A p \in Pkts : n[p] = IF p \in {old} THEN 1 ELSE 0
    BY <2>1, <2>2, EachDoes
  <2>5. /\ y \in [Pkts -> Int] /\ Zero \in [Pkts -> Int]
        /\ \A p \in Pkts : y[p] = Zero[p] - n[p]
        /\ \A p \in Pkts : Truth(old = p) + y[p] = 0
        /\ \A p \in Pkts : Truth(old = p) \in Int /\ y[p] \in Int
    BY <2>4 DEF Zero, Truth
  <2> HIDE DEF y
  <2>6. \A p \in Pkts : Truth(m.node.self_lsp_pkt = p) + y[p] >= 0
    BY <1>2, <2>3, <2>5 DEF Marked
  <2>7. d \in Memory /\ Fits(d) /\ Sound(d, y) /\ Keeps(d, m)
    BY <2>3, <2>4, <2>5, <2>6, DerefSound
  <2>8. /\ g \in Memory /\ SamePkts(g, d) /\ g.ifs = d.ifs /\ g.crashed = d.crashed
        /\ g.node = [d.node EXCEPT !.self_lsp_pkt = NULL]
        /\ g.node.self_lsp_pkt = NULL /\ g.node.enabled = d.node.enabled
        /\ g.node.seq_no = d.node.seq_no
        /\ g.node.pending_lsp_flood_count = d.node.pending_lsp_flood_count
    <3>1. PICK c : c = [d.node EXCEPT !.self_lsp_pkt = NULL]
      OBVIOUS
    <3>2. d.node \in Nodes
      BY <2>7 DEF Memory
    <3>3. /\ c \in Nodes /\ c.self_lsp_pkt = NULL /\ c.enabled = d.node.enabled
          /\ c.seq_no = d.node.seq_no
          /\ c.pending_lsp_flood_count = d.node.pending_lsp_flood_count
      BY <3>1, <3>2 DEF Nodes
    <3>4. g = [d EXCEPT !.node = c]
      BY <2>2, <3>1
    <3> QED
      BY <2>7, <3>1, <3>3, <3>4 DEF Memory, SamePkts
  <2>9. Counted(g, Zero)
    <3>1. ASSUME NEW p \in Pkts
          PROVE  /\ g.pkt[p].ref_count =
                      Truth(g.pkt[p].installed_in_db) + Truth(g.node.self_lsp_pkt = p)
                        + InQueues(g.ifs, Intfs, {p}) + Zero[p]
                 /\ g.pkt[p].flood_queue_count = InQueues(g.ifs, Intfs, {p})
                 /\ g.pkt[p].ref_count > 0 <=> g.pkt[p] # Freed
      <4>1. d.node.self_lsp_pkt = old /\ g.pkt[p] = d.pkt[p]
        BY <1>2, <2>3, <2>7, <2>8 DEF Keeps, Marked, SamePkts
      <4>2. /\ d.pkt[p].ref_count =
                 Truth(d.pkt[p].installed_in_db) + Truth(old = p)
                   + InQueues(d.ifs, Intfs, {p}) + y[p]
            /\ d.pkt[p].flood_queue_count = InQueues(d.ifs, Intfs, {p})
            /\ d.pkt[p].ref_count > 0 <=> d.pkt[p] # Freed
        BY <2>7, <4>1 DEF Sound, Counted
      <4>3. Truth(g.node.self_lsp_pkt = p) = 0 /\ Zero[p] = 0
        BY <2>8, Nulls DEF Truth, Zero
      <4>4. /\ InQueues(d.ifs, Intfs, {p}) \in Int /\ Truth(d.pkt[p].installed_in_db) \in Int
            /\ Truth(old = p) + y[p] = 0 /\ Truth(old = p) \in Int /\ y[p] \in Int
        BY <2>5, CopiesFinite DEF Truth
      <4>5. d.pkt[p].ref_count = Truth(d.pkt[p].installed_in_db) + 0
                                    + InQueues(d.ifs, Intfs, {p}) + 0
        BY ONLY <4>2, <4>4
      <4> QED
        BY ONLY <2>8, <4>1, <4>2, <4>3, <4>5
    <3> QED
      BY <3>1 DEF Counted
  <2>10. Sound(g, Zero)
    <3>1. /\ Queued(d) /\ Numbers(d) /\ Agrees(d, {}) /\ Newer(d) /\ g.crashed # "assert"
      BY <2>7, <2>8 DEF Sound
    <3>2. /\ g.ifs = d.ifs /\ g.pkt = d.pkt /\ g.db = d.db /\ g.ted = d.ted
          /\ g.highest = d.highest
          /\ g.node.pending_lsp_flood_count = d.node.pending_lsp_flood_count
      BY <2>8 DEF SamePkts
    <3>3. Queued(g)
      BY ONLY <3>1, <3>2 DEF Queued
    <3>4. Numbers(g) /\ Agrees(g, {}) /\ Newer(g)
      BY ONLY <3>1, <3>2 DEF Numbers, Agrees, Newer
    <3> QED
      BY <2>9, <3>1, <3>3, <3>4 DEF Sound
  <2>11. Fits(g)
    BY <2>7, <2>8 DEF Fits
  <2>12. g.db = db /\ g.node.enabled /\ g.node.seq_no = node.seq_no
    <3>1. m.node = h.node /\ m.db = h.db
      BY <2>3 DEF Marked
    <3>2. d.db = m.db /\ d.node.enabled = m.node.enabled /\ d.node.seq_no = m.node.seq_no
      BY <2>7 DEF Keeps
    <3> QED
      BY ONLY <1>2, <1>6, <2>8, <3>1, <3>2 DEF SamePkts
  <2>13. ASSUME NEW p \in Pkts, g.pkt[p].rtr_id = Self PROVE ~g.pkt[p].flood_eligibility
    <3>1. Freed.rtr_id # Self /\ g.pkt[p] = d.pkt[p]
      BY <2>8, Nulls DEF Freed, SamePkts
    <3>2. /\ m.pkt[p].rtr_id = Self
          /\ d.pkt[p].flood_eligibility = m.pkt[p].flood_eligibility
      BY <2>7, <2>13, <3>1 DEF Keeps
    <3>3. CASE p = old
      <4>1. h.pkt[p] \in Packets /\ m.pkt[p] = [h.pkt[p] EXCEPT !.flood_eligibility = FALSE]
        BY <1>2, <2>3, <3>3 DEF Marked, Memory
      <4>2. ~m.pkt[p].flood_eligibility
        BY <4>1 DEF Packets
      <4> QED
        BY <3>1, <3>2, <4>2
    <3>4. CASE p # old
      BY <1>7, <2>3, <3>1, <3>2, <3>4 DEF Marked
    <3> QED
      BY <3>3, <3>4
  <2>14. db[Self] # NULL => g.pkt[db[Self]].seq_no <= g.node.seq_no
    <3>1. ASSUME db[Self] # NULL PROVE g.pkt[db[Self]].seq_no <= node.seq_no
      <4>1. db[Self] = old /\ h.pkt[old].seq_no <= node.seq_no
        BY <1>6, <3>1
      <4>2. m.pkt[old].installed_in_db /\ m.pkt[old].seq_no = h.pkt[old].seq_no
        <5>1. h.pkt[old].installed_in_db /\ h.pkt[old] \in Packets
          BY <1>2, <1>4, <1>6, <2>2, <4>1, Nulls DEF Sound, Agrees, Memory
        <5>2. m.pkt[old] = [h.pkt[old] EXCEPT !.flood_eligibility = FALSE]
          BY <2>3 DEF Marked
        <5> QED
          BY <5>1, <5>2 DEF Packets
      <4>3. g.pkt[old].seq_no = m.pkt[old].seq_no
        BY <2>2, <2>7, <2>8, <4>2 DEF Keeps, SamePkts
      <4> QED
        BY <4>1, <4>2, <4>3
    <3> QED
      BY <2>12, <3>1
  <2> QED
    BY <2>8, <2>10, <2>11, <2>12, <2>13, <2>14 DEF Cleared
<1> QED
  BY <1>8, <1>9

\* The fresh LSP of the router is the only one that may be flooded, and newer than the
\* one in the database.
Created(g, p) ==
  /\ g.node.enabled /\ g.node.self_lsp_pkt = p /\ g.db = db
  /\ g.pkt[p].rtr_id = Self /\ g.pkt[p].seq_no = g.node.seq_no
  /\ ~g.pkt[p].installed_in_db /\ g.pkt[p] # Freed
  /\ \A q \in Pkts : g.pkt[q].rtr_id = Self /\ g.pkt[q].flood_eligibility => q = p
  /\ db[Self] # NULL => g.pkt[p].seq_no > g.pkt[db[Self]].seq_no

\* The second half of isis_create_fresh_lsp_pkt: the address it gets is free, so that
\* the node's reference is the only one.
LEMMA CreatedSound ==
  ASSUME IInv, node.seq_no < MaxSeq, NEW h \in Memory, Fits(h), Sound(h, Zero), Cleared(h),
         NEW p \in Pkts, h.pkt[p] = Freed, NEW g, g = create_fresh(h, p)
  PROVE  g \in Memory /\ Fits(g) /\ Sound(g, Zero) /\ Created(g, p)
<1>1. /\ h.node \in Nodes /\ h.pkt \in [Pkts -> Packets] /\ h.highest \in Nat
      /\ h.node.seq_no \in Nat /\ h.node.seq_no < MaxSeq
  BY DEF Memory, Nodes, Cleared
<1>2. PICK n, m, k, e : /\ n = h.node.seq_no + 1
                        /\ m = [h.node EXCEPT !.seq_no = n, !.self_lsp_pkt = p]
                        /\ k = IF n > h.highest THEN n ELSE h.highest
                        /\ e = NewPkt(Self, n)
  OBVIOUS
<1>3. n \in Nat /\ k \in Nat /\ n <= MaxSeq /\ h.node.seq_no < n
  BY <1>1, <1>2, LspDbAssumption
<1>4. g = [h EXCEPT !.node = m, !.highest = k, !.pkt = [h.pkt EXCEPT ![p] = e]]
  BY <1>1, <1>2 DEF create_fresh, numbered, Memory, Nodes
<1>5. /\ m \in Nodes /\ m.seq_no = n /\ m.enabled = h.node.enabled /\ m.self_lsp_pkt = p
      /\ m.pending_lsp_flood_count = h.node.pending_lsp_flood_count
  BY <1>1, <1>2, <1>3 DEF Nodes
<1>6. /\ e \in Packets /\ e.rtr_id = Self /\ e.seq_no = n /\ e.ref_count = 1
      /\ e.flood_queue_count = 0 /\ e.installed_in_db = FALSE /\ e.expiry_timer = "NULL"
  BY <1>2, <1>3, Nulls DEF NewPkt, Freed, Packets
<1>7. /\ g \in Memory /\ g.db = h.db /\ g.ted = h.ted /\ g.ifs = h.ifs /\ g.node = m
      /\ g.highest = k /\ g.crashed = h.crashed
      /\ g.pkt[p] = e /\ \A q \in Pkts \ {p} : g.pkt[q] = h.pkt[q]
  <2>1. PICK P : P = [h.pkt EXCEPT ![p] = e]
    OBVIOUS
  <2>2. P \in [Pkts -> Packets] /\ P[p] = e /\ \A q \in Pkts \ {p} : P[q] = h.pkt[q]
    BY <1>1, <1>6, <2>1
  <2>3. g = [h EXCEPT !.node = m, !.highest = k, !.pkt = P]
    BY <1>4, <2>1
  <2> QED
    BY <1>3, <1>5, <2>2, <2>3 DEF Memory
<1>8. /\ Freed.ref_count = 0 /\ Freed.flood_queue_count = 0 /\ ~Freed.installed_in_db
      /\ Freed.expiry_timer = "NULL" /\ Freed.rtr_id = NULL
  BY DEF Freed
<1>9. /\ InQueues(h.ifs, Intfs, {p}) = 0 /\ (\A r \in Rtrs : h.db[r] # p)
      /\ h.node.self_lsp_pkt = NULL /\ h.db = db
      /\ \A r \in Rtrs : h.db[r] \in Pkts \union {NULL}
  <2>1. h.pkt[p].flood_queue_count = InQueues(h.ifs, Intfs, {p})
    BY DEF Sound, Counted
  <2>2. \A r \in Rtrs : h.db[r] # p
    BY <1>8 DEF Sound, Agrees
  <2> QED
    BY <1>8, <2>1, <2>2 DEF Cleared, Memory
<1>10. Counted(g, Zero)
  <2>1. ASSUME NEW q \in Pkts
        PROVE  /\ g.pkt[q].ref_count =
                    Truth(g.pkt[q].installed_in_db) + Truth(g.node.self_lsp_pkt = q)
                      + InQueues(g.ifs, Intfs, {q}) + Zero[q]
               /\ g.pkt[q].flood_queue_count = InQueues(g.ifs, Intfs, {q})
               /\ g.pkt[q].ref_count > 0 <=> g.pkt[q] # Freed
    <3>1. CASE q = p
      <4>1. Truth(e.installed_in_db) = 0 /\ Truth(m.self_lsp_pkt = p) = 1 /\ Zero[p] = 0
        BY <1>5, <1>6 DEF Truth, Zero
      <4>2. e # Freed
        BY <1>6, <1>8
      <4> QED
        BY ONLY <1>6, <1>7, <1>9, <3>1, <4>1, <4>2
    <3>2. CASE q # p
      <4>1. g.pkt[q] = h.pkt[q]
        BY <1>7, <3>2
      <4>2. Truth(m.self_lsp_pkt = q) = Truth(h.node.self_lsp_pkt = q)
        BY <1>5, <1>9, <3>2, Nulls DEF Truth
      <4>3. Counted(h, Zero) /\ q \in Pkts
        BY DEF Sound
      <4> QED
        BY ONLY <1>7, <4>1, <4>2, <4>3 DEF Counted
    <3> QED
      BY <3>1, <3>2
  <2> QED
    BY <2>1 DEF Counted
<1>11. Queued(g) /\ Fits(g)
  <2>1. Queued(h) /\ Fits(h)
    BY DEF Sound
  <2> QED
    BY ONLY <1>3, <1>5, <1>7, <2>1 DEF Queued, Fits
<1>12. Numbers(g)
  <2>1. Numbers(h) /\ k <= MaxSeq
    BY <1>2, <1>3 DEF Sound, Numbers
  <2> QED
    BY ONLY <1>3, <1>6, <1>7, <2>1 DEF Numbers
<1>13. Agrees(g, {})
  <2>1. Agrees(h, {}) /\ p \in Pkts
    BY DEF Sound
  <2>2. ASSUME NEW q \in Pkts
        PROVE  /\ g.pkt[q].installed_in_db <=> \E r \in Rtrs : g.db[r] = q
               /\ g.pkt[q].expiry_timer # "NULL"
                    <=> g.pkt[q].installed_in_db /\ g.pkt[q].rtr_id # Self
    <3>1. CASE q = p
      BY <1>6, <1>7, <1>9, <3>1
    <3>2. CASE q # p
      BY <1>7, <2>1, <3>2 DEF Agrees
    <3> QED
      BY <3>1, <3>2
  <2>3. \A r \in Rtrs : g.db[r] # NULL => g.pkt[g.db[r]].rtr_id = r
    BY <1>7, <1>9, <2>1 DEF Agrees
  <2>4. \A r \in Nbrs : g.ted[r] = "real" <=> r \in Rtrs /\ g.db[r] # NULL
    BY ONLY <1>7, <2>1 DEF Agrees
  <2> QED
    BY <2>2, <2>3, <2>4 DEF Agrees
<1>14. Newer(g)
  <2>1. Newer(h)
    BY DEF Sound
  <2> QED
    BY <1>7, <1>9, <2>1 DEF Newer
<1>15. Sound(g, Zero)
  BY <1>7, <1>10, <1>11, <1>12, <1>13, <1>14 DEF Sound
<1>16. Created(g, p)
  <2>1. ASSUME NEW q \in Pkts, g.pkt[q].rtr_id = Self, g.pkt[q].flood_eligibility
        PROVE  q = p
    BY <1>7, <2>1 DEF Cleared
  <2>2. ASSUME db[Self] # NULL PROVE g.pkt[p].seq_no > g.pkt[db[Self]].seq_no
    <3>1. db[Self] \in Pkts \ {p} /\ h.pkt[db[Self]].seq_no <= h.node.seq_no
      BY <1>9, <2>2, Nulls DEF Cleared
    <3>2. h.pkt[db[Self]].seq_no \in Nat
      BY <1>1, <3>1 DEF Packets
    <3> QED
      BY <1>1, <1>3, <1>6, <1>7, <3>1, <3>2
  <2>3. e # Freed
    BY <1>6, <1>8
  <2>4. h.node.enabled
    BY DEF Cleared
  <2> QED
    BY <1>5, <1>6, <1>7, <1>9, <2>1, <2>2, <2>3, <2>4 DEF Created
<1> QED
  BY <1>7, <1>11, <1>15, <1>16

\* The generated LSP is the one in the database when it is flooded.
LEMMA InstallGeneratedGood ==
  ASSUME IInv, NEW h \in Memory, Fits(h), Sound(h, Zero), NEW p \in Pkts, Created(h, p),
         NEW nbrs, NEW g, g = install_generated(h, p, nbrs)
  PROVE  Good(g, Zero)
<1> DEFINE old == h.db[Self]
           y == [q \in Pkts |-> IF q = old THEN 1 ELSE 0]
<1>1. /\ Self \in Rtrs /\ old \in Pkts \union {NULL} /\ h.db = db
      /\ h.pkt[p].rtr_id = Self /\ ~h.pkt[p].installed_in_db /\ h.pkt[p] # Freed
      /\ h.node.enabled /\ h.node.self_lsp_pkt = p /\ h.pkt[p].seq_no = h.node.seq_no
      /\ h.node.seq_no \in Nat
  BY Nulls DEF Created, Memory, Nodes
<1>2. db[Self] # NULL => pkt[db[Self]].seq_no \in Nat
  BY <1>1, NumbersNat
<1>3. ASSUME NEW k \in Memory, NEW x \in [Pkts -> Int], Sound(k, x),
             k.node = h.node, k.db[Self] = p, k.pkt[p].seq_no = h.pkt[p].seq_no,
             \A q \in Pkts \ {p} : k.pkt[q] = h.pkt[q] \/ ~k.pkt[q].flood_eligibility,
             NEW J \in SUBSET Intfs, NEW f, f = queue(k, J, p)
      PROVE  Good(f, x)
  <2>1. Current(k, x)
    <3>1. h.node.seq_no <= h.node.seq_no /\ p # NULL
      BY <1>1, Nulls
    <3>2. ASSUME NEW q \in Pkts, k.pkt[q].rtr_id = Self, k.pkt[q].flood_eligibility
          PROVE  q = p
      BY <1>3, <3>2 DEF Created
    <3> QED
      BY <1>1, <1>3, <3>1, <3>2 DEF Current
  <2>2. Good(k, x)
    BY <1>1, <1>3, <2>1 DEF Good
  <2> QED
    BY <1>1, <1>3, <2>2, QueueGood
<1>4. CASE old = NULL
  <2>1. PICK a : a = add(h, p, nbrs)
    OBVIOUS
  <2>2. PICK J \in SUBSET Intfs : g = queue(a, J, p)
    BY <1>4, <2>1 DEF install_generated, flood
  <2>3. Zero \in [Pkts -> Int]
    BY DEF Zero
  <2>4. a \in Memory /\ Fits(a) /\ Sound(a, Zero) /\ Added(a, h, p, Self)
    BY <1>1, <1>4, <2>1, <2>3, AddSound
  <2> QED
    BY <1>1, <1>3, <2>2, <2>3, <2>4 DEF Added
<1>5. CASE old # NULL
  <2>1. h.pkt[p].seq_no > h.pkt[old].seq_no
    BY <1>1, <1>5 DEF Created
  <2>2. PICK a, b : a = replace(ref(h, old), old, p, nbrs) /\ b = flood(a, p, NULL)
    OBVIOUS
  <2>3. PICK J \in SUBSET Intfs : b = queue(a, J, p)
    BY <2>2 DEF flood
  <2>4. g = deref_each(b, {old})
    BY <1>5, <2>1, <2>2 DEF install_generated
  <2>5. old \in Pkts /\ y \in [Pkts -> Int] /\ Zero \in [Pkts -> Int] /\ Holds(y, Zero, old)
    BY <1>1, <1>5 DEF Zero, Holds
  <2>6. PICK n \in [Pkts -> Nat] :
          /\ deref_each(b, {old}) = deref(b, n)
          /\ \A q \in Pkts : n[q] = IF q \in {old} THEN 1 ELSE 0
    BY <2>5, EachDoes
  <2>7. \A q \in Pkts : Zero[q] = y[q] - n[q]
    BY <2>6 DEF Zero
  <2>8. \A q \in Pkts : Truth(b.node.self_lsp_pkt = q) + Zero[q] >= 0
    BY DEF Truth, Zero
  <2> HIDE DEF y
  <2>9. a \in Memory /\ Fits(a) /\ Sound(a, y) /\ Replaced(a, h, old, p, Self)
    <3>1. h.db[Self] = old
      OBVIOUS
    <3> HIDE DEF old
    <3> QED
      BY <1>1, <1>2, <2>1, <2>2, <2>5, <3>1, ReplaceSound
  <2>10. Good(b, y)
    <3>1. \A q \in Pkts \ {p} : a.pkt[q] = h.pkt[q] \/ ~a.pkt[q].flood_eligibility
      BY <2>9 DEF Replaced
    <3>2. a.node = h.node /\ a.db[Self] = p /\ a.pkt[p].seq_no = h.pkt[p].seq_no
      BY <1>1, <2>9 DEF Replaced
    <3> QED
      BY <1>3, <2>5, <2>9, <2>3, <3>1, <3>2
  <2> QED
    BY <2>5, <2>6, <2>7, <2>8, <2>10, <2>4, DerefGood
<1> QED
  BY <1>4, <1>5

\* isis_generate_lsp_pkt: the fresh number is above that of the own LSP in the database,
\* so that the assertion of isis_install_lsp holds.
LEMMA GenerateLspSound ==
  ASSUME IInv, GenerateLsp
  PROVE  Outcome
<1>1. node.enabled /\ crashed = "no" /\ node.seq_no < MaxSeq
  BY DEF GenerateLsp, Running
<1>2. PICK h, g : h = [Now EXCEPT !.node.lsp_pkt_gen_task = FALSE] /\ g = outdated(h)
  OBVIOUS
<1>3. PICK nbrs : nbrs = IF node.shutdown THEN {}
                         ELSE {NbrOn[i] : i \in {j \in Intfs : ifs[j].adjacency = "up"}}
  OBVIOUS
<1>4. PICK p \in Free(g) : Becomes(install_generated(create_fresh(g, p), p, nbrs))
  BY <1>2, <1>3 DEF GenerateLsp
<1>5. PICK c, e : c = create_fresh(g, p) /\ e = install_generated(c, p, nbrs)
  OBVIOUS
<1>6. p \in Pkts /\ g.pkt[p] = Freed
  BY FreeIs
<1>7. g \in Memory /\ Fits(g) /\ Sound(g, Zero) /\ Cleared(g)
  BY <1>1, <1>2, OutdatedSound
<1>8. c \in Memory /\ Fits(c) /\ Sound(c, Zero) /\ Created(c, p)
  BY <1>1, <1>5, <1>6, <1>7, CreatedSound
<1>9. Good(e, Zero)
  BY <1>5, <1>6, <1>8, InstallGeneratedGood
<1> QED
  BY <1>1, <1>4, <1>5, <1>9, NowGood, Lands DEF Outcome

-----------------------------------------------------------------------------
(* The specification. *)

\* A stopped protocol holds nothing, so that isis_init starts from nothing.
LEMMA RestartSound ==
  ASSUME IInv, Restart
  PROVE  IInv' /\ Newest /\ AfterPurge
<1>1. /\ crashed = "no" /\ ~node.enabled /\ node' = Started
      /\ pkt' = pkt /\ db' = db /\ ted' = ted /\ ifs' = ifs /\ highest' = highest
      /\ crashed' = crashed
  BY DEF Restart
<1>2. /\ node.self_lsp_pkt = NULL /\ (\A i \in Intfs : ifs[i] = Disabled)
      /\ \A r \in Rtrs : db[r] = NULL
  BY <1>1 DEF IInv, Stopped, Off
<1>3. /\ pkt \in [Pkts -> PktFields] /\ db \in [Rtrs -> Pkts \union {NULL}]
      /\ ted \in [Nbrs -> {"absent", "fake", "real"}] /\ ifs \in [Intfs -> IntfFields]
      /\ highest \in 0..MaxSeq
  BY DEF IInv, QueuesSound, TypeOK
<1>4. ASSUME NEW p \in Pkts PROVE pkt[p] = Freed
  <2>1. /\ pkt[p].ref_count = Truth(pkt[p].installed_in_db)
                                + Truth(node.self_lsp_pkt = p) + InQueues(ifs, Intfs, {p})
        /\ pkt[p].ref_count > 0 <=> pkt[p] # Freed
    BY DEF IInv, QueuesSound, CountsExact
  <2>2. Truth(pkt[p].installed_in_db) = 0
    BY <1>2, Nulls DEF IInv, DbSound, DbConsistent, Truth
  <2>3. Truth(node.self_lsp_pkt = p) = 0
    BY <1>2, Nulls DEF Truth
  <2>4. InQueues(ifs, Intfs, {p}) = 0
    <3>1. \A i \in Intfs, q \in {p} : ifs[i].lsp_xmit_list[q] = 0
      BY <1>2 DEF Disabled, EmptyQueue
    <3>2. \A i \in Intfs, q \in {p} : ifs[i].lsp_xmit_list[q] \in 0..MaxQueue
      BY <3>1, LspDbAssumption
    <3> QED
      BY <3>1, <3>2, NoCopies
  <2>5. pkt[p].ref_count = 0
    BY <2>1, <2>2, <2>3, <2>4
  <2> QED
    BY <2>1, <2>5
<1>5. pkt = [p \in Pkts |-> Freed] /\ db = [r \in Rtrs |-> NULL]
      /\ ifs = [i \in Intfs |-> Disabled]
  BY <1>2, <1>3, <1>4
<1>6. ted \in [Nbrs -> {"absent", "fake"}]
  BY <1>2, <1>3 DEF IInv, DbSound, DbConsistent
<1>7. Fresh'
  BY <1>1, <1>3, <1>5, <1>6 DEF Fresh, Ends
<1>8. IInv'
  BY <1>7, FreshSound, PTL
<1> QED
  BY <1>1, <1>2, <1>8 DEF Newest, AfterPurge, Started

\* isis_init leaves nothing but a scheduled LSP.
LEMMA InitSound == Init => IInv
<1> SUFFICES ASSUME Init PROVE IInv
  OBVIOUS
<1>1. Fresh
  BY LspDbAssumption DEF Init, Fresh, Ends
<1> QED
  BY <1>1, FreshSound

\* Every step keeps the invariant, lets no older LSP into the database, and ends the
\* protocol only after the purge LSP.
LEMMA StepSound ==
  ASSUME IInv, Next
  PROVE  IInv' /\ Newest /\ AfterPurge
<1>1. Outcome => IInv' /\ Newest /\ AfterPurge
  BY DEF Outcome, AfterPurge
<1>2. ASSUME NEW i \in Intfs, Receive(i) PROVE IInv' /\ Newest /\ AfterPurge
  BY <1>1, <1>2, ReceiveSound
<1>3. ASSUME NEW i \in Intfs, XmitJob(i) PROVE IInv' /\ Newest /\ AfterPurge
  BY <1>3, XmitJobSound
<1>4. CASE GenerateLsp
  BY <1>1, <1>4, GenerateLspSound
<1>5. ASSUME NEW p \in Pkts, LifetimeFires(p) PROVE IInv' /\ Newest /\ AfterPurge
  BY <1>1, <1>5, LifetimeFiresSound
<1>6. ASSUME NEW p \in Pkts, LifetimeJob(p) PROVE IInv' /\ Newest /\ AfterPurge
  BY <1>1, <1>6, LifetimeJobSound
<1>7. CASE PeriodicLsp
  BY <1>1, <1>7, PeriodicLspSound
<1>8. CASE ReconciliationJob
  BY <1>1, <1>8, ReconciliationJobSound
<1>9. ASSUME NEW i \in Intfs, AdjacencyCreated(i) PROVE IInv' /\ Newest /\ AfterPurge
  BY <1>1, <1>9, AdjacencyCreatedSound
<1>10. ASSUME NEW i \in Intfs, AdjacencyUp(i) PROVE IInv' /\ Newest /\ AfterPurge
  BY <1>1, <1>10, AdjacencyUpSound
<1>11. ASSUME NEW i \in Intfs, AdjacencyDown(i) PROVE IInv' /\ Newest /\ AfterPurge
  BY <1>1, <1>11, AdjacencyDownSound
<1>12. ASSUME NEW i \in Intfs, AdjacencyDeleted(i) PROVE IInv' /\ Newest /\ AfterPurge
  BY <1>1, <1>12, AdjacencyDeletedSound
<1>13. ASSUME NEW i \in Intfs, EnableIntf(i) PROVE IInv' /\ Newest /\ AfterPurge
  BY <1>1, <1>13, EnableIntfSound
<1>14. ASSUME NEW i \in Intfs, DisableIntf(i) PROVE IInv' /\ Newest /\ AfterPurge
  BY <1>1, <1>14, DisableIntfSound
<1>15. CASE ClearLsdb
  BY <1>1, <1>15, ClearLsdbSound
<1>16. CASE Shutdown
  <2>1. ~node.shutdown
    BY <1>16 DEF Shutdown
  <2> QED
    BY <1>16, <2>1, ShutdownSound DEF AfterPurge
<1>17. CASE Restart
  BY <1>17, RestartSound
<1> QED
  BY <1>2, <1>3, <1>4, <1>5, <1>6, <1>7, <1>8, <1>9, <1>10, <1>11, <1>12, <1>13,
     <1>14, <1>15, <1>16, <1>17 DEF Next

\* The inductive invariant holds always.
LEMMA Invariance == Spec => []IInv
<1>1. IInv /\ [Next]_vars => IInv'
  <2> SUFFICES ASSUME IInv, [Next]_vars PROVE IInv'
    OBVIOUS
  <2>1. CASE Next
    BY <2>1, StepSound
  <2>2. CASE UNCHANGED vars
    BY <2>2 DEF vars, IInv, QueuesSound, DbSound, Stopped, TypeOK, CountsExact, QueuesServed,
                AssertsHold, OwnLspCurrent, DbConsistent
  <2> QED
    BY <2>1, <2>2
<1> QED
  BY <1>1, InitSound, PTL DEF Spec

\* isis_queue_lsp_pkt_for_transmission, isis_deref_isis_pkt, isis_install_lsp: for any
\* number of routers, LSPs and interfaces, references and wake-ups match the queues and
\* the database, and no assertion about them fails.
THEOREM ReferencesExact == Spec => []QueuesSound
<1>1. IInv => QueuesSound
  BY DEF IInv
<1> QED
  BY <1>1, Invariance, PTL

\* isis_add_lsp_pkt_in_lspdb, isis_remove_lsp_pkt_from_lspdb, isis_generate_lsp_pkt: the
\* database agrees with its timers, the traffic engineering database and the router's
\* own LSP, whatever comes back from the network.
THEOREM DatabaseAgrees == Spec => []DbSound
<1>1. IInv => DbSound
  BY DEF IInv
<1> QED
  BY <1>1, Invariance, PTL

\* isis_install_lsp never puts an older LSP in the place of a newer one.
THEOREM NewestStays == Spec => NewestWins
<1>1. IInv /\ [Next]_vars => [Newest]_vars
  BY StepSound
<1> QED
  BY <1>1, Invariance, PTL DEF NewestWins, Newest, Spec

\* isis_lsp_xmit_job ends the protocol only when the purge LSP has been generated and no
\* other interface has an LSP to send: pending_lsp_flood_count never misses one.
THEOREM EndsAfterPurge == Spec => ShutdownAfterPurge
<1>1. IInv /\ [Next]_vars => [AfterPurge]_vars
  BY StepSound
<1> QED
  BY <1>1, Invariance, PTL DEF ShutdownAfterPurge, AfterPurge, Spec

=============================================================================
