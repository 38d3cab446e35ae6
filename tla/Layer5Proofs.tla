---------------------------- MODULE Layer5Proofs ----------------------------
(***************************************************************************)
(* The applications of layer 5.                                            *)
(*                                                                         *)
(* Neighbourship management: ActiveIsSound is inductive: no step, in any   *)
(* order of commands, timers, jobs and hellos, breaks it.  What an         *)
(* operation makes of the data of one interface is stated in lemmas; that  *)
(* a key is always left for an adjacency needs a count of the waiting jobs.*)
(*                                                                         *)
(* Data collection: Collected, by an invariant of every moment of a        *)
(* collection: what a router has still to see, or an originator to get,    *)
(* is on its way.  The lemmas state what each handler makes of the queries *)
(* seen, the replies kept and the set of packets.                          *)
(*                                                                         *)
(* Interface groups of IS-IS: GroupsSound, by GroupInv.  A record of lists *)
(* is Good whatever commands do; while it is not disturbed it is Calm, and *)
(* then the first member of a group is one that is up.                     *)
(***************************************************************************)
EXTENDS Nmp, DdcpNet, LibGroups, SequenceTheorems, FiniteSetTheorems, WellFoundedInduction, TLAPS

\* The data of an interface, on a node whose protocol is on or off.
DataSound(d, on) ==
  /\ d \in IntfNmp \union {NULL}
  /\ d # NULL => (d.hellos # NULL <=> d.is_enabled) /\ (d.is_enabled => on)

\* The waiting jobs, next to the data of interface s.
JobsSound(js, s, d) ==
  \A k \in DOMAIN js : js[k].side = s /\ js[k].key = HELLO /\ ~js[k].freed
                         => d # NULL /\ d.hellos # NULL

\* The whole, side by side.
SidesSound ==
  \A s \in Sides : /\ traps[s] = IF node_nmp[s] THEN 1 ELSE 0
                   /\ DataSound(intf_nmp[s], node_nmp[s])
                   /\ JobsSound(jobs, s, intf_nmp[s])
NoAssertion == crashed # "assert"

LEMMA Parts == ActiveIsSound <=> TypeOK /\ NoAssertion /\ SidesSound
<1>1. TypeOK => /\ jobs \in Seq(Job)
                /\ \A s \in Sides : intf_nmp[s] \in IntfNmp \union {NULL}
  BY DEF TypeOK
<1>2. jobs \in Seq(Job) => \A k \in DOMAIN jobs : jobs[k] \in Job
  OBVIOUS
<1>3. TypeOK => \A k \in DOMAIN jobs : jobs[k].side \in Sides
  BY <1>1, <1>2 DEF Job
<1> QED BY <1>1, <1>3 DEF ActiveIsSound, DataSound, JobsSound, Hellos, SidesSound, NoAssertion

-----------------------------------------------------------------------------
(* What the operations make of the data of an interface. *)

LEMMA FieldsOfData ==
  /\ \A d \in IntfNmp : /\ d # NULL /\ d.is_enabled \in BOOLEAN
                        /\ d.hellos \in Hello \union {NULL}
                        /\ d.adjacency \in Adjacency \union {NULL}
  /\ Fresh \in IntfNmp /\ Fresh.hellos = NULL /\ ~Fresh.is_enabled
BY NmpAssumption DEF IntfNmp, Fresh

\* nbrship_mgmt_activate_nmp_on_interface
LEMMA ActivatedFacts ==
  ASSUME NEW s \in Sides, subnet[s] \in Subnets, NEW on \in BOOLEAN, NEW d,
         DataSound(d, on) \/ DataSound(d, FALSE)
  PROVE  /\ DataSound(activated(d, s, on), on)
         /\ d # NULL /\ d.hellos # NULL
              => activated(d, s, on) # NULL /\ activated(d, s, on).hellos # NULL
<1> DEFINE e == [d EXCEPT !.is_enabled = TRUE]
           h == [subnet |-> subnet[s]]
<1>1. CASE d = NULL \/ ~on
  BY <1>1 DEF activated, DataSound
<1>2. CASE d # NULL /\ on
  <2>1. d \in IntfNmp
    BY <1>2 DEF DataSound
  <2>2. e \in IntfNmp /\ e.hellos = d.hellos /\ e.is_enabled
    BY <2>1 DEF IntfNmp
  <2>3. h \in Hello /\ h # NULL
    BY NmpAssumption DEF Hello
  <2>4. activated(d, s, on) = IF e.hellos # NULL THEN e ELSE [e EXCEPT !.hellos = h]
    BY <1>2 DEF activated, scheduled
  <2> HIDE DEF e, h
  <2>5. [e EXCEPT !.hellos = h] \in IntfNmp /\ [e EXCEPT !.hellos = h].hellos = h
          /\ [e EXCEPT !.hellos = h].is_enabled
    BY <2>2, <2>3 DEF IntfNmp
  <2> QED BY <1>2, <2>2, <2>3, <2>4, <2>5, FieldsOfData DEF DataSound
<1> QED BY <1>1, <1>2

\* nbrship_mgmt_deactivate_nmp_on_interface
LEMMA DeactivatedFacts ==
  ASSUME NEW d, NEW on \in BOOLEAN, DataSound(d, on)
  PROVE  DataSound(deactivated(d), FALSE)
<1>1. CASE d = NULL \/ ~d.is_enabled
  BY <1>1 DEF deactivated, DataSound
<1>2. CASE d # NULL /\ d.is_enabled
  <2> DEFINE e == [d EXCEPT !.is_enabled = FALSE]
  <2>1. d \in IntfNmp
    BY <1>2 DEF DataSound
  <2>2. e \in IntfNmp /\ ~e.is_enabled
    BY <2>1 DEF IntfNmp
  <2>3. deactivated(d) = [e EXCEPT !.hellos = NULL]
    BY <1>2 DEF deactivated, stopped
  <2> HIDE DEF e
  <2>4. [e EXCEPT !.hellos = NULL] \in IntfNmp /\ ~[e EXCEPT !.hellos = NULL].is_enabled
          /\ [e EXCEPT !.hellos = NULL].hellos = NULL
    BY <2>2 DEF IntfNmp
  <2> QED BY <2>3, <2>4 DEF DataSound
<1> QED BY <1>1, <1>2

\* delete_interface_adjacency and update_interface_adjacency_from_hello leave the
\* hellos alone.
LEMMA AdjacencyFacts ==
  ASSUME NEW d \in IntfNmp, NEW a \in Adjacency \union {NULL}, NEW on, DataSound(d, on)
  PROVE  /\ DataSound([d EXCEPT !.adjacency = a], on)
         /\ [d EXCEPT !.adjacency = a].hellos = d.hellos
         /\ [d EXCEPT !.adjacency = a] # NULL
<1> DEFINE e == [d EXCEPT !.adjacency = a]
<1>1. e \in IntfNmp /\ e.hellos = d.hellos /\ e.is_enabled = d.is_enabled
  BY DEF IntfNmp
<1> HIDE DEF e
<1>2. e # NULL
  BY <1>1, FieldsOfData
<1>3. DataSound(e, on)
  BY <1>1, FieldsOfData DEF DataSound
<1> QED BY <1>1, <1>2, <1>3 DEF e

-----------------------------------------------------------------------------
(* Jobs and keys. *)

\* free: the jobs are the same, and those that point there are marked.
LEMMA FreeInFacts ==
  ASSUME NEW js \in Seq(Job), NEW s \in Sides, NEW key
  PROVE  /\ FreeIn(js, s, key) \in Seq(Job) /\ Len(FreeIn(js, s, key)) = Len(js)
         /\ \A r \in Sides : \A d : JobsSound(js, r, d) => JobsSound(FreeIn(js, s, key), r, d)
         /\ key = HELLO => \A d : JobsSound(FreeIn(js, s, key), s, d)
<1> DEFINE mark(j) == IF j.side = s /\ j.key = key THEN [j EXCEPT !.freed = TRUE] ELSE j
           new == [k \in 1..Len(js) |-> mark(js[k])]
<1>1. FreeIn(js, s, key) = new
  BY DEF FreeIn
<1>2. ASSUME NEW j \in Job
      PROVE  /\ mark(j) \in Job /\ mark(j).side = j.side /\ mark(j).key = j.key
             /\ j.freed => mark(j).freed
             /\ j.side = s /\ j.key = key => mark(j).freed
  BY DEF Job
<1> HIDE DEF mark
<1>3. Len(js) \in Nat /\ \A k \in 1..Len(js) : js[k] \in Job
  OBVIOUS
<1>4. /\ new \in Seq(Job) /\ Len(new) = Len(js) /\ DOMAIN new = 1..Len(js)
      /\ \A k \in 1..Len(js) : new[k] = mark(js[k])
  BY <1>2, <1>3
<1> HIDE DEF new
<1>5. DOMAIN js = 1..Len(js)
  OBVIOUS
<1>6. ASSUME NEW r \in Sides, NEW d, JobsSound(js, r, d) PROVE JobsSound(new, r, d)
  BY <1>2, <1>3, <1>4, <1>5, <1>6 DEF JobsSound
<1>7. ASSUME key = HELLO, NEW d PROVE JobsSound(new, s, d)
  BY <1>2, <1>3, <1>4, <1>7 DEF JobsSound
<1> QED BY <1>1, <1>4, <1>6, <1>7

\* calloc: each waiting job holds one key at most, so one is left.
LEMMA KeyIsLeft ==
  ASSUME TypeOK, NEW s \in Sides
  PROVE  new_key(s) \in Keys
<1> DEFINE own == {j \in DOMAIN jobs : jobs[j].side = s}
           held == {jobs[k].key : k \in own}
<1>1. Len(jobs) \in Nat /\ Len(jobs) <= MaxJobs /\ DOMAIN jobs = 1..Len(jobs)
  <2>1. jobs \in Seq(Job) /\ Len(jobs) <= MaxJobs
    BY DEF TypeOK
  <2> QED BY <2>1
<1>2. IsFiniteSet(1..Len(jobs)) /\ Cardinality(1..Len(jobs)) = Len(jobs)
  <2> DEFINE a == 1  b == Len(jobs)
  <2>1. a \in Int /\ a = 1
    OBVIOUS
  <2>2. b \in Nat /\ b \in Int
    BY <1>1
  <2> HIDE DEF a, b
  <2>3. IsFiniteSet(a..b) /\ Cardinality(a..b) = IF a > b THEN 0 ELSE b - a + 1
    BY <2>1, <2>2, FS_Interval
  <2>4. Cardinality(a..b) = b
    BY <2>1, <2>2, <2>3
  <2> QED BY <2>3, <2>4 DEF a, b
<1>3. IsFiniteSet(own) /\ Cardinality(own) <= Len(jobs)
  BY <1>1, <1>2, FS_Subset
<1>4. IsFiniteSet(held) /\ Cardinality(held) <= Cardinality(own)
  <2> DEFINE f == [k \in own |-> jobs[k].key]
  <2>1. f \in Surjection(own, held)
    BY DEF Surjection
  <2> QED BY <1>3, <2>1, FS_Surjection
<1>5. /\ Cardinality(Keys) > MaxJobs /\ IsFiniteSet(Keys) /\ MaxJobs \in Nat
      /\ Cardinality(Keys) \in Nat /\ Cardinality(held) \in Nat /\ Cardinality(own) \in Nat
  BY <1>3, <1>4, NmpAssumption, FS_CardinalityType
<1>6. \E r \in Keys : r \notin held
  <2> SUFFICES ASSUME Keys \subseteq held PROVE FALSE
    OBVIOUS
  <2>1. Cardinality(Keys) <= Cardinality(held)
    BY <1>4, FS_Subset
  <2> QED BY <1>1, <1>3, <1>4, <1>5, <2>1
<1> QED BY <1>6 DEF new_key

-----------------------------------------------------------------------------
(* The steps. *)

LEMMA InitHolds == Init => ActiveIsSound
<1> SUFFICES ASSUME Init PROVE ActiveIsSound
  OBVIOUS
<1>1. TypeOK
  <2>1. jobs \in Seq(Job) /\ Len(jobs) = 0 /\ frames \in Seq(Frame) /\ Len(frames) = 0
    BY DEF Init
  <2> QED BY <2>1, NmpAssumption DEF Init, TypeOK
<1>2. \A s \in Sides : DataSound(intf_nmp[s], node_nmp[s]) /\ JobsSound(jobs, s, intf_nmp[s])
  BY DEF Init, DataSound, JobsSound
<1> QED BY <1>1, <1>2, Parts DEF Init, SidesSound, NoAssertion

\* A node has its trap exactly while the protocol is on.
NodesSound == /\ node_nmp \in [Sides -> BOOLEAN] /\ traps \in [Sides -> Nat]
              /\ \A s \in Sides : traps[s] = IF node_nmp[s] THEN 1 ELSE 0

\* A step that changes the data and the jobs of one side only.
LEMMA SideKeeps ==
  ASSUME ActiveIsSound, NEW s \in Sides, NEW d,
         NodesSound', \A r \in Sides \ {s} : node_nmp'[r] = node_nmp[r],
         intf_nmp' = [intf_nmp EXCEPT ![s] = d], DataSound(d, node_nmp'[s]),
         jobs' \in Seq(Job), Len(jobs') <= MaxJobs, JobsSound(jobs', s, d),
         \A r \in Sides \ {s} : JobsSound(jobs', r, intf_nmp[r]),
         subnet' \in [Sides -> Subnets], frames' \in Seq(Frame), Len(frames') <= MaxFrames,
         changes' \in 0..MaxChanges, crashed' \in {"no", "freed pointer"}
  PROVE  ActiveIsSound'
<1>1. /\ intf_nmp \in [Sides -> IntfNmp \union {NULL}]
      /\ \A r \in Sides : DataSound(intf_nmp[r], node_nmp[r])
  <2>1. TypeOK
    BY DEF ActiveIsSound
  <2> QED BY <2>1, Parts DEF TypeOK, SidesSound
<1>2. d \in IntfNmp \union {NULL}
  BY DEF DataSound
<1>3. /\ intf_nmp'[s] = d /\ \A r \in Sides \ {s} : intf_nmp'[r] = intf_nmp[r]
      /\ intf_nmp' \in [Sides -> IntfNmp \union {NULL}]
  BY <1>1, <1>2
<1>4. TypeOK'
  BY <1>3 DEF TypeOK, NodesSound
<1>5. ASSUME NEW r \in Sides
      PROVE  DataSound(intf_nmp'[r], node_nmp'[r]) /\ JobsSound(jobs', r, intf_nmp'[r])
  <2>1. CASE r = s
    BY <1>3, <2>1
  <2>2. CASE r # s
    BY <1>1, <1>3, <2>2
  <2> QED BY <2>1, <2>2
<1>6. SidesSound'
  BY <1>5 DEF SidesSound, DataSound, JobsSound, NodesSound
<1>7. NoAssertion'
  BY DEF NoAssertion
<1> QED BY <1>4, <1>6, <1>7, Parts, PTL

\* What the invariant says of each variable, and of the side of a step.
LEMMA Facts ==
  ASSUME ActiveIsSound
  PROVE  /\ node_nmp \in [Sides -> BOOLEAN] /\ traps \in [Sides -> Nat]
         /\ subnet \in [Sides -> Subnets] /\ intf_nmp \in [Sides -> IntfNmp \union {NULL}]
         /\ jobs \in Seq(Job) /\ Len(jobs) <= MaxJobs
         /\ frames \in Seq(Frame) /\ Len(frames) <= MaxFrames
         /\ changes \in 0..MaxChanges /\ crashed \in {"no", "freed pointer"}
         /\ \A s \in Sides : /\ traps[s] = IF node_nmp[s] THEN 1 ELSE 0
                             /\ DataSound(intf_nmp[s], node_nmp[s])
                             /\ JobsSound(jobs, s, intf_nmp[s])
<1>1. TypeOK /\ crashed # "assert" /\ SidesSound
  BY Parts DEF NoAssertion
<1> QED BY <1>1 DEF TypeOK, SidesSound

\* stop_interface_hellos is called where there are hellos.
LEMMA HelloFreedFacts ==
  ASSUME ActiveIsSound, NEW s \in Sides
  PROVE  /\ HelloFreed(s) \in Seq(Job) /\ Len(HelloFreed(s)) <= MaxJobs
         /\ \A d : JobsSound(HelloFreed(s), s, d)
         /\ \A r \in Sides : JobsSound(HelloFreed(s), r, intf_nmp[r])
<1>1. /\ jobs \in Seq(Job) /\ Len(jobs) <= MaxJobs /\ DataSound(intf_nmp[s], node_nmp[s])
      /\ \A r \in Sides : JobsSound(jobs, r, intf_nmp[r])
  BY Facts
<1>2. CASE intf_nmp[s] = NULL \/ ~intf_nmp[s].is_enabled
  <2>1. \A d : JobsSound(jobs, s, d)
    BY <1>1, <1>2 DEF JobsSound, DataSound
  <2> QED BY <1>1, <1>2, <2>1 DEF HelloFreed
<1>3. CASE ~(intf_nmp[s] = NULL \/ ~intf_nmp[s].is_enabled)
  BY <1>1, <1>3, FreeInFacts DEF HelloFreed
<1> QED BY <1>2, <1>3

\* wheel_fn: a hello job is queued only where there are hellos.
LEMMA QueueFacts ==
  ASSUME ActiveIsSound, NEW s \in Sides, NEW key \in Keys \union {HELLO}, Queue(s, key)
  PROVE  /\ jobs' \in Seq(Job) /\ Len(jobs') <= MaxJobs
         /\ \A r \in Sides : \A d :
              JobsSound(jobs, r, d) /\ (r = s /\ key = HELLO => d # NULL /\ d.hellos # NULL)
                => JobsSound(jobs', r, d)
<1> DEFINE j == [side |-> s, key |-> key, freed |-> FALSE]
<1>1. jobs \in Seq(Job) /\ Len(jobs) < MaxJobs /\ MaxJobs \in Nat /\ jobs' = Append(jobs, j)
  BY Facts, NmpAssumption DEF Queue
<1>2. j \in Job /\ j.side = s /\ j.key = key
  BY DEF Job
<1> HIDE DEF j
<1>3. /\ jobs' \in Seq(Job) /\ Len(jobs') <= MaxJobs
      /\ DOMAIN jobs' = 1..(Len(jobs) + 1) /\ DOMAIN jobs = 1..Len(jobs)
      /\ jobs'[Len(jobs) + 1] = j /\ \A k \in DOMAIN jobs : jobs'[k] = jobs[k]
  BY <1>1, <1>2
<1>4. ASSUME NEW r \in Sides, NEW d, JobsSound(jobs, r, d),
             r = s /\ key = HELLO => d # NULL /\ d.hellos # NULL
      PROVE  JobsSound(jobs', r, d)
  <2> SUFFICES ASSUME NEW k \in DOMAIN jobs', jobs'[k].side = r, jobs'[k].key = HELLO, ~jobs'[k].freed
               PROVE  d # NULL /\ d.hellos # NULL
    BY DEF JobsSound
  <2>1. CASE k \in DOMAIN jobs
    BY <1>3, <1>4, <2>1 DEF JobsSound
  <2>2. CASE k \notin DOMAIN jobs
    <3>1. jobs'[k] = j
      BY <1>1, <1>3, <2>2
    <3> QED BY <1>2, <1>4, <3>1
  <2> QED BY <2>1, <2>2
<1> QED BY <1>3, <1>4

\* The dispatcher takes the first job.
LEMMA TailFacts ==
  ASSUME ActiveIsSound, jobs # <<>>
  PROVE  /\ Head(jobs) \in Job /\ Tail(jobs) \in Seq(Job) /\ Len(Tail(jobs)) <= MaxJobs
         /\ \A r \in Sides : \A d : JobsSound(jobs, r, d) => JobsSound(Tail(jobs), r, d)
         /\ \A r \in Sides : JobsSound(Tail(jobs), r, intf_nmp[r])
         /\ \A r \in Sides : Head(jobs).side = r /\ Head(jobs).key = HELLO /\ ~Head(jobs).freed
                              => intf_nmp[r] # NULL /\ intf_nmp[r].hellos # NULL
<1>1. /\ jobs \in Seq(Job) /\ Len(jobs) <= MaxJobs /\ MaxJobs \in Nat
      /\ \A r \in Sides : JobsSound(jobs, r, intf_nmp[r])
  BY Facts, NmpAssumption
<1>2. /\ Head(jobs) \in Job /\ Tail(jobs) \in Seq(Job) /\ Len(Tail(jobs)) <= MaxJobs
      /\ Head(jobs) = jobs[1] /\ 1 \in DOMAIN jobs
      /\ \A k \in DOMAIN Tail(jobs) : k + 1 \in DOMAIN jobs /\ Tail(jobs)[k] = jobs[k + 1]
  BY <1>1
<1>3. \A r \in Sides : \A d : JobsSound(jobs, r, d) => JobsSound(Tail(jobs), r, d)
  BY <1>2 DEF JobsSound
<1>4. \A r \in Sides : Head(jobs).side = r /\ Head(jobs).key = HELLO /\ ~Head(jobs).freed
                              => intf_nmp[r] # NULL /\ intf_nmp[r].hellos # NULL
  BY <1>1, <1>2 DEF JobsSound
<1> QED BY <1>1, <1>2, <1>3, <1>4

\* The commands.
LEMMA CommandKeeps ==
  ASSUME ActiveIsSound, crashed = "no", NEW s \in Sides,
         \/ EnableNode(s) \/ DisableNode(s) \/ EnableIntf(s) \/ DisableIntf(s)
         \/ \E new \in Subnets : ConfigIp(s, new)
  PROVE  ActiveIsSound'
<1> DEFINE d == intf_nmp[s]  on == node_nmp[s]
<1>1. /\ node_nmp \in [Sides -> BOOLEAN] /\ traps \in [Sides -> Nat]
      /\ subnet \in [Sides -> Subnets] /\ intf_nmp \in [Sides -> IntfNmp \union {NULL}]
      /\ jobs \in Seq(Job) /\ Len(jobs) <= MaxJobs
      /\ frames \in Seq(Frame) /\ Len(frames) <= MaxFrames
      /\ changes \in 0..MaxChanges /\ MaxChanges \in Nat
      /\ traps[s] = (IF on THEN 1 ELSE 0) /\ DataSound(d, on)
      /\ \A r \in Sides : JobsSound(jobs, r, intf_nmp[r])
  BY Facts, NmpAssumption
<1>2. /\ on \in BOOLEAN /\ subnet[s] \in Subnets /\ NodesSound
      /\ intf_nmp = [intf_nmp EXCEPT ![s] = d]
  BY <1>1, Facts DEF NodesSound
<1>8. UNCHANGED <<node_nmp, traps>> => /\ NodesSound' /\ node_nmp'[s] = on
                                     /\ \A r \in Sides \ {s} : node_nmp'[r] = node_nmp[r]
  BY <1>2 DEF NodesSound
<1>3. CASE EnableNode(s)
  <2> DEFINE e == activated(d, s, TRUE)
  <2>1. /\ ~on /\ node_nmp' = [node_nmp EXCEPT ![s] = TRUE]
        /\ intf_nmp' = [intf_nmp EXCEPT ![s] = e]
        /\ traps' = [traps EXCEPT ![s] = 1]
        /\ UNCHANGED <<subnet, jobs, frames, changes, crashed>>
    BY <1>1, <1>3 DEF EnableNode
  <2>2. DataSound(e, TRUE) /\ (d # NULL /\ d.hellos # NULL => e # NULL /\ e.hellos # NULL)
    BY <1>1, <1>2, <2>1, ActivatedFacts
  <2> HIDE DEF e
  <2>3. JobsSound(jobs, s, e)
    BY <1>1, <2>2 DEF JobsSound
  <2>4. NodesSound' /\ node_nmp'[s] /\ \A r \in Sides \ {s} : node_nmp'[r] = node_nmp[r]
    BY <1>1, <1>2, <2>1 DEF NodesSound
  <2>5. DataSound(e, node_nmp'[s])
    BY <2>2, <2>4 DEF DataSound
  <2> QED BY <1>1, <2>1, <2>3, <2>4, <2>5, SideKeeps
<1>4. CASE DisableNode(s)
  <2> DEFINE e == deactivated(d)
  <2>1. /\ on /\ node_nmp' = [node_nmp EXCEPT ![s] = FALSE]
        /\ intf_nmp' = [intf_nmp EXCEPT ![s] = e] /\ jobs' = HelloFreed(s)
        /\ traps' = [traps EXCEPT ![s] = 0]
        /\ UNCHANGED <<subnet, frames, changes, crashed>>
    BY <1>1, <1>4 DEF DisableNode
  <2>2. DataSound(e, FALSE)
    BY <1>1, <1>2, DeactivatedFacts
  <2> HIDE DEF e
  <2>3. NodesSound' /\ ~node_nmp'[s] /\ \A r \in Sides \ {s} : node_nmp'[r] = node_nmp[r]
    BY <1>1, <1>2, <2>1 DEF NodesSound
  <2>4. DataSound(e, node_nmp'[s])
    BY <2>2, <2>3 DEF DataSound
  <2> QED BY <1>1, <2>1, <2>3, <2>4, HelloFreedFacts, SideKeeps
<1>5. CASE EnableIntf(s)
  <2> DEFINE b == IF d = NULL THEN Fresh ELSE d
             e == activated(b, s, on)
  <2>1. DataSound(b, on) /\ ~(~on /\ b.is_enabled)
    BY <1>1, FieldsOfData DEF DataSound
  <2>2. /\ intf_nmp' = [intf_nmp EXCEPT ![s] = e] /\ crashed' = crashed
        /\ UNCHANGED <<node_nmp, traps, subnet, jobs, frames, changes>>
    BY <1>5, <2>1 DEF EnableIntf
  <2>3. DataSound(e, on) /\ (b # NULL /\ b.hellos # NULL => e # NULL /\ e.hellos # NULL)
    BY <1>2, <2>1, ActivatedFacts
  <2> HIDE DEF e
  <2>4. JobsSound(jobs, s, e)
    BY <1>1, <2>3 DEF JobsSound
  <2> QED BY <1>1, <1>8, <2>2, <2>3, <2>4, SideKeeps
<1>6. CASE DisableIntf(s)
  <2>1. /\ intf_nmp' = [intf_nmp EXCEPT ![s] = NULL] /\ jobs' = HelloFreed(s)
        /\ UNCHANGED <<node_nmp, traps, subnet, frames, changes, crashed>>
    BY <1>6 DEF DisableIntf
  <2>2. DataSound(NULL, on)
    BY DEF DataSound
  <2> QED BY <1>1, <1>8, <2>1, <2>2, HelloFreedFacts, SideKeeps
<1>7. ASSUME NEW new \in Subnets, ConfigIp(s, new) PROVE ActiveIsSound'
  <2>1. /\ subnet' = [subnet EXCEPT ![s] = new] /\ changes' = changes + 1 /\ changes < MaxChanges
        /\ UNCHANGED <<node_nmp, traps, intf_nmp, jobs, frames, crashed>>
    BY <1>7 DEF ConfigIp
  <2>2. subnet' \in [Sides -> Subnets] /\ changes' \in 0..MaxChanges
    BY <1>1, <2>1
  <2> QED BY <1>1, <1>2, <1>8, <2>1, <2>2, SideKeeps
<1> QED BY <1>3, <1>4, <1>5, <1>6, <1>7

\* Timers, jobs and hellos change the adjacency of one side at most.
LEMMA AdjacencyKeeps ==
  ASSUME ActiveIsSound, NEW s \in Sides, NEW a \in Adjacency \union {NULL},
         intf_nmp' = [intf_nmp EXCEPT ![s] = IF @ = NULL THEN NULL ELSE [@ EXCEPT !.adjacency = a]]
           \/ intf_nmp' = intf_nmp,
         jobs' \in Seq(Job), Len(jobs') <= MaxJobs,
         \A r \in Sides : JobsSound(jobs', r, intf_nmp[r]),
         frames' \in Seq(Frame), Len(frames') <= MaxFrames, crashed' \in {"no", "freed pointer"},
         UNCHANGED <<node_nmp, traps, subnet, changes>>
  PROVE  ActiveIsSound'
<1> DEFINE d == intf_nmp[s]
           e == IF intf_nmp' = intf_nmp \/ d = NULL THEN d ELSE [d EXCEPT !.adjacency = a]
<1>1. /\ intf_nmp \in [Sides -> IntfNmp \union {NULL}] /\ DataSound(d, node_nmp[s])
      /\ subnet \in [Sides -> Subnets] /\ changes \in 0..MaxChanges /\ NodesSound
  BY Facts DEF NodesSound
<1>2. intf_nmp' = [intf_nmp EXCEPT ![s] = e]
  BY <1>1
<1>3. /\ DataSound(e, node_nmp[s])
      /\ d # NULL /\ d.hellos # NULL => e # NULL /\ e.hellos # NULL
  <2>1. CASE intf_nmp' = intf_nmp \/ d = NULL
    BY <1>1, <2>1
  <2>2. CASE ~(intf_nmp' = intf_nmp \/ d = NULL)
    BY <1>1, <2>2, AdjacencyFacts DEF DataSound
  <2> QED BY <2>1, <2>2
<1> HIDE DEF e
<1>4. JobsSound(jobs', s, e)
  BY <1>3 DEF JobsSound
<1>5. NodesSound' /\ (\A r \in Sides : node_nmp'[r] = node_nmp[r])
  BY <1>1 DEF NodesSound
<1>6. DataSound(e, node_nmp'[s]) /\ subnet' \in [Sides -> Subnets] /\ changes' \in 0..MaxChanges
  BY <1>1, <1>3
<1> QED BY <1>2, <1>4, <1>5, <1>6, SideKeeps

LEMMA WorkKeeps ==
  ASSUME ActiveIsSound, crashed = "no",
         \/ \E s \in Sides : HelloTimer(s) \/ ExpiryTimer(s)
         \/ RunJob
         \/ RecvHello
  PROVE  ActiveIsSound'
<1>1. /\ intf_nmp \in [Sides -> IntfNmp \union {NULL}]
      /\ jobs \in Seq(Job) /\ Len(jobs) <= MaxJobs
      /\ frames \in Seq(Frame) /\ Len(frames) <= MaxFrames /\ MaxFrames \in Nat
      /\ \A r \in Sides : JobsSound(jobs, r, intf_nmp[r])
      /\ HELLO \notin Keys /\ NULL \notin Adjacency
      /\ \A s \in Sides : intf_nmp[s] # NULL
           => intf_nmp[s] \in IntfNmp /\ intf_nmp[s].adjacency \in Adjacency \union {NULL}
  BY Facts, FieldsOfData, NmpAssumption
<1>2. ASSUME NEW s \in Sides, HelloTimer(s) PROVE ActiveIsSound'
  <2>1. /\ intf_nmp[s] # NULL /\ intf_nmp[s].hellos # NULL /\ Queue(s, HELLO)
        /\ UNCHANGED <<node_nmp, traps, subnet, intf_nmp, frames, changes, crashed>>
    BY <1>2 DEF HelloTimer
  <2>2. /\ jobs' \in Seq(Job) /\ Len(jobs') <= MaxJobs
        /\ \A r \in Sides : JobsSound(jobs', r, intf_nmp[r])
    <3>1. /\ jobs' \in Seq(Job) /\ Len(jobs') <= MaxJobs
          /\ \A r \in Sides : \A d : JobsSound(jobs, r, d) /\ (r = s => d # NULL /\ d.hellos # NULL)
                                  => JobsSound(jobs', r, d)
      BY <2>1, QueueFacts
    <3> QED BY <1>1, <2>1, <3>1
  <2> QED BY <1>1, <2>1, <2>2, AdjacencyKeeps
<1>3. ASSUME NEW s \in Sides, ExpiryTimer(s) PROVE ActiveIsSound'
  <2> DEFINE a == intf_nmp[s].adjacency  b == [a EXCEPT !.expiry_timer = "expired"]
  <2>1. /\ intf_nmp[s] # NULL /\ a # NULL /\ Queue(s, a.adj_key)
        /\ intf_nmp' = [intf_nmp EXCEPT ![s].adjacency.expiry_timer = "expired"]
        /\ UNCHANGED <<node_nmp, traps, subnet, frames, changes, crashed>>
    BY <1>3 DEF ExpiryTimer
  <2>2. a \in Adjacency /\ a.adj_key \in Keys /\ b \in Adjacency
    <3>1. a \in Adjacency
      BY <1>1, <2>1
    <3> QED BY <3>1 DEF Adjacency
  <2>3. intf_nmp' = [intf_nmp EXCEPT ![s] = IF @ = NULL THEN NULL ELSE [@ EXCEPT !.adjacency = b]]
    BY <1>1, <2>1
  <2>4. /\ jobs' \in Seq(Job) /\ Len(jobs') <= MaxJobs
        /\ \A r \in Sides : JobsSound(jobs', r, intf_nmp[r])
    <3> HIDE DEF a
    <3>1. /\ jobs' \in Seq(Job) /\ Len(jobs') <= MaxJobs
          /\ \A r \in Sides : \A d : JobsSound(jobs, r, d) => JobsSound(jobs', r, d)
      BY <1>1, <2>1, <2>2, QueueFacts
    <3> QED BY <1>1, <3>1
  <2> HIDE DEF a, b
  <2> QED BY <1>1, <2>1, <2>2, <2>3, <2>4, AdjacencyKeeps
<1>4. CASE RunJob
  <2> DEFINE j == Head(jobs)  s == j.side
  <2>1. /\ jobs # <<>> /\ UNCHANGED <<node_nmp, traps, subnet, changes>>
        /\ j \in Job /\ s \in Sides /\ j.key \in Keys \union {HELLO} /\ j.freed \in BOOLEAN
    BY <1>4, TailFacts DEF RunJob, Job
  <2>2. /\ Tail(jobs) \in Seq(Job) /\ Len(Tail(jobs)) <= MaxJobs
        /\ \A r \in Sides : JobsSound(Tail(jobs), r, intf_nmp[r])
    BY <2>1, TailFacts
  <2>3. CASE j.freed
    <3>1. crashed' = "freed pointer" /\ UNCHANGED <<intf_nmp, jobs, frames>>
      BY <1>4, <2>3 DEF RunJob
    <3> QED BY <1>1, <2>1, <3>1, AdjacencyKeeps
  <2>4. CASE ~j.freed /\ j.key = HELLO
    <3>1. TransmitHello(s) /\ UNCHANGED crashed
      BY <1>4, <2>4 DEF RunJob
    <3> DEFINE f == [to |-> Other(s), subnet |-> intf_nmp[s].hellos.subnet]
    <3>2. f \in Frame
      <4>1. intf_nmp[s] # NULL /\ intf_nmp[s].hellos # NULL
        BY <2>1, <2>4, TailFacts
      <4>2. intf_nmp[s].hellos \in Hello
        BY <1>1, <2>1, <4>1, FieldsOfData
      <4>3. Other(s) \in Sides
        BY <2>1 DEF Other, Sides
      <4> QED BY <4>2, <4>3 DEF Hello, Frame
    <3> HIDE DEF f
    <3>3. /\ frames' = <<f>> \o frames /\ Len(frames) < MaxFrames /\ jobs' = Tail(jobs)
          /\ UNCHANGED intf_nmp
      BY <3>1 DEF TransmitHello, f
    <3>4. frames' \in Seq(Frame) /\ Len(frames') <= MaxFrames
      BY <1>1, <3>2, <3>3
    <3> QED BY <1>1, <2>1, <2>2, <3>1, <3>3, <3>4, AdjacencyKeeps
  <2>5. CASE ~j.freed /\ j.key # HELLO
    <3>1. ExpireAdjacency(s, j.key) /\ UNCHANGED crashed
      BY <1>4, <2>5 DEF RunJob
    <3>2. /\ jobs' = FreeIn(Tail(jobs), s, j.key) /\ UNCHANGED frames
          /\ intf_nmp' = [intf_nmp EXCEPT ![s] = IF @ = NULL THEN NULL
                                                ELSE [@ EXCEPT !.adjacency = NULL]]
      BY <1>1, <2>1, <3>1 DEF ExpireAdjacency, deleted
    <3> DEFINE rest == Tail(jobs)
    <3>3. /\ FreeIn(rest, s, j.key) \in Seq(Job) /\ Len(FreeIn(rest, s, j.key)) <= MaxJobs
          /\ \A r \in Sides : JobsSound(FreeIn(rest, s, j.key), r, intf_nmp[r])
      <4> HIDE DEF rest
      <4> QED BY <2>1, <2>2, FreeInFacts DEF rest
    <3> QED BY <1>1, <2>1, <3>1, <3>2, <3>3, AdjacencyKeeps
  <2> QED BY <2>3, <2>4, <2>5
<1>5. CASE RecvHello
  <2> DEFINE f == Head(frames)  s == f.to
  <2>1. /\ frames # <<>> /\ frames' = Tail(frames)
        /\ UNCHANGED <<node_nmp, traps, subnet, jobs, changes, crashed>>
        /\ \/ intf_nmp[s] # NULL /\ intf_nmp' = [intf_nmp EXCEPT ![s] = Updated(s)]
           \/ intf_nmp' = intf_nmp
    BY <1>5 DEF RecvHello
  <2>2. f \in Frame /\ s \in Sides /\ frames' \in Seq(Frame) /\ Len(frames') <= MaxFrames
    <3>1. f \in Frame /\ frames' \in Seq(Frame) /\ Len(frames') <= MaxFrames
      BY <1>1, <2>1
    <3> QED BY <3>1 DEF Frame
  <2> DEFINE d == intf_nmp[s]
             a == [adj_key |-> IF d.adjacency = NULL THEN new_key(s) ELSE d.adjacency.adj_key,
                   expiry_timer |-> "running"]
  <2>3. CASE intf_nmp' = intf_nmp
    BY <1>1, <2>1, <2>2, <2>3, AdjacencyKeeps
  <2>4. CASE d # NULL /\ intf_nmp' = [intf_nmp EXCEPT ![s] = Updated(s)]
    <3>1. Updated(s) = [d EXCEPT !.adjacency = a]
      BY DEF Updated
    <3>2. a \in Adjacency
      <4>1. new_key(s) \in Keys
        BY <2>2, KeyIsLeft DEF ActiveIsSound
      <4> QED BY <1>1, <2>2, <2>4, <4>1 DEF Adjacency
    <3> HIDE DEF a
    <3>3. intf_nmp' = [intf_nmp EXCEPT ![s] = IF @ = NULL THEN NULL ELSE [@ EXCEPT !.adjacency = a]]
      BY <1>1, <2>2, <2>4, <3>1
    <3> QED BY <1>1, <2>1, <2>2, <3>2, <3>3, AdjacencyKeeps
  <2> QED BY <2>1, <2>3, <2>4
<1> QED BY <1>2, <1>3, <1>4, <1>5

LEMMA NextKeeps == ActiveIsSound /\ [Next]_vars => ActiveIsSound'
<1> SUFFICES ASSUME ActiveIsSound, [Next]_vars PROVE ActiveIsSound'
  OBVIOUS
<1>1. CASE Next
  BY <1>1, CommandKeeps, WorkKeeps DEF Next
<1>2. CASE UNCHANGED vars
  BY <1>2 DEF vars, ActiveIsSound, TypeOK, Hellos
<1> QED BY <1>1, <1>2

\* nbrship_mgmt.c: in whatever order the protocol is enabled and disabled on nodes and
\* interfaces, while timers expire and jobs run late, no assertion fails, hellos are
\* sent exactly where it is enabled, and no job sends a hello where it is not.
THEOREM ActiveCorrect == Spec => []ActiveIsSound
BY InitHolds, NextKeeps, PTL DEF Spec

-----------------------------------------------------------------------------
(* Data collection: types. *)

ReplyData == [seq_no : Nat, ip_reach : SUBSET D!Intfs]
QueryPkts == [kind : {"query"}, iif : D!Intfs, of : Nodes, seq_no : Nat]
ReplyPkts == [kind : {"reply"}, iif : D!Intfs, of : Nodes, from : Nodes, seq_no : Nat,
              ip_reach : SUBSET D!Intfs]

CollectionTyped ==
  /\ l3 \subseteq D!Intfs
  /\ queries \in [Nodes -> [Nodes -> Nat \union {D!NONE}]]
  /\ replies \in [Nodes -> [Nodes -> ReplyData \union {NoReply}]]
  /\ ddcp_jobs \in Seq(Originators)
  /\ pkts \in Seq(QueryPkts \union ReplyPkts)
  /\ calm \subseteq Nodes

\* qs and rs are the queries seen and the replies kept, P the packets on their way.
\* Nobody knows of a later query than its originator.
NoneAhead(qs, rs, P) ==
  /\ \A n, o \in Nodes : qs[n][o] <= qs[o][o]
  /\ \A p \in P : p.seq_no <= qs[p.of][p.of]
  /\ \A o, m \in Nodes : rs[o][m] # NoReply => rs[o][m].seq_no <= qs[o][o]

Kept(rs, m, o, seq) == rs[o][m] # NoReply /\ rs[o][m].seq_no = seq

\* What is about the last query of o comes from routers that have seen it, and is
\* their present data.
IsPresent(qs, rs, P, o) ==
  /\ qs[o][o] # D!NONE
  /\ \A p \in P : p.of = o /\ p.seq_no = qs[o][o] =>
       /\ p.kind = "query" => qs[D!NodeOf(D!Peer(p.iif))][o] = qs[o][o]
       /\ p.kind = "reply" => p.ip_reach = D!IpReach(p.from)
  /\ \A m \in Nodes : Kept(rs, m, o, qs[o][o]) => rs[o][m].ip_reach = D!IpReach(m)

QueryTo(P, i, o, seq) == \E p \in P : p.kind = "query" /\ p.iif = i /\ p.of = o /\ p.seq_no = seq
ReplyFrom(P, m, o, seq) ==
  \E p \in P : /\ p.kind = "reply" /\ p.from = m /\ p.of = o /\ p.seq_no = seq
               /\ p.iif \in l3 /\ D!NodeOf(p.iif) \in D!Answers(o)

\* Next to a router that has seen the last query of o, a router has seen it too or
\* will get it; and its answer has come or is on its way.
IsUnderWay(qs, rs, P, o) ==
  /\ \A j \in D!TakesPart : qs[D!NodeOf(j)][o] = qs[o][o] /\ D!Peer(j) \in ddcp \intersect l3 =>
       qs[D!NodeOf(D!Peer(j))][o] = qs[o][o] \/ QueryTo(P, D!Peer(j), o, qs[o][o])
  /\ \A m \in D!Answers(o) \ {o} : qs[m][o] = qs[o][o] =>
       Kept(rs, m, o, qs[o][o]) \/ ReplyFrom(P, m, o, qs[o][o])

CollectionInv ==
  /\ CollectionTyped
  /\ NoneAhead(queries, replies, D!ToSet(pkts))
  /\ \A o \in calm : IsPresent(queries, replies, D!ToSet(pkts), o)
  /\ ddcp_crashed = "no" => \A o \in calm : IsUnderWay(queries, replies, D!ToSet(pkts), o)
  /\ ddcp_crashed # "assert"
-----------------------------------------------------------------------------
(* Sequences of packets, and what a selection from a sequence has.         *)

LEMMA ConcatHas ==
  ASSUME NEW X, NEW s \in Seq(X), NEW t \in Seq(X)
  PROVE  s \o t \in Seq(X) /\ D!ToSet(s \o t) = D!ToSet(s) \union D!ToSet(t)
<1>1. /\ s \o t \in Seq(X) /\ Len(s \o t) = Len(s) + Len(t)
      /\ \A k \in 1..Len(s) : (s \o t)[k] = s[k]
      /\ \A k \in 1..Len(t) : (s \o t)[Len(s) + k] = t[k]
  BY ConcatProperties
<1>2. ASSUME NEW k \in 1..Len(s \o t) PROVE (s \o t)[k] \in D!ToSet(s) \union D!ToSet(t)
  <2>1. CASE k \in 1..Len(s)
    BY <1>1, <2>1 DEF D!ToSet
  <2>2. CASE k \notin 1..Len(s)
    <3>1. k - Len(s) \in 1..Len(t) /\ k = Len(s) + (k - Len(s))
      BY <1>1, <2>2
    <3> QED
      BY <1>1, <3>1 DEF D!ToSet
  <2> QED
    BY <2>1, <2>2
<1>3. ASSUME NEW k \in 1..Len(s) PROVE s[k] \in D!ToSet(s \o t)
  BY <1>1 DEF D!ToSet
<1>4. ASSUME NEW k \in 1..Len(t) PROVE t[k] \in D!ToSet(s \o t)
  <2>1. Len(s) + k \in 1..Len(s \o t)
    BY <1>1
  <2> QED
    BY <1>1, <2>1 DEF D!ToSet
<1>5. DOMAIN s = 1..Len(s) /\ DOMAIN t = 1..Len(t) /\ DOMAIN (s \o t) = 1..Len(s \o t)
  BY <1>1
<1>6. D!ToSet(s \o t) \subseteq D!ToSet(s) \union D!ToSet(t)
  BY <1>2, <1>5 DEF D!ToSet
<1>7. D!ToSet(s) \subseteq D!ToSet(s \o t) /\ D!ToSet(t) \subseteq D!ToSet(s \o t)
  BY <1>3, <1>4, <1>5 DEF D!ToSet
<1> QED
  BY <1>1, <1>6, <1>7

LEMMA TailHas ==
  ASSUME NEW X, NEW s \in Seq(X), s # <<>>
  PROVE  /\ Head(s) \in X /\ Tail(s) \in Seq(X)
         /\ D!ToSet(s) = D!ToSet(Tail(s)) \union {Head(s)}
<1>1. Head(s) = s[1] /\ Tail(s) \in Seq(X) /\ Len(Tail(s)) = Len(s) - 1 /\ Len(s) \in Nat \ {0}
  OBVIOUS
<1>2. \A k \in 1..Len(Tail(s)) : Tail(s)[k] = s[k + 1]
  OBVIOUS
<1>3. \A k \in 1..Len(s) : k # 1 => k - 1 \in 1..Len(Tail(s)) /\ Tail(s)[k - 1] = s[k]
  BY <1>1, <1>2
<1>4. DOMAIN s = 1..Len(s) /\ DOMAIN Tail(s) = 1..Len(Tail(s)) /\ 1 \in 1..Len(s)
  BY <1>1
<1>5. ASSUME NEW k \in 1..Len(Tail(s)) PROVE Tail(s)[k] \in D!ToSet(s)
  <2>1. k + 1 \in DOMAIN s
    BY <1>1, <1>4
  <2> QED
    BY <1>2, <2>1 DEF D!ToSet
<1>6. ASSUME NEW k \in 1..Len(s) PROVE s[k] \in D!ToSet(Tail(s)) \union {Head(s)}
  BY <1>1, <1>3, <1>4 DEF D!ToSet
<1>7. s[1] \in D!ToSet(s) /\ s[1] \in X
  BY <1>4 DEF D!ToSet
<1>8. D!ToSet(Tail(s)) \subseteq D!ToSet(s)
  BY <1>4, <1>5 DEF D!ToSet
<1>9. D!ToSet(s) \subseteq D!ToSet(Tail(s)) \union {Head(s)}
  BY <1>4, <1>6 DEF D!ToSet
<1> QED
  BY <1>1, <1>7, <1>8, <1>9

LEMMA ToSetIn == ASSUME NEW X, NEW s \in Seq(X) PROVE D!ToSet(s) \in SUBSET X
BY DEF D!ToSet

LEMMA SingleHas == ASSUME NEW X, NEW x \in X
                   PROVE  <<x>> \in Seq(X) /\ D!ToSet(<<x>>) = {x} /\ <<>> \in Seq(X) /\ D!ToSet(<<>>) = {}
BY DEF D!ToSet

LEMMA AppendHas ==
  ASSUME NEW X, NEW s \in Seq(X), NEW x \in X
  PROVE  Append(s, x) \in Seq(X) /\ D!ToSet(Append(s, x)) = D!ToSet(s) \union {x}
<1>1. /\ Append(s, x) \in Seq(X) /\ Len(Append(s, x)) = Len(s) + 1 /\ Len(s) \in Nat
      /\ \A k \in 1..Len(s) : Append(s, x)[k] = s[k]
      /\ Append(s, x)[Len(s) + 1] = x
  OBVIOUS
<1>2. \A k \in 1..(Len(s) + 1) : k \in 1..Len(s) \/ k = Len(s) + 1
  BY <1>1
<1> QED
  BY <1>1, <1>2 DEF D!ToSet

\* A set of numbers has a least one.
LEMMA LeastIs == ASSUME NEW S \in SUBSET Nat, S # {} PROVE \E m \in S : \A k \in S : m <= k
<1>1. PICK m \in S : \A k \in S : ~(<<k, m>> \in OpToRel(<, Nat))
  BY WFMin, NatLessThanWellFounded
<1>2. ASSUME NEW k \in S, k < m PROVE FALSE
  <2>1. <<k, m>> \in OpToRel(<, Nat)
    BY <1>2, Zenon DEF OpToRel
  <2> QED
    BY <1>1, <2>1
<1> QED
  BY <1>2

\* What Only selects, by the function it is defined with.
Selected(s, S, n, f) ==
  f = [k \in 0..n |-> IF k = 0 THEN <<>>
                      ELSE IF s[k] \in S THEN Append(f[k - 1], s[k]) ELSE f[k - 1]]

LEMMA OnlyHas ==
  ASSUME NEW X, NEW s \in Seq(X), NEW S
  PROVE  D!Only(s, S) \in Seq(X) /\ D!ToSet(D!Only(s, S)) = D!ToSet(s) \intersect S
<1> DEFINE n == Len(s)
<1>0. n \in Nat /\ \A k \in 1..n : s[k] \in X
  OBVIOUS
<1>1. \A k \in 0..n : \E f : Selected(s, S, k, f)
  <2> DEFINE bad == {k \in 0..n : ~\E f : Selected(s, S, k, f)}
  <2> SUFFICES ASSUME bad # {} PROVE FALSE
    OBVIOUS
  <2>0. bad \in SUBSET Nat
    BY <1>0
  <2>1. PICK m \in bad : \A k \in bad : m <= k
    <3> HIDE DEF bad
    <3> QED
      BY <2>0, LeastIs
  <2>2. m # 0
    <3>1. Selected(s, S, 0, [j \in 0..0 |-> <<>>])
      BY DEF Selected
    <3> QED
      BY <2>1, <3>1
  <2>3. m \in 1..n /\ m - 1 \in 0..n /\ ~\E f : Selected(s, S, m, f)
    BY <1>0, <2>1, <2>2
  <2>4. m - 1 \notin bad
    <3> HIDE DEF bad
    <3> QED
      BY <1>0, <2>1, <2>3
  <2>5. PICK f : Selected(s, S, m - 1, f)
    BY <2>3, <2>4
  <2> DEFINE g == [j \in 0..m |-> IF j = m THEN IF s[m] \in S THEN Append(f[m - 1], s[m]) ELSE f[m - 1]
                                  ELSE f[j]]
  <2>6. ASSUME NEW j \in 0..m
        PROVE g[j] = IF j = 0 THEN <<>> ELSE IF s[j] \in S THEN Append(g[j - 1], s[j]) ELSE g[j - 1]
    <3>1. CASE j = m
      <4>1. m - 1 \in 0..m /\ m - 1 # m
        BY <2>3
      <4> QED
        BY <2>2, <3>1, <4>1
    <3>2. CASE j # m
      <4>1. j \in 0..(m - 1) /\ g[j] = f[j]
        BY <2>3, <3>2
      <4>2. f[j] = IF j = 0 THEN <<>> ELSE IF s[j] \in S THEN Append(f[j - 1], s[j]) ELSE f[j - 1]
        BY <2>5, <4>1 DEF Selected
      <4>3. j # 0 => j - 1 \in 0..m /\ j - 1 # m
        BY <2>3, <3>2
      <4> QED
        BY <4>1, <4>2, <4>3
    <3> QED
      BY <3>1, <3>2
  <2>7. g = [j \in 0..m |-> g[j]]
    OBVIOUS
  <2> HIDE DEF g
  <2>8. Selected(s, S, m, g)
    BY <2>6, <2>7 DEF Selected
  <2> QED
    BY <2>3, <2>8
<1> DEFINE u == CHOOSE f : Selected(s, S, n, f)
<1>2. D!Only(s, S) = u[n]
  BY DEF D!Only, Selected
<1>3. Selected(s, S, n, u)
  BY <1>0, <1>1
<1> HIDE DEF u
<1>4. \A k \in 0..n : u[k] = IF k = 0 THEN <<>>
                             ELSE IF s[k] \in S THEN Append(u[k - 1], s[k]) ELSE u[k - 1]
  BY <1>3 DEF Selected
<1> DEFINE Good(k) == u[k] \in Seq(X) /\ D!ToSet(u[k]) = {s[j] : j \in 1..k} \intersect S
           bad == {k \in 0..n : ~Good(k)}
<1>5. ASSUME bad # {} PROVE FALSE
  <2>0. bad \in SUBSET Nat
    BY <1>0
  <2>1. PICK m \in bad : \A k \in bad : m <= k
    <3> HIDE DEF bad
    <3> QED
      BY <1>5, <2>0, LeastIs
  <2>2. Good(0)
    <3>1. u[0] = <<>> /\ 1..0 = {}
      BY <1>0, <1>4
    <3>2. <<>> \in Seq(X) /\ D!ToSet(<<>>) = {}
      BY DEF D!ToSet
    <3> QED
      BY <3>1, <3>2
  <2>3. m \in 1..n /\ m - 1 \in 0..n /\ ~Good(m)
    BY <1>0, <2>1, <2>2
  <2>4. m - 1 \notin bad
    <3> HIDE DEF bad
    <3> QED
      BY <1>0, <2>1, <2>3
  <2>5. Good(m - 1)
    BY <2>3, <2>4
  <2>6. {s[j] : j \in 1..m} = {s[j] : j \in 1..(m - 1)} \union {s[m]}
    <3>1. \A j \in 1..m : j \in 1..(m - 1) \/ j = m
      BY <2>3
    <3>2. m \in 1..m /\ 1..(m - 1) \subseteq 1..m
      BY <2>3
    <3> QED
      BY <3>1, <3>2
  <2>7. u[m] = IF s[m] \in S THEN Append(u[m - 1], s[m]) ELSE u[m - 1]
    BY <1>4, <2>3
  <2>8. s[m] \in X
    BY <1>0, <2>3
  <2>9. s[m] \in S => u[m] \in Seq(X) /\ D!ToSet(u[m]) = D!ToSet(u[m - 1]) \union {s[m]}
    BY <2>5, <2>7, <2>8, AppendHas
  <2> QED
    BY <2>3, <2>5, <2>6, <2>7, <2>9
<1>6. Good(n)
  <2>1. n \in 0..n /\ n \notin bad
    <3> HIDE DEF bad
    <3> QED
      BY <1>0, <1>5
  <2> QED
    BY <2>1
<1>7. D!ToSet(s) = {s[j] : j \in 1..n}
  BY DEF D!ToSet
<1> QED
  BY <1>2, <1>6, <1>7

-----------------------------------------------------------------------------
(* The network. *)

LEMMA IntfFacts ==
  ASSUME NEW i \in D!Intfs
  PROVE  /\ D!Peer(i) \in D!Intfs /\ D!Peer(D!Peer(i)) = i
         /\ D!NodeOf(i) \in Nodes /\ D!NodeOf(D!Peer(i)) \in Nodes
<1>1. i[1] \in DOMAIN LinkList /\ i[2] \in {1, 2} /\ i = <<i[1], i[2]>>
  BY DEF D!Intfs
<1>2. 3 - i[2] \in {1, 2} /\ 3 - (3 - i[2]) = i[2]
  BY <1>1
<1>3. LinkList[i[1]] \in Nodes \X Nodes
  BY <1>1, NetworkAssumption DEF D!DdcpAssumption
<1>4. D!Peer(i) = <<i[1], 3 - i[2]>>
  BY DEF D!Peer
<1>5. D!Peer(D!Peer(i)) = i
  BY <1>1, <1>2, <1>4 DEF D!Peer
<1>6. D!Peer(i) \in D!Intfs
  BY <1>1, <1>2, <1>4 DEF D!Intfs
<1>7. LinkList[i[1]][1] \in Nodes /\ LinkList[i[1]][2] \in Nodes
  BY <1>3
<1> QED
  BY <1>1, <1>2, <1>4, <1>5, <1>6, <1>7 DEF D!NodeOf

LEMMA NotAnIntf == NoReply \notin D!Intfs
BY NetworkAssumption DEF D!DdcpAssumption, D!Intfs

LEMMA AllIntfsIs == D!AllIntfs \in Seq(D!Intfs) /\ D!ToSet(D!AllIntfs) = D!Intfs
<1> DEFINE n == Len(LinkList)
<1>1. n \in Nat /\ DOMAIN LinkList = 1..n
  BY NetworkAssumption DEF D!DdcpAssumption
<1>2. \A k \in 1..(2 * n) : (k + 1) \div 2 \in 1..n /\ 2 - (k % 2) \in {1, 2}
  BY <1>1
<1>3. D!AllIntfs = [k \in 1..(2 * n) |-> <<(k + 1) \div 2, 2 - (k % 2)>>]
  BY DEF D!AllIntfs
<1>4. \A k \in 1..(2 * n) : D!AllIntfs[k] \in D!Intfs
  BY <1>1, <1>2, <1>3 DEF D!Intfs
<1>5. D!AllIntfs \in [1..(2 * n) -> D!Intfs] /\ 2 * n \in Nat
  BY <1>1, <1>3, <1>4
<1>6. D!AllIntfs \in Seq(D!Intfs)
  BY <1>5
<1>7. ASSUME NEW i \in D!Intfs PROVE i \in D!ToSet(D!AllIntfs)
  <2>1. i[1] \in 1..n /\ i[2] \in {1, 2} /\ i = <<i[1], i[2]>>
    BY <1>1 DEF D!Intfs
  <2> DEFINE k == 2 * i[1] - 2 + i[2]
  <2>2. k \in 1..(2 * n) /\ (k + 1) \div 2 = i[1] /\ 2 - (k % 2) = i[2]
    <3>1. \A a \in 1..n : /\ 2 * a - 1 \in 1..(2 * n) /\ 2 * a \in 1..(2 * n)
                         /\ (2 * a) \div 2 = a /\ (2 * a + 1) \div 2 = a
                         /\ (2 * a) % 2 = 0 /\ (2 * a - 1) % 2 = 1
      BY <1>1
    <3> DEFINE a == i[1]
               e == i[2]
    <3>2. a \in 1..n /\ e \in {1, 2} /\ k = 2 * a - 2 + e
      BY <2>1
    <3> HIDE DEF a, e, k
    <3>3. k \in 1..(2 * n) /\ (k + 1) \div 2 = a /\ 2 - (k % 2) = e
      <4>1. CASE e = 1
        <5>1. k = 2 * a - 1 /\ k + 1 = 2 * a
          BY <1>1, <3>2, <4>1
        <5> QED
          BY <3>1, <3>2, <4>1, <5>1
      <4>2. CASE e = 2
        <5>1. k = 2 * a
          BY <1>1, <3>2, <4>2
        <5> QED
          BY <3>1, <3>2, <4>2, <5>1
      <4> QED
        BY <3>2, <4>1, <4>2
    <3> QED
      BY <3>3 DEF a, e
  <2>3. D!AllIntfs[k] = i
    BY <1>3, <2>1, <2>2
  <2> HIDE DEF k
  <2> QED
    BY <1>5, <2>2, <2>3 DEF D!ToSet
<1>8. D!ToSet(D!AllIntfs) \subseteq D!Intfs
  BY <1>5 DEF D!ToSet
<1> QED
  BY <1>6, <1>7, <1>8

\* ddcp_flood_ddcp_query_out: a packet over every other interface that takes part.
LEMMA FloodHas ==
  ASSUME NEW n \in Nodes, NEW o \in Nodes, NEW seq \in Nat, NEW exempted
  PROVE  /\ D!flood(n, o, seq, exempted) \in Seq(QueryPkts)
         /\ D!ToSet(D!flood(n, o, seq, exempted))
              = {D!Query(o, i, seq) : i \in D!Others(n, exempted) \intersect D!TakesPart}
<1> DEFINE out == D!sending(n, exempted)
           fl == D!flood(n, o, seq, exempted)
<1>1. out \in Seq(D!Intfs) /\ D!ToSet(out) = D!Others(n, exempted) \intersect D!TakesPart
  <2>1. D!Others(n, exempted) \subseteq D!Intfs
    BY DEF D!Others
  <2> QED
    BY <2>1, AllIntfsIs, OnlyHas DEF D!sending
<1> DEFINE qs == [k \in DOMAIN out |-> D!Query(o, out[k], seq)]
<1>2. fl = [k \in 1..Len(qs) |-> qs[(Len(qs) - k) + 1]]
  BY DEF D!flood, D!Reverse
<1> HIDE DEF out
<1>3. Len(out) \in Nat /\ DOMAIN out = 1..Len(out) /\ \A k \in 1..Len(out) : out[k] \in D!Intfs
  BY <1>1
<1>4. \A i \in D!Intfs : D!Query(o, i, seq) \in QueryPkts
  BY IntfFacts DEF D!Query, QueryPkts
<1>5. qs \in Seq(QueryPkts) /\ Len(qs) = Len(out) /\ \A k \in 1..Len(out) : qs[k] = D!Query(o, out[k], seq)
  BY <1>3, <1>4
<1> HIDE DEF qs, fl
<1>6. \A k \in 1..Len(out) : (Len(out) - k) + 1 \in 1..Len(out) /\ (Len(out) - ((Len(out) - k) + 1)) + 1 = k
  BY <1>3
<1>7. /\ fl \in [1..Len(out) -> QueryPkts]
      /\ \A k \in 1..Len(out) : fl[k] = D!Query(o, out[(Len(out) - k) + 1], seq)
  <2>1. \A k \in 1..Len(out) : fl[k] = qs[(Len(out) - k) + 1]
    BY <1>2, <1>5
  <2>2. \A k \in 1..Len(out) : qs[k] \in QueryPkts
    BY <1>3, <1>4, <1>5
  <2>3. fl = [k \in 1..Len(out) |-> fl[k]]
    BY <1>2, <1>5
  <2> QED
    BY <1>5, <1>6, <2>1, <2>2, <2>3
<1>8. fl \in Seq(QueryPkts)
  BY <1>3, <1>7
<1>9. D!ToSet(fl) = {D!Query(o, i, seq) : i \in D!ToSet(out)}
  <2>1. DOMAIN fl = 1..Len(out) /\ DOMAIN out = 1..Len(out)
    BY <1>3, <1>7
  <2>2. D!ToSet(fl) = {fl[k] : k \in 1..Len(out)} /\ D!ToSet(out) = {out[k] : k \in 1..Len(out)}
    BY <2>1 DEF D!ToSet
  <2>3. ASSUME NEW k \in 1..Len(out) PROVE fl[k] \in {D!Query(o, i, seq) : i \in D!ToSet(out)}
    BY <1>6, <1>7, <2>2
  <2>4. ASSUME NEW k \in 1..Len(out) PROVE D!Query(o, out[k], seq) \in D!ToSet(fl)
    <3>1. fl[(Len(out) - k) + 1] = D!Query(o, out[k], seq)
      BY <1>6, <1>7
    <3> QED
      BY <1>6, <2>2, <3>1
  <2> QED
    BY <2>2, <2>3, <2>4
<1> QED
  BY <1>1, <1>8, <1>9 DEF fl

\* Routers whose replies find their way: the next router's do.
LEMMA AnswersStep ==
  ASSUME NEW o \in Nodes, NEW m \in D!Answers(o), m # o
  PROVE  /\ m \in Nodes /\ D!HasWay(NextHop[m][o])
         /\ D!NodeOf(D!Peer(NextHop[m][o])) \in D!Answers(o)
<1> DEFINE A == D!Answers(o)
           S == A \ {m}
<1>1. A \subseteq Nodes
  BY DEF D!Answers
<1>2. \A R \in SUBSET Nodes : o \in R /\ D!Heard(R, o) \subseteq R => A \subseteq R
  BY DEF D!Answers
<1>3. o \in A
  BY DEF D!Answers
<1>4. D!Heard(A, o) \subseteq A
  <2>1. ASSUME NEW x \in D!Heard(A, o) PROVE x \in A
    <3>1. x \in Nodes /\ D!HasWay(NextHop[x][o]) /\ D!NodeOf(D!Peer(NextHop[x][o])) \in A
      BY DEF D!Heard
    <3>2. ASSUME NEW R \in SUBSET Nodes, o \in R, D!Heard(R, o) \subseteq R PROVE x \in R
      <4>1. A \subseteq R
        BY <1>2, <3>2
      <4> HIDE DEF A
      <4>2. x \in D!Heard(R, o)
        BY <3>1, <4>1 DEF D!Heard
      <4> QED
        BY <3>2, <4>2
    <3> QED
      BY <3>1, <3>2 DEF D!Answers
  <2> QED
    BY <2>1
<1>5. m \in A /\ A = D!Answers(o)
  OBVIOUS
<1> HIDE DEF A
<1>6. m \in D!Heard(A, o)
  <2> SUFFICES ASSUME m \notin D!Heard(A, o) PROVE FALSE
    OBVIOUS
  <2>1. D!Heard(S, o) \subseteq D!Heard(A, o)
    BY DEF D!Heard
  <2>2. S \in SUBSET Nodes /\ o \in S /\ D!Heard(S, o) \subseteq S
    BY <1>1, <1>3, <1>4, <2>1
  <2>3. A \subseteq S
    BY <1>2, <2>2
  <2> QED
    BY <1>5, <2>3
<1> QED
  BY <1>1, <1>5, <1>6 DEF D!Heard

-----------------------------------------------------------------------------
(* What a step makes of the queries seen, the replies kept and the packets. *)

QueriesType == [Nodes -> [Nodes -> Nat \union {D!NONE}]]
RepliesType == [Nodes -> [Nodes -> ReplyData \union {NoReply}]]
Pkts == QueryPkts \union ReplyPkts

\* What an originator has collected is not touched by what is about another one.
LEMMA OthersKeep ==
  ASSUME NEW qs, NEW rs, NEW P, NEW ts, NEW us, NEW Q \in SUBSET Pkts,
         NEW o \in Nodes, l3 \subseteq D!Intfs,
         \A n \in Nodes : ts[n][o] = qs[n][o], us[o] = rs[o],
         \A p \in P \union Q : p.of = o => (p \in P <=> p \in Q)
  PROVE  /\ IsPresent(qs, rs, P, o) => IsPresent(ts, us, Q, o)
         /\ IsUnderWay(qs, rs, P, o) => IsUnderWay(ts, us, Q, o)
<1>1. \A j \in D!TakesPart : D!NodeOf(j) \in Nodes /\ D!NodeOf(D!Peer(j)) \in Nodes
  BY IntfFacts DEF D!TakesPart
<1>2. D!Answers(o) \subseteq Nodes
  BY DEF D!Answers
<1>3. ASSUME IsUnderWay(qs, rs, P, o) PROVE IsUnderWay(ts, us, Q, o)
  <2>1. ASSUME NEW j \in D!TakesPart, ts[D!NodeOf(j)][o] = ts[o][o], D!Peer(j) \in ddcp \intersect l3
        PROVE ts[D!NodeOf(D!Peer(j))][o] = ts[o][o] \/ QueryTo(Q, D!Peer(j), o, ts[o][o])
    <3>1. qs[D!NodeOf(D!Peer(j))][o] = qs[o][o] \/ QueryTo(P, D!Peer(j), o, qs[o][o])
      BY <1>1, <1>3, <2>1 DEF IsUnderWay
    <3> QED
      BY <1>1, <3>1 DEF QueryTo
  <2>2. ASSUME NEW m \in D!Answers(o) \ {o}, ts[m][o] = ts[o][o]
        PROVE Kept(us, m, o, ts[o][o]) \/ ReplyFrom(Q, m, o, ts[o][o])
    <3>1. Kept(rs, m, o, qs[o][o]) \/ ReplyFrom(P, m, o, qs[o][o])
      BY <1>2, <1>3, <2>2 DEF IsUnderWay
    <3> QED
      BY <3>1 DEF Kept, ReplyFrom
  <2> QED
    BY <2>1, <2>2 DEF IsUnderWay
<1>4. ASSUME IsPresent(qs, rs, P, o) PROVE IsPresent(ts, us, Q, o)
  <2>0. \A p \in Q : p.kind = "query" => D!NodeOf(D!Peer(p.iif)) \in Nodes
    BY IntfFacts DEF Pkts, QueryPkts, ReplyPkts
  <2>1. ASSUME NEW p \in Q, p.of = o, p.seq_no = ts[o][o]
        PROVE /\ p.kind = "query" => ts[D!NodeOf(D!Peer(p.iif))][o] = ts[o][o]
              /\ p.kind = "reply" => p.ip_reach = D!IpReach(p.from)
    <3>1. p \in P /\ p.seq_no = qs[o][o]
      BY <2>1
    <3>2. /\ p.kind = "query" => qs[D!NodeOf(D!Peer(p.iif))][o] = qs[o][o]
          /\ p.kind = "reply" => p.ip_reach = D!IpReach(p.from)
      BY <1>4, <2>1, <3>1 DEF IsPresent
    <3> QED
      BY <2>0, <3>2
  <2>2. ts[o][o] # D!NONE /\ \A m \in Nodes : Kept(us, m, o, ts[o][o]) => us[o][m].ip_reach = D!IpReach(m)
    BY <1>4 DEF IsPresent, Kept
  <2> QED
    BY <2>1, <2>2 DEF IsPresent
<1> QED
  BY <1>3, <1>4

IsFlood(F, n, s) == F = {D!Query(n, i, s) : i \in D!Others(n, NoReply) \intersect D!TakesPart}

\* n takes a new number s; F are packets about it.
NewQuery(qs, ts, n, s, F) ==
  /\ n \in Nodes /\ s \in Nat /\ qs[n][n] < s /\ ts = [qs EXCEPT ![n][n] = s]
  /\ F \in SUBSET Pkts /\ \A p \in F : p.of = n /\ p.seq_no = s

\* ddcp_update_ddcp_db_self_query_info, ddcp_flood_ddcp_query_out: nobody has seen
\* the new query yet.
LEMMA AskKeeps ==
  ASSUME NEW qs \in QueriesType, NEW rs \in RepliesType, NEW P \in SUBSET Pkts, NEW n, NEW s,
         NEW F, NEW ts, l3 \subseteq D!Intfs, NoneAhead(qs, rs, P), NewQuery(qs, ts, n, s, F)
  PROVE  /\ ts \in QueriesType /\ NoneAhead(ts, rs, F \union P)
         /\ \A o \in Nodes \ {n} : /\ IsPresent(qs, rs, P, o) => IsPresent(ts, rs, F \union P, o)
                                   /\ IsUnderWay(qs, rs, P, o) => IsUnderWay(ts, rs, F \union P, o)
         /\ IsFlood(F, n, s) => IsPresent(ts, rs, F \union P, n) /\ IsUnderWay(ts, rs, F \union P, n)
<1> DEFINE Q == F \union P
<1>0. /\ n \in Nodes /\ s \in Nat /\ qs[n][n] < s /\ ts = [qs EXCEPT ![n][n] = s]
      /\ F \in SUBSET Pkts /\ \A p \in F : p.of = n /\ p.seq_no = s
  BY DEF NewQuery
<1>1. /\ \A m, o \in Nodes : qs[m][o] \in Int
      /\ \A m, o \in Nodes : ts[m][o] = IF m = n /\ o = n THEN s ELSE qs[m][o]
  BY <1>0 DEF QueriesType, D!NONE
<1>2. ts \in QueriesType
  BY <1>0 DEF QueriesType
<1>3. \A p \in P : p.of \in Nodes /\ p.seq_no \in Nat /\ p.seq_no <= qs[p.of][p.of]
  BY <1>0 DEF NoneAhead, Pkts, QueryPkts, ReplyPkts
<1>4. \A o, m \in Nodes : rs[o][m] # NoReply => rs[o][m].seq_no \in Nat /\ rs[o][m].seq_no <= qs[o][o]
  BY <1>0 DEF NoneAhead, RepliesType, ReplyData
<1>5. \A m, o \in Nodes : qs[m][o] <= qs[o][o]
  BY <1>0 DEF NoneAhead
<1> HIDE DEF Q
<1>6. NoneAhead(ts, rs, Q)
  <2>1. \A m, o \in Nodes : ts[m][o] <= ts[o][o]
    <3> SUFFICES ASSUME NEW m \in Nodes, NEW o \in Nodes PROVE ts[m][o] <= ts[o][o]
      OBVIOUS
    <3>1. qs[m][o] <= qs[o][o] /\ qs[m][o] \in Int /\ qs[o][o] \in Int
      BY <1>0, <1>1, <1>5
    <3> QED
      BY <1>0, <1>1, <3>1
  <2>2. \A p \in Q : p.seq_no <= ts[p.of][p.of]
    <3>1. ASSUME NEW p \in P PROVE p.seq_no <= ts[p.of][p.of]
      <4>1. p.of \in Nodes /\ p.seq_no \in Nat /\ p.seq_no <= qs[p.of][p.of] /\ qs[p.of][p.of] \in Int
        BY <1>0, <1>1, <1>3
      <4> QED
        BY <1>0, <1>1, <4>1
    <3>2. ASSUME NEW p \in F PROVE p.seq_no <= ts[p.of][p.of]
      BY <1>0, <1>1
    <3> QED
      BY <1>0, <3>1, <3>2 DEF Q
  <2>3. \A o, m \in Nodes : rs[o][m] # NoReply => rs[o][m].seq_no <= ts[o][o]
    <3> SUFFICES ASSUME NEW o \in Nodes, NEW m \in Nodes, rs[o][m] # NoReply
                 PROVE  rs[o][m].seq_no <= ts[o][o]
      OBVIOUS
    <3>1. rs[o][m].seq_no \in Nat /\ rs[o][m].seq_no <= qs[o][o] /\ qs[o][o] \in Int
      BY <1>0, <1>1, <1>4
    <3> QED
      BY <1>0, <1>1, <3>1
  <2> QED
    BY <1>0, <2>1, <2>2, <2>3 DEF NoneAhead
<1>7. ASSUME NEW o \in Nodes \ {n}
      PROVE  /\ IsPresent(qs, rs, P, o) => IsPresent(ts, rs, Q, o)
             /\ IsUnderWay(qs, rs, P, o) => IsUnderWay(ts, rs, Q, o)
  <2>0. o \in Nodes /\ o # n /\ n \in Nodes
    BY <1>0
  <2>1. \A m \in Nodes : ts[m][o] = qs[m][o]
    BY ONLY <1>1, <2>0
  <2>2. Q \in SUBSET Pkts /\ \A p \in P \union Q : p.of = o => (p \in P <=> p \in Q)
    BY <1>0 DEF Q
  <2>3. Q \in SUBSET Pkts
    BY <1>0, <2>2
  <2>4. \A p \in P \union Q : p.of = o => (p \in P <=> p \in Q)
    BY <1>0, <2>2
  <2> QED
    BY ONLY <2>0, <2>1, <2>3, <2>4, l3 \subseteq D!Intfs, OthersKeep, Zenon
<1>8. ASSUME IsFlood(F, n, s)
      PROVE  IsPresent(ts, rs, Q, n) /\ IsUnderWay(ts, rs, Q, n)
  <2>1. ts[n][n] = s /\ s # D!NONE
    BY <1>0, <1>1 DEF D!NONE
  <2>2. \A m \in Nodes : ts[m][n] = s => m = n
    <3> SUFFICES ASSUME NEW m \in Nodes, ts[m][n] = s, m # n PROVE FALSE
      OBVIOUS
    <3>1. qs[m][n] <= qs[n][n] /\ qs[m][n] \in Int /\ qs[n][n] \in Int /\ qs[m][n] = s
      BY <1>0, <1>1, <1>5
    <3> QED
      BY <1>0, <3>1
  <2>3. \A m \in Nodes : ~Kept(rs, m, n, s)
    <3> SUFFICES ASSUME NEW m \in Nodes, Kept(rs, m, n, s) PROVE FALSE
      OBVIOUS
    <3>1. s <= qs[n][n] /\ qs[n][n] \in Int
      BY <1>0, <1>1, <1>4 DEF Kept
    <3> QED
      BY <1>0, <3>1
  <2>4. ASSUME NEW p \in Q, p.of = n, p.seq_no = s PROVE p.kind = "query" /\ ts[D!NodeOf(D!Peer(p.iif))][n] = s
    <3>1. p \in F
      <4> SUFFICES ASSUME p \in P PROVE FALSE
        BY <1>0 DEF Q
      <4>1. s <= qs[n][n] /\ qs[n][n] \in Int
        BY <1>0, <1>1, <1>3, <2>4
      <4> QED
        BY <1>0, <4>1
    <3>2. PICK i \in D!Others(n, NoReply) : p = D!Query(n, i, s)
      BY <1>0, <1>8, <3>1 DEF IsFlood
    <3>3. i \in D!Intfs /\ D!NodeOf(i) = n /\ D!Peer(D!Peer(i)) = i
      BY <1>0, IntfFacts DEF D!Others
    <3> QED
      BY <1>0, <2>1, <3>2, <3>3 DEF D!Query
  <2>5. IsPresent(ts, rs, Q, n)
    BY <1>0, <2>1, <2>3, <2>4 DEF IsPresent
  <2>6. ASSUME NEW j \in D!TakesPart, ts[D!NodeOf(j)][n] = s PROVE QueryTo(Q, D!Peer(j), n, s)
    <3>1. j \in D!Intfs /\ D!NodeOf(j) \in Nodes /\ j # NoReply
      BY <1>0, IntfFacts, NotAnIntf DEF D!TakesPart
    <3>2. D!NodeOf(j) = n
      BY <1>0, <2>2, <2>6, <3>1
    <3>3. j \in D!Others(n, NoReply)
      BY <1>0, <3>1, <3>2 DEF D!Others
    <3>4. D!Query(n, j, s) \in Q
      BY <1>0, <1>8, <3>3 DEF Q, IsFlood
    <3> QED
      BY <1>0, <3>4 DEF QueryTo, D!Query
  <2>7. \A m \in D!Answers(n) \ {n} : ts[m][n] # s
    BY <1>0, <2>2 DEF D!Answers
  <2> QED
    BY <1>0, <2>1, <2>5, <2>6, <2>7 DEF IsUnderWay
<1> QED
  BY <1>0, <1>2, <1>6, <1>7, <1>8 DEF Q

\* A packet that is dropped, or handled to no effect on the queries seen.
LEMMA DropKeeps ==
  ASSUME NEW qs \in QueriesType, NEW rs \in RepliesType, NEW T \in SUBSET Pkts, NEW p \in Pkts,
         NoneAhead(qs, rs, T \union {p})
  PROVE  /\ NoneAhead(qs, rs, T)
         /\ \A o \in Nodes :
              /\ IsPresent(qs, rs, T \union {p}, o) => IsPresent(qs, rs, T, o)
              /\ /\ IsUnderWay(qs, rs, T \union {p}, o)
                 /\ p.kind = "query" /\ p.of = o /\ p.seq_no = qs[o][o] =>
                      p.iif \notin l3 \/ p.iif \notin ddcp \/ qs[D!NodeOf(p.iif)][o] = qs[o][o]
                 /\ p.kind = "reply" /\ p.of = o /\ p.seq_no = qs[o][o] =>
                      p.iif \notin l3 \/ Kept(rs, p.from, o, qs[o][o])
                 => IsUnderWay(qs, rs, T, o)
<1>1. NoneAhead(qs, rs, T)
  BY DEF NoneAhead
<1>2. ASSUME NEW o \in Nodes, IsPresent(qs, rs, T \union {p}, o) PROVE IsPresent(qs, rs, T, o)
  BY <1>2 DEF IsPresent
<1>3. ASSUME NEW o \in Nodes, IsUnderWay(qs, rs, T \union {p}, o),
             p.kind = "query" /\ p.of = o /\ p.seq_no = qs[o][o] =>
               p.iif \notin l3 \/ p.iif \notin ddcp \/ qs[D!NodeOf(p.iif)][o] = qs[o][o],
             p.kind = "reply" /\ p.of = o /\ p.seq_no = qs[o][o] =>
               p.iif \notin l3 \/ Kept(rs, p.from, o, qs[o][o])
      PROVE  IsUnderWay(qs, rs, T, o)
  <2>1. ASSUME NEW j \in D!TakesPart, qs[D!NodeOf(j)][o] = qs[o][o], D!Peer(j) \in ddcp \intersect l3
        PROVE qs[D!NodeOf(D!Peer(j))][o] = qs[o][o] \/ QueryTo(T, D!Peer(j), o, qs[o][o])
    <3>1. qs[D!NodeOf(D!Peer(j))][o] = qs[o][o] \/ QueryTo(T \union {p}, D!Peer(j), o, qs[o][o])
      BY <1>3, <2>1 DEF IsUnderWay
    <3> QED
      BY <1>3, <2>1, <3>1 DEF QueryTo
  <2>2. ASSUME NEW m \in D!Answers(o) \ {o}, qs[m][o] = qs[o][o]
        PROVE Kept(rs, m, o, qs[o][o]) \/ ReplyFrom(T, m, o, qs[o][o])
    <3>1. Kept(rs, m, o, qs[o][o]) \/ ReplyFrom(T \union {p}, m, o, qs[o][o])
      BY <1>3, <2>2 DEF IsUnderWay
    <3> QED
      BY <1>3, <3>1 DEF ReplyFrom
  <2> QED
    BY <2>1, <2>2 DEF IsUnderWay
<1> QED
  BY <1>1, <1>2, <1>3

\* The router that has query p sees it; F are the packets it passes on, R its answer.
IsSeen(qs, ts, p, R, F) ==
  LET n == D!NodeOf(p.iif) IN
  /\ qs[n][p.of] < p.seq_no /\ ts = [qs EXCEPT ![n][p.of] = p.seq_no]
  /\ F = {D!Query(p.of, i, p.seq_no) : i \in D!Others(n, p.iif) \intersect D!TakesPart}
  /\ R \in SUBSET ReplyPkts
  /\ \A r \in R : r.of = p.of /\ r.from = n /\ r.seq_no = p.seq_no /\ r.ip_reach = D!IpReach(n)
  /\ D!HasWay(NextHop[n][p.of]) => \E q \in R : q.iif = D!Peer(NextHop[n][p.of])

\* ddcp_process_ddcp_query_msg: a router has seen the query; the query goes on, and
\* the answer leaves unless it is lost.
LEMMA SeenKeeps ==
  ASSUME NEW qs \in QueriesType, NEW rs \in RepliesType, NEW T \in SUBSET Pkts, NEW p \in QueryPkts,
         NEW ts, NEW F, NEW R, l3 \subseteq D!Intfs, NoneAhead(qs, rs, T \union {p}),
         IsSeen(qs, ts, p, R, F)
  PROVE  /\ ts \in QueriesType /\ NoneAhead(ts, rs, R \union F \union T)
         /\ \A o \in Nodes :
              /\ IsPresent(qs, rs, T \union {p}, o) => IsPresent(ts, rs, R \union F \union T, o)
              /\ IsPresent(qs, rs, T \union {p}, o) /\ IsUnderWay(qs, rs, T \union {p}, o)
                   => IsUnderWay(ts, rs, R \union F \union T, o)
<1> DEFINE Q == R \union F \union T
           P == T \union {p}
           n == D!NodeOf(p.iif)
           s == p.seq_no
           x == p.of
<1>0. /\ p.iif \in D!Intfs /\ x \in Nodes /\ s \in Nat /\ p.kind = "query" /\ P \in SUBSET Pkts
      /\ n \in Nodes
  BY IntfFacts DEF QueryPkts, Pkts
<1>14. qs[n][x] < s /\ ts = [qs EXCEPT ![n][x] = s]
  BY DEF IsSeen
<1>15. F = {D!Query(x, i, s) : i \in D!Others(n, p.iif) \intersect D!TakesPart}
  BY DEF IsSeen
<1>16. R \subseteq ReplyPkts /\ \A r \in R : r.of = x /\ r.from = n /\ r.seq_no = s /\ r.ip_reach = D!IpReach(n)
  BY DEF IsSeen
<1>17. D!HasWay(NextHop[n][x]) => \E r \in R : r.iif = D!Peer(NextHop[n][x])
  BY DEF IsSeen
<1>1. \A m, o \in Nodes : qs[m][o] \in Int
  BY <1>14 DEF QueriesType, D!NONE
<1>2. \A m, o \in Nodes : ts[m][o] = IF m = n /\ o = x THEN s ELSE qs[m][o]
  BY <1>14 DEF QueriesType
<1>3. ts \in QueriesType
  BY <1>14, <1>0 DEF QueriesType
<1>4. s <= qs[x][x] /\ x # n
  BY <1>14, <1>0, <1>1 DEF NoneAhead
<1>5. \A o \in Nodes : ts[o][o] = qs[o][o]
  BY <1>14, <1>2, <1>4
<1>6. \A f \in F : /\ f \in QueryPkts /\ f.of = x /\ f.seq_no = s /\ f.kind = "query"
                   /\ D!NodeOf(D!Peer(f.iif)) = n
  <2> SUFFICES ASSUME NEW i \in D!Others(n, p.iif) \intersect D!TakesPart, NEW f, f = D!Query(x, i, s)
               PROVE  /\ f \in QueryPkts /\ f.of = x /\ f.seq_no = s /\ f.kind = "query"
                      /\ D!NodeOf(D!Peer(f.iif)) = n
    BY <1>15
  <2>1. i \in D!Intfs /\ D!NodeOf(i) = n /\ D!Peer(i) \in D!Intfs /\ D!Peer(D!Peer(i)) = i
    BY <1>14, IntfFacts DEF D!Others
  <2> QED
    BY <1>14, <1>0, <2>1 DEF D!Query, QueryPkts
<1>7. \A r \in R : r \in ReplyPkts /\ r.kind = "reply"
  BY <1>16 DEF ReplyPkts
<1>8. F \subseteq QueryPkts /\ Q \in SUBSET Pkts
  BY <1>6, <1>16 DEF Pkts
<1> HIDE DEF Q, P, s, x, n
<1>9. NoneAhead(ts, rs, Q)
  <2>1. \A m, o \in Nodes : ts[m][o] <= ts[o][o]
    <3> SUFFICES ASSUME NEW m \in Nodes, NEW o \in Nodes PROVE ts[m][o] <= ts[o][o]
      OBVIOUS
    <3>1. qs[m][o] <= qs[o][o]
      BY <1>14 DEF NoneAhead
    <3> QED
      BY <1>14, <1>2, <1>4, <1>5, <3>1
  <2>2. ASSUME NEW q \in Q PROVE q.seq_no <= ts[q.of][q.of]
    <3>1. CASE q \in R \union F
      <4>1. q.of = x /\ q.seq_no = s
        BY <1>16, <1>6, <3>1
      <4> QED
        BY <1>14, <1>0, <1>4, <1>5, <4>1
    <3>2. CASE q \in T
      <4>1. q.of \in Nodes /\ q.seq_no <= qs[q.of][q.of]
        BY <1>14, <3>2 DEF NoneAhead, Pkts, QueryPkts, ReplyPkts
      <4> QED
        BY <1>14, <1>5, <4>1
    <3> QED
      BY <1>14, <3>1, <3>2 DEF Q
  <2>3. \A o, m \in Nodes : rs[o][m] # NoReply => rs[o][m].seq_no <= ts[o][o]
    BY <1>14, <1>5 DEF NoneAhead
  <2> QED
    BY <1>14, <2>1, <2>2, <2>3 DEF NoneAhead
<1>10. ASSUME NEW o \in Nodes, o # x
       PROVE  /\ IsPresent(qs, rs, P, o) => IsPresent(ts, rs, Q, o)
              /\ IsUnderWay(qs, rs, P, o) => IsUnderWay(ts, rs, Q, o)
  <2>1. \A m \in Nodes : ts[m][o] = qs[m][o]
    BY ONLY <1>2, <1>10, o \in Nodes
  <2>2. \A q \in R \union F \union {p} : q.of = x
    <3>1. p.of = x
      BY DEF x
    <3>2. \A q \in R \union F : q.of = x
      BY <1>6, <1>16
    <3> QED
      BY <3>1, <3>2
  <2>3. \A q \in P \union Q : q.of = o => (q \in P <=> q \in Q)
    BY <1>14, <1>10, <2>2 DEF P, Q
  <2> QED
    BY ONLY <1>8, <1>10, <2>1, <2>3, l3 \subseteq D!Intfs, OthersKeep, Zenon
<1>11. ASSUME IsPresent(qs, rs, P, x) PROVE IsPresent(ts, rs, Q, x)
  <2>1. ASSUME NEW q \in Q, q.of = x, q.seq_no = ts[x][x]
        PROVE /\ q.kind = "query" => ts[D!NodeOf(D!Peer(q.iif))][x] = ts[x][x]
              /\ q.kind = "reply" => q.ip_reach = D!IpReach(q.from)
    <3>1. CASE q \in T
      <4>1. /\ q.kind = "query" => qs[D!NodeOf(D!Peer(q.iif))][x] = qs[x][x]
            /\ q.kind = "reply" => q.ip_reach = D!IpReach(q.from)
        BY <1>14, <1>0, <1>5, <1>11, <2>1, <3>1 DEF IsPresent, P
      <4>2. q.kind = "query" => D!NodeOf(D!Peer(q.iif)) \in Nodes
        BY <1>14, <3>1, IntfFacts DEF Pkts, QueryPkts, ReplyPkts
      <4>3. qs[n][x] # qs[x][x]
        BY <1>14, <1>0, <1>1, <1>4 DEF x, s
      <4> QED
        BY <1>14, <1>0, <1>2, <1>5, <4>1, <4>2, <4>3
    <3>2. CASE q \in F
      BY <1>14, <1>0, <1>2, <1>6, <2>1, <3>2 DEF s
    <3>3. CASE q \in R
      BY <1>16, <1>7, <3>3
    <3> QED
      BY <1>14, <3>1, <3>2, <3>3 DEF Q
  <2>2. /\ ts[x][x] # D!NONE
        /\ \A m \in Nodes : Kept(rs, m, x, ts[x][x]) => rs[x][m].ip_reach = D!IpReach(m)
    BY <1>14, <1>0, <1>5, <1>11 DEF IsPresent
  <2> QED
    BY <1>14, <2>1, <2>2 DEF IsPresent
<1>12. ASSUME IsPresent(qs, rs, P, x), IsUnderWay(qs, rs, P, x) PROVE IsUnderWay(ts, rs, Q, x)
  <2>1. \A m \in Nodes : qs[m][x] = qs[x][x] => m # n /\ ts[m][x] = ts[x][x]
    <3>1. qs[n][x] # qs[x][x]
      BY <1>14, <1>0, <1>1, <1>4 DEF x, s
    <3> QED
      BY <1>14, <1>0, <1>2, <1>5, <3>1
  <2>2. \A m \in Nodes : ts[m][x] = ts[x][x] => (m = n /\ s = qs[x][x]) \/ qs[m][x] = qs[x][x]
    BY <1>14, <1>0, <1>2, <1>5
  <2>3. ASSUME NEW j \in D!TakesPart, ts[D!NodeOf(j)][x] = ts[x][x], D!Peer(j) \in ddcp \intersect l3
        PROVE ts[D!NodeOf(D!Peer(j))][x] = ts[x][x] \/ QueryTo(Q, D!Peer(j), x, ts[x][x])
    <3>1. /\ j \in D!Intfs /\ D!NodeOf(j) \in Nodes /\ D!NodeOf(D!Peer(j)) \in Nodes
      BY <1>14, IntfFacts DEF D!TakesPart
    <3>2. CASE D!NodeOf(j) = n /\ s = qs[x][x]
      <4>1. CASE j = p.iif
        <5>1. p.of = x /\ p \in P /\ p.seq_no = s
          BY <1>14 DEF x, s, P
        <5>2. qs[D!NodeOf(D!Peer(j))][x] = qs[x][x]
          BY <1>14, <1>0, <1>12, <3>2, <4>1, <5>1 DEF IsPresent
        <5> QED
          BY <1>14, <2>1, <3>1, <5>2
      <4>2. CASE j # p.iif
        <5>1. D!Query(x, j, s) \in F
          BY <1>15, <3>1, <3>2, <4>2 DEF D!Others
        <5>2. /\ D!Query(x, j, s).kind = "query" /\ D!Query(x, j, s).iif = D!Peer(j)
              /\ D!Query(x, j, s).of = x /\ D!Query(x, j, s).seq_no = s
          BY <1>14 DEF D!Query
        <5>3. s = ts[x][x]
          BY <1>14, <1>0, <1>5, <3>2
        <5> QED
          BY <1>14, <5>1, <5>2, <5>3 DEF QueryTo, Q
      <4> QED
        BY <1>14, <4>1, <4>2
    <3>3. CASE qs[D!NodeOf(j)][x] = qs[x][x]
      <4>1. qs[D!NodeOf(D!Peer(j))][x] = qs[x][x] \/ QueryTo(P, D!Peer(j), x, qs[x][x])
        BY <1>14, <1>12, <2>3, <3>3 DEF IsUnderWay
      <4>2. CASE qs[D!NodeOf(D!Peer(j))][x] = qs[x][x]
        BY <1>14, <2>1, <3>1, <4>2
      <4>3. CASE QueryTo(T, D!Peer(j), x, qs[x][x])
        BY <1>14, <1>0, <1>5, <4>3 DEF QueryTo, Q
      <4>4. CASE p.iif = D!Peer(j) /\ s = qs[x][x]
        BY <1>0, <1>2, <1>5, <4>4 DEF n
      <4> QED
        BY <1>14, <4>1, <4>2, <4>3, <4>4 DEF QueryTo, P, s
    <3> QED
      BY <1>14, <2>2, <2>3, <3>1, <3>2, <3>3
  <2>4. ASSUME NEW m \in D!Answers(x) \ {x}, ts[m][x] = ts[x][x]
        PROVE Kept(rs, m, x, ts[x][x]) \/ ReplyFrom(Q, m, x, ts[x][x])
    <3>1. m \in Nodes
      BY <1>14 DEF D!Answers
    <3>2. CASE m = n /\ s = qs[x][x]
      <4>1. D!HasWay(NextHop[n][x]) /\ D!NodeOf(D!Peer(NextHop[n][x])) \in D!Answers(x)
        BY <1>14, <1>0, <3>2, AnswersStep
      <4>2. PICK r \in R : r.iif = D!Peer(NextHop[n][x])
        BY <1>17, <4>1
      <4>3. r.iif \in l3
        BY <1>14, <4>1, <4>2 DEF D!HasWay
      <4>4. r \in Q /\ r.kind = "reply" /\ r.from = m /\ r.of = x /\ r.seq_no = ts[x][x]
        BY <1>16, <1>0, <1>5, <1>7, <3>2 DEF Q
      <4> QED
        BY <1>14, <4>1, <4>2, <4>3, <4>4 DEF ReplyFrom
    <3>3. CASE qs[m][x] = qs[x][x]
      <4>1. Kept(rs, m, x, qs[x][x]) \/ ReplyFrom(P, m, x, qs[x][x])
        BY <1>14, <1>12, <3>3 DEF IsUnderWay
      <4>2. ReplyFrom(P, m, x, qs[x][x]) => ReplyFrom(Q, m, x, qs[x][x])
        BY <1>14, <1>0 DEF ReplyFrom, P, Q
      <4> QED
        BY <1>14, <1>0, <1>5, <4>1, <4>2
    <3> QED
      BY <1>14, <2>2, <2>4, <3>1, <3>2, <3>3
  <2> QED
    BY <1>14, <2>3, <2>4 DEF IsUnderWay
<1>13. ASSUME NEW o \in Nodes
       PROVE  /\ IsPresent(qs, rs, P, o) => IsPresent(ts, rs, Q, o)
              /\ IsPresent(qs, rs, P, o) /\ IsUnderWay(qs, rs, P, o) => IsUnderWay(ts, rs, Q, o)
  BY <1>14, <1>10, <1>11, <1>12
<1> QED
  BY <1>14, <1>3, <1>9, <1>13 DEF P, Q

\* Reply p goes on as R, which is empty when it is lost.
IsForwarded(p, R) ==
  /\ D!NodeOf(p.iif) # p.of /\ R \in SUBSET ReplyPkts
  /\ \A r \in R : r.of = p.of /\ r.from = p.from /\ r.seq_no = p.seq_no /\ r.ip_reach = p.ip_reach
  /\ D!HasWay(NextHop[D!NodeOf(p.iif)][p.of])
       => \E q \in R : q.iif = D!Peer(NextHop[D!NodeOf(p.iif)][p.of])

\* ddcp_process_ddcp_reply_msg on the way to the originator: the reply goes on, or
\* is lost where it has no way.
LEMMA ForwardKeeps ==
  ASSUME NEW qs \in QueriesType, NEW rs \in RepliesType, NEW T \in SUBSET Pkts, NEW p \in ReplyPkts,
         NEW R, NoneAhead(qs, rs, T \union {p}), IsForwarded(p, R)
  PROVE  /\ NoneAhead(qs, rs, R \union T)
         /\ \A o \in Nodes :
              /\ IsPresent(qs, rs, T \union {p}, o) => IsPresent(qs, rs, R \union T, o)
              /\ IsUnderWay(qs, rs, T \union {p}, o) => IsUnderWay(qs, rs, R \union T, o)
<1>0. p.kind = "reply" /\ \A r \in R : r.kind = "reply"
  BY DEF ReplyPkts, IsForwarded
<1>1. NoneAhead(qs, rs, R \union T)
  BY DEF NoneAhead, IsForwarded
<1>2. ASSUME NEW o \in Nodes, IsPresent(qs, rs, T \union {p}, o) PROVE IsPresent(qs, rs, R \union T, o)
  BY <1>0, <1>2 DEF IsPresent, IsForwarded
<1>3. ASSUME NEW o \in Nodes, IsUnderWay(qs, rs, T \union {p}, o) PROVE IsUnderWay(qs, rs, R \union T, o)
  <2>1. ASSUME NEW i, QueryTo(T \union {p}, i, o, qs[o][o]) PROVE QueryTo(R \union T, i, o, qs[o][o])
    BY <1>0, <2>1 DEF QueryTo
  <2>2. ASSUME NEW m, ReplyFrom(T \union {p}, m, o, qs[o][o]) PROVE ReplyFrom(R \union T, m, o, qs[o][o])
    <3>1. CASE ReplyFrom(T, m, o, qs[o][o])
      BY <3>1 DEF ReplyFrom
    <3>2. CASE /\ p.from = m /\ p.of = o /\ p.seq_no = qs[o][o]
               /\ p.iif \in l3 /\ D!NodeOf(p.iif) \in D!Answers(o)
      <4>1. /\ D!HasWay(NextHop[D!NodeOf(p.iif)][o])
            /\ D!NodeOf(D!Peer(NextHop[D!NodeOf(p.iif)][o])) \in D!Answers(o)
        BY <3>2, AnswersStep DEF IsForwarded
      <4>2. PICK r \in R : r.iif = D!Peer(NextHop[D!NodeOf(p.iif)][o])
        BY <3>2, <4>1 DEF IsForwarded
      <4>3. r.iif \in l3
        BY <4>1, <4>2 DEF D!HasWay
      <4> QED
        BY <1>0, <3>2, <4>1, <4>2, <4>3 DEF ReplyFrom, IsForwarded
    <3> QED
      BY <2>2, <3>1, <3>2 DEF ReplyFrom
  <2> QED
    BY <1>3, <2>1, <2>2 DEF IsUnderWay
<1> QED
  BY <1>1, <1>2, <1>3

IsKept(rs, us, p) ==
  /\ rs[p.of][p.from] # NoReply => rs[p.of][p.from].seq_no < p.seq_no
  /\ us = [rs EXCEPT ![p.of][p.from] = [seq_no |-> p.seq_no, ip_reach |-> p.ip_reach]]

\* ddcp_add_or_update_ddcp_reply_msg: a newer reply takes the place of the old one.
LEMMA KeepKeeps ==
  ASSUME NEW qs \in QueriesType, NEW rs \in RepliesType, NEW T \in SUBSET Pkts, NEW p \in ReplyPkts,
         NEW us, NoneAhead(qs, rs, T \union {p}), IsKept(rs, us, p)
  PROVE  /\ us \in RepliesType /\ NoneAhead(qs, us, T)
         /\ \A o \in Nodes :
              /\ IsPresent(qs, rs, T \union {p}, o) => IsPresent(qs, us, T, o)
              /\ IsUnderWay(qs, rs, T \union {p}, o) => IsUnderWay(qs, us, T, o)
<1> DEFINE new == [seq_no |-> p.seq_no, ip_reach |-> p.ip_reach]
<1>0. /\ p.of \in Nodes /\ p.from \in Nodes /\ p.seq_no \in Nat /\ p.kind = "reply"
      /\ new \in ReplyData /\ new # NoReply
  <2>1. p.of \in Nodes /\ p.from \in Nodes /\ p.seq_no \in Nat /\ p.kind = "reply" /\ p.ip_reach \in SUBSET D!Intfs
    BY DEF ReplyPkts
  <2>2. new \in ReplyData
    BY <2>1 DEF ReplyData
  <2>3. NoReply \notin ReplyData
    BY NetworkAssumption DEF D!DdcpAssumption, ReplyData, D!Intfs
  <2> QED
    BY <2>1, <2>2, <2>3
<1>1. us \in RepliesType
  BY <1>0 DEF RepliesType, IsKept
<1>2. \A o, m \in Nodes : us[o][m] = IF o = p.of /\ m = p.from THEN new ELSE rs[o][m]
  BY DEF RepliesType, IsKept
<1>3. \A o, m \in Nodes : qs[o][m] \in Int
  BY DEF QueriesType, D!NONE
<1>4. p.seq_no <= qs[p.of][p.of]
  BY DEF NoneAhead
<1> HIDE DEF new
<1>5. new.seq_no = p.seq_no /\ new.ip_reach = p.ip_reach
  BY DEF new
<1>6. NoneAhead(qs, us, T)
  <2>1. \A o, m \in Nodes : us[o][m] # NoReply => us[o][m].seq_no <= qs[o][o]
    BY <1>2, <1>4, <1>5 DEF NoneAhead
  <2> QED
    BY <2>1 DEF NoneAhead
<1>7. ASSUME NEW o \in Nodes, NEW m \in Nodes, Kept(rs, m, o, qs[o][o]) PROVE us[o][m] = rs[o][m]
  <2> SUFFICES ASSUME o = p.of, m = p.from PROVE FALSE
    BY <1>2
  <2>1. qs[o][o] < p.seq_no /\ p.seq_no <= qs[o][o] /\ qs[o][o] \in Int
    BY <1>3, <1>4, <1>7 DEF Kept, IsKept
  <2> QED
    BY <1>0, <2>1
<1>8. ASSUME NEW o \in Nodes, IsPresent(qs, rs, T \union {p}, o) PROVE IsPresent(qs, us, T, o)
  <2>1. ASSUME NEW m \in Nodes, Kept(us, m, o, qs[o][o]) PROVE us[o][m].ip_reach = D!IpReach(m)
    <3>1. CASE o = p.of /\ m = p.from
      <4>1. us[o][m] = new /\ p.seq_no = qs[o][o]
        BY <1>2, <1>5, <2>1, <3>1 DEF Kept
      <4>2. p.ip_reach = D!IpReach(m)
        BY <1>0, <1>8, <3>1, <4>1 DEF IsPresent
      <4> QED
        BY <1>5, <4>1, <4>2
    <3>2. CASE ~(o = p.of /\ m = p.from)
      BY <1>2, <1>8, <2>1, <3>2 DEF IsPresent, Kept
    <3> QED
      BY <3>1, <3>2
  <2> QED
    BY <1>8, <2>1 DEF IsPresent
<1>9. ASSUME NEW o \in Nodes, IsUnderWay(qs, rs, T \union {p}, o) PROVE IsUnderWay(qs, us, T, o)
  <2>1. ASSUME NEW i, QueryTo(T \union {p}, i, o, qs[o][o]) PROVE QueryTo(T, i, o, qs[o][o])
    BY <1>0, <2>1 DEF QueryTo
  <2>2. ASSUME NEW m \in D!Answers(o) \ {o}, qs[m][o] = qs[o][o]
        PROVE Kept(us, m, o, qs[o][o]) \/ ReplyFrom(T, m, o, qs[o][o])
    <3>0. m \in Nodes
      BY DEF D!Answers
    <3>1. Kept(rs, m, o, qs[o][o]) \/ ReplyFrom(T \union {p}, m, o, qs[o][o])
      BY <1>9, <2>2 DEF IsUnderWay
    <3>2. CASE Kept(rs, m, o, qs[o][o])
      BY <1>7, <3>0, <3>2 DEF Kept
    <3>3. CASE p.from = m /\ p.of = o /\ p.seq_no = qs[o][o]
      BY <1>0, <1>2, <1>5, <3>0, <3>3 DEF Kept
    <3> QED
      BY <3>1, <3>2, <3>3 DEF ReplyFrom
  <2> QED
    BY <1>9, <2>1, <2>2 DEF IsUnderWay
<1> QED
  BY <1>1, <1>6, <1>8, <1>9

-----------------------------------------------------------------------------
(* The steps of data collection. *)

\* Where no interface is reconfigured, what is to hold after a step is about the
\* queries, the replies and the packets alone.
LEMMA Unconfigured ==
  ASSUME UNCHANGED <<ddcp, l3, up>>,
         CollectionTyped', NoneAhead(queries', replies', D!ToSet(pkts')), ddcp_crashed' # "assert",
         \A o \in calm' : IsPresent(queries', replies', D!ToSet(pkts'), o),
         ddcp_crashed' = "no" => \A o \in calm' : IsUnderWay(queries', replies', D!ToSet(pkts'), o)
  PROVE  CollectionInv'
<1>1. D!ToSet(pkts)' = D!ToSet(pkts')
  BY DEF D!ToSet
<1>2. \A n : D!IpReach(n)' = D!IpReach(n)
  BY DEF D!IpReach
<1>3. D!TakesPart' = D!TakesPart
  BY DEF D!TakesPart
<1>4. \A o : D!Answers(o)' = D!Answers(o)
  BY DEF D!Answers, D!Heard, D!HasWay
<1>5. \A o : IsPresent(queries, replies, D!ToSet(pkts), o)' <=> IsPresent(queries', replies', D!ToSet(pkts'), o)
  BY <1>1, <1>2 DEF IsPresent, Kept
<1>6. \A m, o, seq : ReplyFrom(D!ToSet(pkts), m, o, seq)' <=> ReplyFrom(D!ToSet(pkts'), m, o, seq)
  BY <1>1, <1>4 DEF ReplyFrom
<1>7. \A o : IsUnderWay(queries, replies, D!ToSet(pkts), o)' <=> IsUnderWay(queries', replies', D!ToSet(pkts'), o)
  BY <1>1, <1>3, <1>4, <1>6 DEF IsUnderWay, QueryTo, Kept, ReplyFrom
<1>8. NoneAhead(queries, replies, D!ToSet(pkts))' <=> NoneAhead(queries', replies', D!ToSet(pkts'))
  BY <1>1 DEF NoneAhead
<1> QED
  BY <1>5, <1>7, <1>8 DEF CollectionInv

LEMMA TypedFacts ==
  ASSUME CollectionTyped
  PROVE  /\ queries \in QueriesType /\ replies \in RepliesType
         /\ pkts \in Seq(Pkts) /\ D!ToSet(pkts) \in SUBSET Pkts /\ l3 \subseteq D!Intfs
<1>1. pkts \in Seq(Pkts)
  BY DEF CollectionTyped, Pkts
<1>2. D!ToSet(pkts) \subseteq Pkts
  BY <1>1 DEF D!ToSet
<1> QED
  BY <1>1, <1>2 DEF CollectionTyped, QueriesType, RepliesType

LEMMA CollectionFirst == D!Init => CollectionInv
<1> SUFFICES ASSUME D!Init PROVE CollectionInv
  OBVIOUS
<1>1. D!ToSet(pkts) = {} /\ pkts \in Seq(Pkts)
  BY DEF D!Init, D!ToSet
<1>2. l3 \subseteq D!Intfs
  BY NetworkAssumption DEF D!Init, D!DdcpAssumption, D!Intfs
<1>3. ddcp_jobs \in Seq(Originators) /\ calm = {} /\ ddcp_crashed = "no"
  BY DEF D!Init
<1>4. queries = [n \in Nodes |-> [o \in Nodes |-> D!NONE]] /\ replies = [n \in Nodes |-> [m \in Nodes |-> NoReply]]
  BY DEF D!Init
<1>5. CollectionTyped
  BY <1>1, <1>2, <1>3, <1>4 DEF CollectionTyped, Pkts
<1>6. NoneAhead(queries, replies, D!ToSet(pkts))
  BY <1>1, <1>4 DEF NoneAhead, D!NONE
<1> QED
  BY <1>3, <1>5, <1>6 DEF CollectionInv

\* CMDCODE_RUN_DDCP_QUERY, wrapper_ddcp_flood_ddcp_query_out
LEMMA AsksKeeps ==
  ASSUME CollectionInv, NEW n \in Nodes, D!Asks(n), UNCHANGED <<ddcp, l3, up, replies, ddcp_crashed>>,
         ddcp_jobs' \in Seq(Originators), ddcp_crashed = "no"
  PROVE  CollectionInv'
<1> DEFINE s == D!self_seq(n)
           fl == D!flood(n, n, s, NoReply)
           F == D!ToSet(fl)
           P == D!ToSet(pkts)
<1>1. /\ queries \in QueriesType /\ replies \in RepliesType /\ pkts \in Seq(Pkts)
      /\ P \in SUBSET Pkts /\ l3 \subseteq D!Intfs /\ calm \subseteq Nodes
  BY TypedFacts DEF CollectionInv, CollectionTyped
<1>2. s \in Nat /\ queries[n][n] < s
  <2>1. queries[n][n] \in Nat \union {D!NONE}
    BY <1>1 DEF QueriesType
  <2> QED
    BY <2>1 DEF D!self_seq, D!NONE
<1>3. queries' = [queries EXCEPT ![n][n] = s] /\ pkts' = fl \o pkts /\ calm' = calm \union {n}
  BY DEF D!Asks
<1> HIDE DEF s
<1>4. /\ fl \in Seq(QueryPkts)
      /\ IsFlood(F, n, s)
  BY <1>2, FloodHas DEF IsFlood
<1> HIDE DEF fl
<1>5. fl \in Seq(Pkts)
  BY <1>4 DEF Pkts
<1>6. pkts' \in Seq(Pkts) /\ D!ToSet(pkts') = F \union P
  BY <1>1, <1>3, <1>5, ConcatHas
<1>7. F \in SUBSET Pkts /\ \A p \in F : p.of = n /\ p.seq_no = s
  <2>1. F \subseteq Pkts
    BY <1>5 DEF D!ToSet
  <2> QED
    BY <1>4, <2>1 DEF D!Query, IsFlood
<1> HIDE DEF F, P
<1>8. NoneAhead(queries, replies, P)
  BY DEF CollectionInv, P
<1>9. /\ queries' \in QueriesType /\ NoneAhead(queries', replies, F \union P)
      /\ \A o \in Nodes \ {n} : /\ IsPresent(queries, replies, P, o) => IsPresent(queries', replies, F \union P, o)
                                /\ IsUnderWay(queries, replies, P, o) => IsUnderWay(queries', replies, F \union P, o)
      /\ IsPresent(queries', replies, F \union P, n) /\ IsUnderWay(queries', replies, F \union P, n)
  <2>1. NewQuery(queries, queries', n, s, F)
    BY <1>2, <1>3, <1>7 DEF NewQuery
  <2> QED
    BY ONLY <1>1, <1>4, <1>8, <2>1, AskKeeps
<1>10. CollectionTyped'
  BY <1>1, <1>3, <1>6, <1>9 DEF CollectionTyped, CollectionInv, QueriesType, Pkts
<1>11. \A o \in calm : IsPresent(queries, replies, P, o) /\ IsUnderWay(queries, replies, P, o)
  BY DEF CollectionInv, P
<1>12. ddcp_crashed' = "no"
  OBVIOUS
<1>13. \A o \in calm' : IsPresent(queries', replies', F \union P, o) /\ IsUnderWay(queries', replies', F \union P, o)
  BY <1>1, <1>3, <1>9, <1>11
<1>14. NoneAhead(queries', replies', F \union P)
  BY <1>9
<1> QED
  BY <1>6, <1>10, <1>12, <1>13, <1>14, Unconfigured

\* CMDCODE_RUN_DDCP_QUERY_PERIODIC
LEMMA PeriodicKeeps ==
  ASSUME CollectionInv, NEW n \in Nodes, D!RunQueryPeriodic(n), ddcp_crashed = "no"
  PROVE  CollectionInv'
<1> DEFINE s == D!self_seq(n)
           P == D!ToSet(pkts)
<1>1. /\ queries \in QueriesType /\ replies \in RepliesType /\ pkts \in Seq(Pkts)
      /\ P \in SUBSET Pkts /\ l3 \subseteq D!Intfs /\ calm \subseteq Nodes
  BY TypedFacts DEF CollectionInv, CollectionTyped
<1>2. s \in Nat /\ queries[n][n] < s
  <2>1. queries[n][n] \in Nat \union {D!NONE}
    BY <1>1 DEF QueriesType
  <2> QED
    BY <2>1 DEF D!self_seq, D!NONE
<1>3. /\ queries' = [queries EXCEPT ![n][n] = s] /\ calm' = calm \ {n}
      /\ UNCHANGED <<ddcp, l3, up, replies, ddcp_jobs, pkts, ddcp_crashed>>
  BY DEF D!RunQueryPeriodic, D!config
<1> HIDE DEF s, P
<1>4. NoneAhead(queries, replies, P)
  BY DEF CollectionInv, P
<1>5. /\ queries' \in QueriesType /\ NoneAhead(queries', replies, {} \union P)
      /\ \A o \in Nodes \ {n} :
           /\ IsPresent(queries, replies, P, o) => IsPresent(queries', replies, {} \union P, o)
           /\ IsUnderWay(queries, replies, P, o) => IsUnderWay(queries', replies, {} \union P, o)
  <2>1. NewQuery(queries, queries', n, s, {})
    BY <1>2, <1>3 DEF NewQuery
  <2> QED
    BY ONLY <1>1, <1>4, <2>1, AskKeeps
<1>6. {} \union P = D!ToSet(pkts')
  BY <1>3 DEF P
<1>7. CollectionTyped'
  BY <1>1, <1>3, <1>5 DEF CollectionTyped, CollectionInv, QueriesType, Pkts
<1>8. \A o \in calm : IsPresent(queries, replies, P, o) /\ IsUnderWay(queries, replies, P, o)
  BY DEF CollectionInv, P
<1>9. \A o \in calm' : /\ IsPresent(queries', replies', D!ToSet(pkts'), o)
                       /\ IsUnderWay(queries', replies', D!ToSet(pkts'), o)
  <2> SUFFICES ASSUME NEW o \in calm'
               PROVE  IsPresent(queries', replies', D!ToSet(pkts'), o) /\ IsUnderWay(queries', replies', D!ToSet(pkts'), o)
    OBVIOUS
  <2>1. o \in Nodes \ {n} /\ o \in calm
    BY <1>1, <1>3
  <2>2. replies' = replies
    BY <1>3
  <2> QED
    BY ONLY <1>5, <1>6, <1>8, <2>1, <2>2
<1>10. NoneAhead(queries', replies', D!ToSet(pkts')) /\ ddcp_crashed' = "no"
  BY <1>3, <1>5, <1>6
<1> QED
  BY <1>3, <1>7, <1>9, <1>10, Unconfigured

\* "protocol ddcp interface", "ip-address" and "if-up-down"
LEMMA ConfigKeeps ==
  ASSUME CollectionInv, NEW i \in Changing, D!ConfigIntf(i), ddcp_crashed = "no"
  PROVE  CollectionInv'
<1>1. /\ calm' = {} /\ UNCHANGED <<queries, replies, ddcp_jobs, pkts, ddcp_crashed>>
      /\ l3' = l3 \/ l3' = D!Flip(l3, i)
  BY DEF D!ConfigIntf
<1>2. i \in D!Intfs
  BY NetworkAssumption DEF D!DdcpAssumption, D!Intfs
<1>3. l3' \subseteq D!Intfs
  BY <1>1, <1>2 DEF CollectionInv, CollectionTyped, D!Flip
<1>4. D!ToSet(pkts)' = D!ToSet(pkts)
  BY <1>1 DEF D!ToSet
<1>5. CollectionTyped'
  BY <1>1, <1>3 DEF CollectionInv, CollectionTyped, QueryPkts, ReplyPkts, ReplyData, D!Intfs
<1>6. NoneAhead(queries, replies, D!ToSet(pkts))'
  BY <1>1, <1>4 DEF CollectionInv, NoneAhead
<1> QED
  BY <1>1, <1>5, <1>6 DEF CollectionInv

\* send_pkt_out on the way back: the packets that come of a reply.
LEMMA SentHas ==
  ASSUME NEW n \in Nodes, NEW o \in Nodes, NEW reply, NEW r \in D!Sent(n, o, reply),
         [reply EXCEPT !.iif = D!Peer(NextHop[n][o])] \in ReplyPkts
  PROVE  /\ r \in Seq(Pkts) /\ D!ToSet(r) \in SUBSET ReplyPkts
         /\ D!ToSet(r) \subseteq {[reply EXCEPT !.iif = D!Peer(NextHop[n][o])]}
         /\ D!HasWay(NextHop[n][o]) => D!ToSet(r) = {[reply EXCEPT !.iif = D!Peer(NextHop[n][o])]}
<1> DEFINE out == [reply EXCEPT !.iif = D!Peer(NextHop[n][o])]
<1>1. r \in {<<out>>, <<>>} /\ (D!HasWay(NextHop[n][o]) => r = <<out>>)
  BY DEF D!Sent, D!HasWay
<1>2. out \in Pkts
  BY DEF Pkts
<1> HIDE DEF out
<1>3. /\ <<out>> \in Seq(Pkts) /\ D!ToSet(<<out>>) = {out}
      /\ <<>> \in Seq(Pkts) /\ D!ToSet(<<>>) = {}
  BY <1>2, SingleHas
<1>4. out \in ReplyPkts
  BY DEF out
<1>5. /\ r \in Seq(Pkts) /\ D!ToSet(r) \in SUBSET ReplyPkts /\ D!ToSet(r) \subseteq {out}
      /\ D!HasWay(NextHop[n][o]) => D!ToSet(r) = {out}
  BY <1>1, <1>3, <1>4
<1> QED
  BY <1>5 DEF out

LEMMA NextHopIs == \A n, o \in Nodes : NextHop[n][o] \in D!Intfs /\ D!Peer(NextHop[n][o]) \in D!Intfs
<1>1. \A n, o \in Nodes : NextHop[n][o] \in D!Intfs
  BY NetworkAssumption DEF D!DdcpAssumption, D!Intfs
<1> QED
  BY <1>1, IntfFacts

\* pkt_recvr_job_cbk: what is asked of a step that handles packet p, where T are
\* the other packets.
LEMMA RecvKeeps ==
  ASSUME CollectionInv, D!Recv, ddcp_crashed = "no"
  PROVE  CollectionInv'
<1> DEFINE p == Head(pkts)
           n == D!NodeOf(p.iif)
           tl == Tail(pkts)
           T == D!ToSet(tl)
<1>0. pkts # <<>> /\ UNCHANGED <<ddcp, l3, up, ddcp_jobs, calm>>
  BY DEF D!Recv, D!config
<1>1. /\ queries \in QueriesType /\ replies \in RepliesType /\ pkts \in Seq(Pkts)
      /\ l3 \subseteq D!Intfs /\ calm \subseteq Nodes /\ ddcp_jobs \in Seq(Originators)
  BY TypedFacts DEF CollectionInv, CollectionTyped
<1>2. p \in Pkts /\ tl \in Seq(Pkts) /\ D!ToSet(pkts) = T \union {p} /\ T \in SUBSET Pkts
  <2>1. p \in Pkts /\ tl \in Seq(Pkts) /\ D!ToSet(pkts) = T \union {p}
    BY <1>0, <1>1, TailHas
  <2>2. T \in SUBSET Pkts
    BY <2>1, ToSetIn
  <2> QED
    BY <2>1, <2>2
<1>3. \/ p.iif \notin l3 /\ pkts' = tl /\ UNCHANGED <<queries, replies, ddcp_crashed>>
      \/ p.iif \in l3 /\ p.kind = "query" /\ D!RecvQuery(n, p)
      \/ p.iif \in l3 /\ p.kind = "reply" /\ D!RecvReply(n, p)
  BY DEF D!Recv
<1> HIDE DEF p, T, tl
<1>4. /\ NoneAhead(queries, replies, T \union {p})
      /\ \A o \in calm : IsPresent(queries, replies, T \union {p}, o) /\ IsUnderWay(queries, replies, T \union {p}, o)
  BY <1>2 DEF CollectionInv
<1>5. p.iif \in D!Intfs /\ p.of \in Nodes /\ n \in Nodes /\ p.seq_no \in Nat /\ NextHop[n][p.of] \in D!Intfs
  BY <1>2, IntfFacts, NextHopIs DEF Pkts, QueryPkts, ReplyPkts
<1>6. (p.kind = "query" => p \in QueryPkts) /\ (p.kind = "reply" => p \in ReplyPkts)
  BY <1>2 DEF Pkts, QueryPkts, ReplyPkts
\* What is left to show of every case.
<1>7. ASSUME queries' \in QueriesType, replies' \in RepliesType, pkts' \in Seq(Pkts),
             ddcp_crashed' # "assert", NEW Q, D!ToSet(pkts') = Q,
             NoneAhead(queries', replies', Q),
             \A o \in calm : IsPresent(queries', replies', Q, o),
             ddcp_crashed' = "no" => \A o \in calm : IsUnderWay(queries', replies', Q, o)
      PROVE  CollectionInv'
  <2>1. CollectionTyped'
    BY <1>0, <1>1, <1>7 DEF CollectionTyped, QueriesType, RepliesType, Pkts, ReplyData, QueryPkts, ReplyPkts, D!Intfs
  <2> QED
    BY <1>0, <1>7, <2>1, Unconfigured
\* Where the packet is dropped.
<1>8. ASSUME pkts' = tl, UNCHANGED <<queries, replies>>, ddcp_crashed' # "assert",
             p.kind = "query" => p.iif \notin l3 \/ p.iif \notin ddcp \/ p.seq_no <= queries[n][p.of],
             p.kind = "reply" => \/ p.iif \notin l3 \/ ddcp_crashed' # "no"
                                 \/ replies[p.of][p.from] # NoReply /\ p.seq_no <= replies[p.of][p.from].seq_no
      PROVE  CollectionInv'
  <2>1. \A o \in calm : p.kind = "query" /\ p.of = o /\ p.seq_no = queries[o][o] =>
          p.iif \notin l3 \/ p.iif \notin ddcp \/ queries[n][o] = queries[o][o]
    <3>1. queries[n][p.of] <= queries[p.of][p.of]
      BY <1>4, <1>5 DEF NoneAhead
    <3>2. queries[n][p.of] \in Int /\ queries[p.of][p.of] \in Int
      BY <1>1, <1>5 DEF QueriesType, D!NONE
    <3> QED
      BY <1>5, <1>8, <3>1, <3>2
  <2>2. \A o \in calm : p.kind = "reply" /\ p.of = o /\ p.seq_no = queries[o][o] =>
          p.iif \notin l3 \/ ddcp_crashed' # "no" \/ Kept(replies, p.from, o, queries[o][o])
    <3> SUFFICES ASSUME NEW o \in calm, p.kind = "reply", p.of = o, p.seq_no = queries[o][o],
                        replies[p.of][p.from] # NoReply, p.seq_no <= replies[p.of][p.from].seq_no
                 PROVE  Kept(replies, p.from, o, queries[o][o])
      BY <1>8
    <3>1. p.from \in Nodes
      BY <1>6 DEF ReplyPkts
    <3>2. replies[o][p.from].seq_no <= queries[o][o] /\ replies[o][p.from].seq_no \in Nat
      BY <1>1, <1>4, <1>5, <3>1 DEF NoneAhead, RepliesType, ReplyData
    <3> QED
      BY <1>5, <3>2 DEF Kept
  <2>3. /\ NoneAhead(queries, replies, T)
        /\ \A o \in calm : IsPresent(queries, replies, T, o)
        /\ ddcp_crashed' = "no" => \A o \in calm : IsUnderWay(queries, replies, T, o)
    BY <1>1, <1>2, <1>4, <2>1, <2>2, DropKeeps
  <2>4. D!ToSet(pkts') = T
    BY <1>8 DEF T
  <2> QED
    BY <1>1, <1>2, <1>7, <1>8, <2>3, <2>4
<1>9. CASE p.iif \notin l3 /\ pkts' = tl /\ UNCHANGED <<queries, replies, ddcp_crashed>>
  BY <1>8, <1>9
<1>10. CASE p.iif \in l3 /\ p.kind = "query" /\ D!RecvQuery(n, p)
  <2>1. p \in QueryPkts /\ p.seq_no <= queries[p.of][p.of]
    BY <1>4, <1>6, <1>10 DEF NoneAhead
  <2>2. CASE p.iif \in ddcp /\ p.of = n /\ queries[n][n] = D!NONE
    BY <1>5, <2>1, <2>2 DEF D!NONE
  <2>3. CASE D!should_process(n, p) /\ ~(p.iif \in ddcp /\ p.of = n /\ queries[n][n] = D!NONE)
    <3> DEFINE reply == [kind |-> "reply", iif |-> NoReply, of |-> p.of, from |-> n,
                         seq_no |-> p.seq_no, ip_reach |-> D!IpReach(n)]
               out == [reply EXCEPT !.iif = D!Peer(NextHop[n][p.of])]
               fl == D!flood(n, p.of, p.seq_no, p.iif)
               F == D!ToSet(fl)
    <3>1. /\ queries' = [queries EXCEPT ![n][p.of] = p.seq_no] /\ UNCHANGED <<replies, ddcp_crashed>>
          /\ \E r \in D!Sent(n, p.of, reply) : pkts' = r \o fl \o tl
      BY <1>10, <2>3 DEF D!RecvQuery, tl
    <3>2. PICK r \in D!Sent(n, p.of, reply) : pkts' = r \o fl \o tl
      BY <3>1
    <3>3. out = [kind |-> "reply", iif |-> D!Peer(NextHop[n][p.of]), of |-> p.of, from |-> n,
                 seq_no |-> p.seq_no, ip_reach |-> D!IpReach(n)]
      OBVIOUS
    <3>4. D!IpReach(n) \in SUBSET D!Intfs /\ D!Peer(NextHop[n][p.of]) \in D!Intfs
      BY <1>1, <1>5, NextHopIs DEF D!IpReach
    <3>5. out \in ReplyPkts
      BY <1>5, <3>3, <3>4 DEF ReplyPkts
    <3> DEFINE R == D!ToSet(r)
    <3>6. /\ r \in Seq(Pkts) /\ R \in SUBSET ReplyPkts /\ R \subseteq {out}
          /\ D!HasWay(NextHop[n][p.of]) => R = {out}
      BY <1>5, <3>5, SentHas
    <3>7. out.of = p.of /\ out.from = n /\ out.seq_no = p.seq_no /\ out.ip_reach = D!IpReach(n)
          /\ out.iif = D!Peer(NextHop[n][p.of])
      BY <3>3
    <3>8. fl \in Seq(QueryPkts) /\ F = {D!Query(p.of, i, p.seq_no) : i \in D!Others(n, p.iif) \intersect D!TakesPart}
      BY <1>5, FloodHas
    <3> HIDE DEF out, reply, fl, R, F
    <3>9. pkts' \in Seq(Pkts) /\ D!ToSet(pkts') = R \union F \union T
      <4>1. fl \in Seq(Pkts)
        BY <3>8 DEF Pkts
      <4>2. r \o fl \in Seq(Pkts) /\ D!ToSet(r \o fl) = R \union F
        BY <3>6, <4>1, ConcatHas DEF R, F
      <4>3. (r \o fl) \o tl \in Seq(Pkts) /\ D!ToSet((r \o fl) \o tl) = R \union F \union T
        <5> DEFINE both == r \o fl
        <5>1. both \in Seq(Pkts) /\ D!ToSet(both) = R \union F
          BY <4>2
        <5> HIDE DEF both
        <5>2. both \o tl \in Seq(Pkts) /\ D!ToSet(both \o tl) = D!ToSet(both) \union D!ToSet(tl)
          BY ONLY <1>2, <5>1, ConcatHas
        <5> QED
          BY <5>1, <5>2 DEF both, T
      <4> QED
        BY <3>2, <4>3
    <3>10. queries[n][p.of] < p.seq_no
      BY <2>3 DEF D!should_process
    <3>11. IsSeen(queries, queries', p, R, F)
      BY <3>1, <3>6, <3>7, <3>8, <3>10 DEF IsSeen
    <3>12. /\ queries' \in QueriesType /\ NoneAhead(queries', replies, R \union F \union T)
           /\ \A o \in Nodes :
                /\ IsPresent(queries, replies, T \union {p}, o) => IsPresent(queries', replies, R \union F \union T, o)
                /\ IsPresent(queries, replies, T \union {p}, o) /\ IsUnderWay(queries, replies, T \union {p}, o)
                     => IsUnderWay(queries', replies, R \union F \union T, o)
      BY ONLY <1>1, <1>2, <1>4, <2>1, <3>11, SeenKeeps
    <3>13. \A o \in calm : /\ IsPresent(queries', replies, R \union F \union T, o)
                           /\ IsUnderWay(queries', replies, R \union F \union T, o)
      BY ONLY <1>1, <1>4, <3>12
    <3>14. replies' = replies /\ ddcp_crashed' = "no"
      BY <3>1
    <3> QED
      BY <1>1, <1>7, <3>9, <3>12, <3>13, <3>14
  <2>4. CASE ~D!should_process(n, p) /\ ~(p.iif \in ddcp /\ p.of = n /\ queries[n][n] = D!NONE)
    <3>1. pkts' = tl /\ UNCHANGED <<queries, replies, ddcp_crashed>>
      BY <1>10, <2>4 DEF D!RecvQuery, tl
    <3>2. p.iif \notin ddcp \/ p.seq_no <= queries[n][p.of]
      <4>1. queries[n][p.of] \in Int
        BY <1>1, <1>5 DEF QueriesType, D!NONE
      <4> QED
        BY <1>5, <2>4, <4>1 DEF D!should_process
    <3> QED
      BY <1>8, <1>10, <3>1, <3>2
  <2> QED
    BY <2>2, <2>3, <2>4
<1>11. CASE p.iif \in l3 /\ p.kind = "reply" /\ D!RecvReply(n, p)
  <2>1. p \in ReplyPkts /\ queries' = queries /\ p.from \in Nodes
    BY <1>6, <1>11 DEF D!RecvReply, ReplyPkts
  <2> DEFINE old == replies[n][p.from]
             free == old # NoReply /\ D!newer(old, p) /\ D!Cardinality(old.ip_reach) # D!Cardinality(p.ip_reach)
  <2>2. CASE p.of = n /\ free
    <3>1. pkts' = tl /\ replies' = replies /\ ddcp_crashed' = "free"
      BY <1>11, <2>2 DEF D!RecvReply, D!Keep, tl
    <3> QED
      BY <1>8, <1>11, <2>1, <3>1
  <2>3. CASE p.of = n /\ ~free /\ (old = NoReply \/ D!newer(old, p))
    <3>1. /\ pkts' = tl /\ UNCHANGED <<queries, ddcp_crashed>>
          /\ replies' = [replies EXCEPT ![p.of][p.from] = [seq_no |-> p.seq_no, ip_reach |-> p.ip_reach]]
      BY <1>11, <2>1, <2>3 DEF D!RecvReply, D!Keep, tl
    <3>2. IsKept(replies, replies', p)
      BY <2>3, <3>1 DEF IsKept, D!newer
    <3>3. /\ replies' \in RepliesType /\ NoneAhead(queries, replies', T)
          /\ \A o \in Nodes :
               /\ IsPresent(queries, replies, T \union {p}, o) => IsPresent(queries, replies', T, o)
               /\ IsUnderWay(queries, replies, T \union {p}, o) => IsUnderWay(queries, replies', T, o)
      BY ONLY <1>1, <1>2, <1>4, <2>1, <3>2, KeepKeeps
    <3>4. \A o \in calm : IsPresent(queries, replies', T, o) /\ IsUnderWay(queries, replies', T, o)
      BY ONLY <1>1, <1>4, <3>3
    <3>5. D!ToSet(pkts') = T
      BY <3>1 DEF T
    <3> QED
      BY <1>1, <1>2, <1>7, <3>1, <3>3, <3>4, <3>5
  <2>4. CASE p.of = n /\ ~free /\ ~(old = NoReply \/ D!newer(old, p))
    <3>1. pkts' = tl /\ UNCHANGED <<queries, replies, ddcp_crashed>>
      BY <1>11, <2>4 DEF D!RecvReply, D!Keep, tl
    <3>2. replies[p.of][p.from] # NoReply /\ p.seq_no <= replies[p.of][p.from].seq_no
      <4>1. old \in ReplyData
        BY <1>1, <1>5, <2>1, <2>4 DEF RepliesType
      <4> HIDE DEF old
      <4>2. old # NoReply /\ p.seq_no <= old.seq_no
        BY <1>5, <2>4, <4>1 DEF D!newer, ReplyData
      <4> QED
        BY <2>4, <4>2 DEF old
    <3> QED
      BY <1>8, <1>11, <3>1, <3>2
  <2>5. CASE p.of # n
    <3> DEFINE out == [p EXCEPT !.iif = D!Peer(NextHop[n][p.of])]
    <3>1. PICK r \in D!Sent(n, p.of, p) : pkts' = r \o tl
      BY <1>11, <2>5 DEF D!RecvReply, tl
    <3>2. UNCHANGED <<queries, replies, ddcp_crashed>>
      BY <1>11, <2>5 DEF D!RecvReply, tl
    <3>3. /\ out \in ReplyPkts /\ out.of = p.of /\ out.from = p.from /\ out.seq_no = p.seq_no
          /\ out.ip_reach = p.ip_reach /\ out.iif = D!Peer(NextHop[n][p.of])
      BY <1>5, <2>1, NextHopIs DEF ReplyPkts
    <3> DEFINE R == D!ToSet(r)
    <3>4. /\ r \in Seq(Pkts) /\ R \in SUBSET ReplyPkts /\ R \subseteq {out}
          /\ D!HasWay(NextHop[n][p.of]) => R = {out}
      BY <1>5, <3>3, SentHas
    <3>5. pkts' \in Seq(Pkts) /\ D!ToSet(pkts') = R \union T
      <4>1. r \in Seq(Pkts)
        BY <3>4
      <4>2. r \o tl \in Seq(Pkts) /\ D!ToSet(r \o tl) = D!ToSet(r) \union D!ToSet(tl)
        BY ONLY <1>2, <4>1, ConcatHas
      <4> QED
        BY <3>1, <4>2 DEF T
    <3> HIDE DEF out, R
    <3>6. IsForwarded(p, R)
      BY <2>5, <3>3, <3>4 DEF IsForwarded
    <3>7. /\ NoneAhead(queries, replies, R \union T)
          /\ \A o \in Nodes :
               /\ IsPresent(queries, replies, T \union {p}, o) => IsPresent(queries, replies, R \union T, o)
               /\ IsUnderWay(queries, replies, T \union {p}, o) => IsUnderWay(queries, replies, R \union T, o)
      BY ONLY <1>1, <1>2, <1>4, <2>1, <3>6, ForwardKeeps
    <3>8. \A o \in calm : IsPresent(queries, replies, R \union T, o) /\ IsUnderWay(queries, replies, R \union T, o)
      BY ONLY <1>1, <1>4, <3>7
    <3> QED
      BY <1>1, <1>7, <3>2, <3>5, <3>7, <3>8
  <2> QED
    BY <2>2, <2>3, <2>4, <2>5
<1> QED
  BY <1>3, <1>9, <1>10, <1>11

LEMMA CollectionNext == CollectionInv /\ [D!Next]_D!vars => CollectionInv'
<1> SUFFICES ASSUME CollectionInv, [D!Next]_D!vars PROVE CollectionInv'
  OBVIOUS
<1>0. Originators \subseteq Nodes /\ ddcp_jobs \in Seq(Originators)
  BY NetworkAssumption DEF D!DdcpAssumption, CollectionInv, CollectionTyped
<1>1. ASSUME UNCHANGED <<ddcp, l3, up, queries, replies, pkts, calm, ddcp_crashed>>, ddcp_jobs' \in Seq(Originators)
      PROVE  CollectionInv'
  <2>1. D!ToSet(pkts') = D!ToSet(pkts)
    BY <1>1
  <2>2. CollectionTyped'
    BY <1>1 DEF CollectionInv, CollectionTyped, QueryPkts, ReplyPkts, ReplyData, D!Intfs
  <2>3. /\ NoneAhead(queries', replies', D!ToSet(pkts'))
        /\ \A o \in calm' : IsPresent(queries', replies', D!ToSet(pkts'), o)
        /\ ddcp_crashed' = "no" => \A o \in calm' : IsUnderWay(queries', replies', D!ToSet(pkts'), o)
        /\ ddcp_crashed' # "assert"
    BY <1>1, <2>1 DEF CollectionInv
  <2> QED
    BY <1>1, <2>2, <2>3, Unconfigured
<1>2. CASE UNCHANGED D!vars
  BY <1>0, <1>1, <1>2 DEF D!vars
<1>3. CASE D!Next
  <2>0. ddcp_crashed = "no"
    BY <1>3 DEF D!Next
  <2>1. CASE D!Recv
    BY <2>0, <2>1, RecvKeeps
  <2>2. ASSUME NEW n \in Originators, D!RunQuery(n) PROVE CollectionInv'
    <3>1. D!Asks(n) /\ UNCHANGED <<ddcp, l3, up, replies, ddcp_jobs, ddcp_crashed>>
      BY <2>2 DEF D!RunQuery, D!config
    <3> QED
      BY <1>0, <2>0, <3>1, AsksKeeps
  <2>3. ASSUME NEW n \in Originators, D!RunQueryPeriodic(n) PROVE CollectionInv'
    BY <1>0, <2>0, <2>3, PeriodicKeeps
  <2>4. ASSUME NEW n \in Originators, D!TimerFires(n) PROVE CollectionInv'
    <3>1. /\ UNCHANGED <<ddcp, l3, up, queries, replies, pkts, calm, ddcp_crashed>>
          /\ ddcp_jobs' = Append(ddcp_jobs, n)
      BY <2>4 DEF D!TimerFires, D!config
    <3>2. ddcp_jobs' \in Seq(Originators)
      BY <1>0, <3>1
    <3> QED
      BY <1>1, <3>1, <3>2
  <2>5. CASE D!QueryJob
    <3>1. /\ ddcp_jobs # <<>> /\ D!Asks(Head(ddcp_jobs)) /\ ddcp_jobs' = Tail(ddcp_jobs)
          /\ UNCHANGED <<ddcp, l3, up, replies, ddcp_crashed>>
      BY <2>5 DEF D!QueryJob, D!config
    <3>2. Head(ddcp_jobs) \in Nodes /\ ddcp_jobs' \in Seq(Originators)
      BY <1>0, <3>1
    <3> QED
      BY <2>0, <3>1, <3>2, AsksKeeps
  <2>6. ASSUME NEW i \in Changing, D!ConfigIntf(i) PROVE CollectionInv'
    BY <2>0, <2>6, ConfigKeeps
  <2> QED
    BY <1>3, <2>1, <2>2, <2>3, <2>4, <2>5, <2>6 DEF D!Next
<1> QED
  BY <1>2, <1>3

\* Where no packet is left, the routers that have seen the query are closed under
\* passing it on, and every answer has come.
LEMMA CollectionEnds == CollectionInv => Collected
<1> SUFFICES ASSUME CollectionInv PROVE D!Collected
  BY DEF Collected
<1> SUFFICES ASSUME pkts = <<>>, ddcp_crashed = "no", NEW o \in calm,
                    NEW m \in (D!Reached(o) \intersect D!Answers(o)) \ {o}
             PROVE  /\ replies[o][m] # NoReply
                    /\ replies[o][m].seq_no = queries[o][o]
                    /\ replies[o][m].ip_reach = D!IpReach(m)
  BY DEF CollectionInv, D!Collected
<1>1. D!ToSet(pkts) = {}
  BY DEF D!ToSet
<1>2. o \in Nodes /\ m \in Nodes /\ l3 \subseteq D!Intfs
  BY DEF CollectionInv, CollectionTyped, D!Reached
<1>3. IsPresent(queries, replies, {}, o) /\ IsUnderWay(queries, replies, {}, o)
  BY <1>1 DEF CollectionInv
<1> DEFINE Seen == {n \in Nodes : queries[n][o] = queries[o][o]}
<1>4. D!Asked(Seen) \subseteq Seen
  <2> SUFFICES ASSUME NEW j \in D!TakesPart, D!NodeOf(j) \in Seen, D!Peer(j) \in ddcp \intersect l3
               PROVE  D!NodeOf(D!Peer(j)) \in Seen
    BY DEF D!Asked
  <2>1. D!NodeOf(D!Peer(j)) \in Nodes
    BY <1>2, IntfFacts DEF D!TakesPart
  <2> QED
    BY <1>3, <2>1 DEF IsUnderWay, QueryTo
<1>5. Seen \in SUBSET Nodes /\ o \in Seen
  BY <1>2
<1>6. m \in Seen
  <2> HIDE DEF Seen
  <2> QED
    BY <1>4, <1>5 DEF D!Reached
<1>7. Kept(replies, m, o, queries[o][o])
  BY <1>3, <1>6 DEF IsUnderWay, ReplyFrom
<1> QED
  BY <1>2, <1>3, <1>7 DEF IsPresent, Kept

\* Data collection over any network of routers and links, with any routes, whoever
\* asks and whatever is reconfigured: once the packets of an undisturbed query are
\* handled, the originator of ddcp.c holds the present answer of every router that
\* the query and the way back connect, and the assertion on its own entry holds.
THEOREM AnswersCollected == D!Spec => []Collected
<1>1. D!Init => CollectionInv
  BY CollectionFirst
<1>2. CollectionInv /\ [D!Next]_D!vars => CollectionInv'
  BY CollectionNext
<1>3. CollectionInv => Collected
  BY CollectionEnds
<1> QED
  BY <1>1, <1>2, <1>3, PTL DEF D!Spec

-----------------------------------------------------------------------------
(* Interface groups.  A list matters by its elements and by which comes    *)
(* before which.                                                           *)

Els(s) == {s[i] : i \in 1..Len(s)}

\* What RemoveAt of SequencesExt is made of.
Shrunk(s, p) == SubSeq(s, 1, p - 1) \o SubSeq(s, p + 1, Len(s))

LEMMA RemoveAtHas ==
  ASSUME NEW X, NEW s \in Seq(X), NEW p \in 1..Len(s)
  PROVE  /\ Shrunk(s, p) \in Seq(X) /\ Len(Shrunk(s, p)) = Len(s) - 1
         /\ \A i \in 1..(Len(s) - 1) : Shrunk(s, p)[i] = IF i < p THEN s[i] ELSE s[i + 1]
<1> DEFINE u == SubSeq(s, 1, p - 1)
           v == SubSeq(s, p + 1, Len(s))
           t == u \o v
<1>1. PICK n \in Nat : Len(s) = n
  OBVIOUS
<1>2. u \in Seq(X) /\ Len(u) = p - 1 /\ \A i \in 1..(p - 1) : u[i] = s[i]
  BY <1>1
<1>3. v \in Seq(X) /\ Len(v) = n - p /\ \A i \in 1..(n - p) : v[i] = s[p + i]
  BY <1>1
<1>4. Shrunk(s, p) = t
  BY DEF Shrunk
<1> HIDE DEF u, v
<1>5. p \in Nat /\ 1 <= p /\ p <= n /\ n \in Nat
  BY <1>1
<1>6. /\ t \in Seq(X) /\ Len(t) = n - 1
      /\ \A i \in 1..(n - 1) : t[i] = IF i <= p - 1 THEN u[i] ELSE v[i - (p - 1)]
  <2>1. /\ t \in Seq(X) /\ Len(t) = Len(u) + Len(v)
        /\ \A i \in 1..(Len(u) + Len(v)) : t[i] = IF i <= Len(u) THEN u[i] ELSE v[i - Len(u)]
    BY <1>2, <1>3, ConcatProperties
  <2>2. Len(u) = p - 1 /\ (p - 1) + Len(v) = n - 1
    BY <1>2, <1>3, <1>5
  <2> HIDE DEF t
  <2> QED
    BY ONLY <2>1, <2>2
<1> HIDE DEF t
<1>7. \A i \in 1..(n - 1) : t[i] = IF i < p THEN s[i] ELSE s[i + 1]
  <2> SUFFICES ASSUME NEW i \in 1..(n - 1) PROVE t[i] = IF i < p THEN s[i] ELSE s[i + 1]
    OBVIOUS
  <2>1. CASE i < p
    <3>1. i \in 1..(p - 1) /\ i <= p - 1
      BY <1>5, <2>1
    <3> QED
      BY <1>2, <1>6, <2>1, <3>1
  <2>2. CASE i >= p
    <3>1. i - (p - 1) \in 1..(n - p) /\ p + (i - (p - 1)) = i + 1 /\ ~(i <= p - 1) /\ ~(i < p)
      BY ONLY <1>5, <2>2, i \in 1..(n - 1)
    <3>2. t[i] = v[i - (p - 1)]
      BY <1>6, <3>1
    <3>3. v[i - (p - 1)] = s[p + (i - (p - 1))]
      BY <1>3, <3>1
    <3> QED
      BY ONLY <3>1, <3>2, <3>3
  <2> QED
    BY <1>5, <2>1, <2>2
<1> QED
  BY <1>1, <1>4, <1>6, <1>7

\* t is s without the element at place p.
Without(t, s, p) ==
  /\ Len(t) = Len(s) - 1
  /\ \A i \in 1..Len(t) : t[i] = IF i < p THEN s[i] ELSE s[i + 1]
LEMMA WithoutEls ==
  ASSUME NEW s, Len(s) \in Nat, NEW p \in 1..Len(s), NEW t, Without(t, s, p),
         \A i \in 1..Len(s) : s[i] = s[p] => i = p
  PROVE  Els(t) = Els(s) \ {s[p]}
<1>1. ASSUME NEW i \in 1..Len(t) PROVE t[i] \in Els(s) \ {s[p]}
  <2>1. i < p => i \in 1..Len(s) /\ t[i] = s[i]
    BY DEF Without
  <2>2. ~(i < p) => i + 1 \in 1..Len(s) /\ i + 1 # p /\ t[i] = s[i + 1]
    BY DEF Without
  <2> QED
    BY <2>1, <2>2 DEF Els
<1>2. ASSUME NEW i \in 1..Len(s), i # p PROVE s[i] \in Els(t)
  <2>1. CASE i < p
    <3>1. i \in 1..Len(t) /\ t[i] = s[i]
      BY <2>1 DEF Without
    <3> QED
      BY <3>1 DEF Els
  <2>2. CASE i > p
    <3>1. i - 1 \in 1..Len(t) /\ t[i - 1] = s[i]
      BY <2>2 DEF Without
    <3> QED
      BY <3>1 DEF Els
  <2> QED
    BY <1>2, <2>1, <2>2
<1> QED
  BY <1>1, <1>2 DEF Els

------------------------------------------------------------------------

Before(s, m, n) == \E j, k \in 1..Len(s) : j < k /\ s[j] = m /\ s[k] = n

LEMMA BeforeEls == ASSUME NEW s, NEW m, NEW n, Before(s, m, n) PROVE m \in Els(s) /\ n \in Els(s)
BY DEF Before, Els

\* remove_glthread of a node that is in the list at most once
LEMMA WithoutIs ==
  ASSUME NEW X, NEW s \in Seq(X), NEW e, ~Before(s, e, e)
  PROVE  LET t == Groups!without(s, e) IN
         /\ t \in Seq(X) /\ Els(t) = Els(s) \ {e}
         /\ \A m, n : Before(t, m, n) => Before(s, m, n)
<1> DEFINE t == Groups!without(s, e)
<1>0. Len(s) \in Nat /\ DOMAIN s = 1..Len(s)
  OBVIOUS
<1>1. CASE ~\E k \in DOMAIN s : s[k] = e
  <2>1. t = s
    BY <1>1 DEF Groups!without
  <2>2. e \notin Els(s)
    BY <1>0, <1>1 DEF Els
  <2> QED
    BY <2>1, <2>2
<1>2. CASE \E k \in DOMAIN s : s[k] = e
  <2> DEFINE p == CHOOSE k \in DOMAIN s : s[k] = e
  <2>1. p \in 1..Len(s) /\ s[p] = e
    BY <1>0, <1>2
  <2>2. t = Groups!RemoveAt(s, p)
    BY <1>2 DEF Groups!without
  <2> HIDE DEF p
  <2>3. t = Shrunk(s, p)
    BY <2>2 DEF Groups!RemoveAt, Shrunk
  <2> HIDE DEF t
  <2>4. t \in Seq(X) /\ Without(t, s, p)
    BY <2>1, <2>3, RemoveAtHas DEF Without
  <2>5. \A i \in 1..Len(s) : s[i] = s[p] => i = p
    <3> SUFFICES ASSUME NEW i \in 1..Len(s), s[i] = e, i # p PROVE FALSE
      BY <2>1
    <3>1. i < p \/ p < i
      BY <1>0, <2>1
    <3> QED
      BY <2>1, <3>1 DEF Before
  <2>6. Els(t) = Els(s) \ {e}
    BY <1>0, <2>1, <2>4, <2>5, WithoutEls
  <2>7. ASSUME NEW m, NEW n, Before(t, m, n) PROVE Before(s, m, n)
    <3>1. PICK j, k \in 1..Len(t) : j < k /\ t[j] = m /\ t[k] = n
      BY <2>7 DEF Before
    <3> DEFINE J == IF j < p THEN j ELSE j + 1
               K == IF k < p THEN k ELSE k + 1
    <3>2. t[j] = s[J] /\ t[k] = s[K]
      BY <2>4 DEF Without
    <3>3. Len(t) = Len(s) - 1
      BY <2>4 DEF Without
    <3>4. J \in 1..Len(s) /\ K \in 1..Len(s) /\ J < K
      BY <1>0, <2>1, <3>1, <3>3
    <3> HIDE DEF J, K
    <3> QED
      BY <3>1, <3>2, <3>4 DEF Before
  <2> QED
    BY <2>4, <2>6, <2>7 DEF t
<1> QED
  BY <1>1, <1>2

\* A new element at the front.
LEMMA FirstIs ==
  ASSUME NEW X, NEW s \in Seq(X), NEW e \in X
  PROVE  LET t == <<e>> \o s IN
         /\ t \in Seq(X) /\ Len(t) = Len(s) + 1 /\ Els(t) = Els(s) \union {e}
         /\ \A k \in 1..Len(t) : t[k] = IF k = 1 THEN e ELSE s[k - 1]
         /\ \A m, n : Before(t, m, n) => Before(s, m, n) \/ (m = e /\ n \in Els(s))
<1> DEFINE t == <<e>> \o s
<1>0. Len(s) \in Nat
  OBVIOUS
<1>1. t \in Seq(X) /\ Len(t) = Len(s) + 1 /\ \A k \in 1..(Len(s) + 1) : t[k] = IF k = 1 THEN e ELSE s[k - 1]
  OBVIOUS
<1> HIDE DEF t
<1>2. \A k \in 1..Len(s) : s[k] = t[k + 1] /\ k + 1 \in 1..Len(t)
  BY <1>0, <1>1
<1>3. e = t[1] /\ 1 \in 1..Len(t)
  BY <1>0, <1>1
<1>4. ASSUME NEW k \in 1..Len(t) PROVE (k = 1 /\ t[k] = e) \/ (k > 1 /\ k - 1 \in 1..Len(s) /\ t[k] = s[k - 1])
  <2>1. CASE k = 1
    BY <1>3, <2>1
  <2>2. CASE k # 1
    <3>1. k > 1 /\ k - 1 \in 1..Len(s) /\ k \in 1..(Len(s) + 1)
      BY <1>0, <1>1, <2>2
    <3> QED
      BY <1>1, <2>2, <3>1
  <2> QED
    BY <2>1, <2>2
<1>5. Els(t) = Els(s) \union {e}
  <2>1. \A k \in 1..Len(t) : t[k] \in Els(s) \union {e}
    BY <1>4 DEF Els
  <2>2. e \in Els(t) /\ \A k \in 1..Len(s) : s[k] \in Els(t)
    BY <1>2, <1>3 DEF Els
  <2> QED
    BY <2>1, <2>2 DEF Els
<1>6. ASSUME NEW m, NEW n, Before(t, m, n) PROVE Before(s, m, n) \/ (m = e /\ n \in Els(s))
  <2>1. PICK j, k \in 1..Len(t) : j < k /\ t[j] = m /\ t[k] = n
    BY <1>6 DEF Before
  <2>2. k > 1 /\ k - 1 \in 1..Len(s) /\ n = s[k - 1]
    BY <1>4, <2>1
  <2>3. CASE j = 1
    BY <1>3, <2>1, <2>2, <2>3 DEF Els
  <2>4. CASE j > 1
    <3>1. j - 1 \in 1..Len(s) /\ m = s[j - 1] /\ j - 1 < k - 1
      BY <1>4, <2>1, <2>4
    <3> QED
      BY <2>2, <3>1 DEF Before
  <2> QED
    BY <2>1, <2>3, <2>4
<1> QED
  BY <1>1, <1>5, <1>6 DEF t

\* And at the end.
LEMMA LastIs ==
  ASSUME NEW X, NEW s \in Seq(X), NEW e \in X
  PROVE  LET t == Append(s, e) IN
         /\ t \in Seq(X) /\ Els(t) = Els(s) \union {e}
         /\ \A m, n : Before(t, m, n) => Before(s, m, n) \/ (n = e /\ m \in Els(s))
<1> DEFINE t == Append(s, e)
<1>0. Len(s) \in Nat
  OBVIOUS
<1>1. t \in Seq(X) /\ Len(t) = Len(s) + 1 /\ \A k \in 1..(Len(s) + 1) : t[k] = IF k = Len(s) + 1 THEN e ELSE s[k]
  OBVIOUS
<1> HIDE DEF t
<1>2. \A k \in 1..Len(s) : s[k] = t[k] /\ k \in 1..Len(t)
  BY <1>0, <1>1
<1>3. e = t[Len(s) + 1] /\ Len(s) + 1 \in 1..Len(t)
  BY <1>0, <1>1
<1>4. ASSUME NEW k \in 1..Len(t) PROVE (k = Len(s) + 1 /\ t[k] = e) \/ (k \in 1..Len(s) /\ t[k] = s[k])
  <2>1. CASE k = Len(s) + 1
    BY <1>3, <2>1
  <2>2. CASE k # Len(s) + 1
    <3>1. k \in 1..Len(s) /\ k \in 1..(Len(s) + 1)
      BY <1>0, <1>1, <2>2
    <3> QED
      BY <1>1, <2>2, <3>1
  <2> QED
    BY <2>1, <2>2
<1>5. Els(t) = Els(s) \union {e}
  BY <1>2, <1>3, <1>4 DEF Els
<1>6. ASSUME NEW m, NEW n, Before(t, m, n) PROVE Before(s, m, n) \/ (n = e /\ m \in Els(s))
  <2>1. PICK j, k \in 1..Len(t) : j < k /\ t[j] = m /\ t[k] = n
    BY <1>6 DEF Before
  <2>2. j \in 1..Len(s) /\ m = s[j]
    BY <1>0, <1>1, <1>4, <2>1
  <2>3. (k \in 1..Len(s) /\ n = s[k]) \/ n = e
    BY <1>4, <2>1
  <2> QED
    BY <2>1, <2>2, <2>3 DEF Before, Els
<1> QED
  BY <1>1, <1>5, <1>6 DEF t

Node == [groups   : [Groups!Names -> Seq(Groups!Intfs) \union {NoGroup}], dyn : BOOLEAN,
         adjs     : [Groups!Intfs -> Seq(Groups!Adjacencies) \union {NoGroup}],
         intf_grp : [Groups!Intfs -> Groups!Names \union {NoGroup}]]

\* The neighbours an interface has adjacencies to.
Nbrs(s, i) == IF Groups!Enabled(s, i) THEN {s.adjs[i][k].nbr : k \in 1..Len(s.adjs[i])} ELSE {}

\* An interface is in a list once, and of those in I each is in the list of its group
\* and in no other.
Once(s) ==
  \A g \in Groups!Names : Groups!Exists(s, g) => \A m \in Groups!Intfs : ~Before(s.groups[g], m, m)
InGroup(s, g, m) == Groups!Exists(s, g) /\ m \in Els(s.groups[g])
Together(s, I) == \A g \in Groups!Names, m \in I : InGroup(s, g, m) <=> s.intf_grp[m] = g

\* Only an interface that runs the protocol has a group, and its adjacencies are to
\* different neighbours on its link.
RunsProtocol(s) == \A m \in Groups!Intfs : s.intf_grp[m] # NoGroup => Groups!Enabled(s, m)
OnLink(s) ==
  \A i \in Groups!Intfs : Groups!Enabled(s, i) =>
    \A j, k \in 1..Len(s.adjs[i]) :
      s.adjs[i][j].nbr \in nbrs[i] /\ (s.adjs[i][j].nbr = s.adjs[i][k].nbr => j = k)

GoodBut(s, I) == s \in Node /\ Once(s) /\ Together(s, I) /\ RunsProtocol(s) /\ OnLink(s)
Good(s) == GoodBut(s, Groups!Intfs)

\* Of the interfaces in I, those whose adjacency is up come first in each list.
LiveFirst(s, I) ==
  \A g \in Groups!Names : Groups!Exists(s, g) =>
    \A m, n \in I : Before(s.groups[g], m, n) /\ Groups!active(s, n) => Groups!active(s, m)

\* With dynamic groups, a group is there for an adjacency to its neighbour, and an
\* interface is in the group of one of its neighbours, or in none.
Wanted(s) ==
  s.dyn => /\ \A g \in Groups!Names : Groups!Exists(s, g) => \E i \in Groups!Intfs : g \in Nbrs(s, i)
           /\ \A i \in Groups!Intfs : s.intf_grp[i] # NoGroup => s.intf_grp[i] \in Nbrs(s, i)
\* Every link joins two routers.
TwoRouters == \A i \in Groups!Intfs : Groups!Cardinality(nbrs[i]) = 1
\* There it is in none only if it has no neighbour.
Placed(s) == s.dyn => \A i \in Groups!Intfs : Nbrs(s, i) # {} => s.intf_grp[i] \in Nbrs(s, i)

Calm(s) == Wanted(s) /\ (TwoRouters => LiveFirst(s, Groups!Intfs) /\ Placed(s))

GroupInv ==
  /\ nbrs \in Links /\ group_crashed \in {"no", "no group"}
  /\ Good(node)
  /\ ~disturbed => Calm(node)

LEMMA GroupsAre ==
  /\ NoGroup \notin Groups!Names /\ NoGroup \notin Groups!Intfs
  /\ NoGroup \notin Seq(Groups!Intfs) /\ NoGroup \notin Seq(Groups!Adjacencies)
  /\ Routers \subseteq Groups!Names /\ StaticNames \subseteq Groups!Names
  /\ <<>> # NoGroup
<1>1. <<>> \in Seq(Groups!Intfs)
  OBVIOUS
<1> QED
  BY <1>1, GroupsAssumption DEF Groups!GroupsAssumption, Groups!Names

\* What a list and the rest of a record are.
LEMMA NodeHas ==
  ASSUME NEW s \in Node
  PROVE  /\ s.dyn \in BOOLEAN
         /\ \A g \in Groups!Names : Groups!Exists(s, g) => s.groups[g] \in Seq(Groups!Intfs)
         /\ \A i \in Groups!Intfs : Groups!Enabled(s, i) => s.adjs[i] \in Seq(Groups!Adjacencies)
         /\ \A i \in Groups!Intfs : s.intf_grp[i] \in Groups!Names \union {NoGroup}
BY DEF Node, Groups!Exists, Groups!Enabled

LEMMA ElsAre ==
  ASSUME NEW s, NEW g \in Groups!Names, s \in Node, Groups!Exists(s, g)
  PROVE  Els(s.groups[g]) \subseteq Groups!Intfs /\ Groups!ToSet(s.groups[g]) = Els(s.groups[g])
<1>1. s.groups[g] \in Seq(Groups!Intfs)
  BY NodeHas
<1> QED
  BY <1>1 DEF Els, Groups!ToSet

LEMMA NbrsAre ==
  ASSUME NEW s \in Node, NEW i \in Groups!Intfs, Groups!Enabled(s, i)
  PROVE  Nbrs(s, i) = {a.nbr : a \in Groups!ToSet(s.adjs[i])}
<1>1. s.adjs[i] \in Seq(Groups!Adjacencies)
  BY NodeHas
<1> QED
  BY <1>1 DEF Nbrs, Groups!ToSet

\* remove_glthread takes an interface out of whatever list it is in.
Unlinks(t, s, i) ==
  /\ t \in Node /\ t.dyn = s.dyn /\ t.adjs = s.adjs /\ t.intf_grp = s.intf_grp
  /\ \A g \in Groups!Names :
       /\ Groups!Exists(t, g) <=> Groups!Exists(s, g)
       /\ Groups!Exists(s, g) =>
            /\ Els(t.groups[g]) = Els(s.groups[g]) \ {i}
            /\ \A m, n : Before(t.groups[g], m, n) => Before(s.groups[g], m, n)

LEMMA UnlinkedIs ==
  ASSUME NEW s \in Node, Once(s), NEW i \in Groups!Intfs
  PROVE  Unlinks(Groups!unlinked(s, i), s, i)
<1> DEFINE t == Groups!unlinked(s, i)
           l(g) == Groups!without(s.groups[g], i)
<1>1. /\ t.dyn = s.dyn /\ t.adjs = s.adjs /\ t.intf_grp = s.intf_grp
      /\ t.groups = [g \in Groups!Names |-> IF s.groups[g] = NoGroup THEN NoGroup ELSE l(g)]
      /\ t = [groups |-> t.groups, dyn |-> t.dyn, adjs |-> t.adjs, intf_grp |-> t.intf_grp]
  BY DEF Groups!unlinked, Node
<1>2. ASSUME NEW g \in Groups!Names, Groups!Exists(s, g)
      PROVE  /\ l(g) \in Seq(Groups!Intfs) /\ Els(l(g)) = Els(s.groups[g]) \ {i}
             /\ \A m, n : Before(l(g), m, n) => Before(s.groups[g], m, n)
  <2>1. s.groups[g] \in Seq(Groups!Intfs) /\ ~Before(s.groups[g], i, i)
    BY <1>2, NodeHas DEF Once
  <2> QED
    BY <2>1, WithoutIs
<1> HIDE DEF l
<1>3. \A g \in Groups!Names : Groups!Exists(s, g) => t.groups[g] = l(g) /\ l(g) # NoGroup
  <2> SUFFICES ASSUME NEW g \in Groups!Names, Groups!Exists(s, g) PROVE t.groups[g] = l(g) /\ l(g) # NoGroup
    OBVIOUS
  <2>1. l(g) \in Seq(Groups!Intfs)
    BY <1>2
  <2> QED
    BY <1>1, <2>1, GroupsAre DEF Groups!Exists
<1>4. \A g \in Groups!Names : ~Groups!Exists(s, g) => t.groups[g] = NoGroup
  BY <1>1 DEF Groups!Exists
<1>5. t.groups \in [Groups!Names -> Seq(Groups!Intfs) \union {NoGroup}]
  BY <1>1, <1>2 DEF Groups!Exists
<1>6. t \in Node
  BY <1>1, <1>5 DEF Node
<1> HIDE DEF t
<1>7. \A g \in Groups!Names : Groups!Exists(t, g) <=> Groups!Exists(s, g)
  BY <1>3, <1>4 DEF Groups!Exists
<1> QED
  BY <1>1, <1>2, <1>3, <1>6, <1>7 DEF Unlinks, t

\* What an operation leaves alone that moves an interface from list to list.
Same(t, s) ==
  /\ t.dyn = s.dyn /\ t.adjs = s.adjs
  /\ \A g \in Groups!Names : Groups!Exists(t, g) <=> Groups!Exists(s, g)

LEMMA SameLive ==
  ASSUME NEW s, NEW t, t.adjs = s.adjs
  PROVE  \A i : (Groups!Enabled(t, i) <=> Groups!Enabled(s, i)) /\ Nbrs(t, i) = Nbrs(s, i)
                 /\ (Groups!active(t, i) <=> Groups!active(s, i))
BY DEF Groups!Enabled, Groups!active, Nbrs

\* isis_intf_grp_refresh_member_interface: an interface that may be in a wrong list comes
\* into the list of its group, at its place.
LEMMA RefreshedIs ==
  ASSUME NEW i \in Groups!Intfs, NEW s, GoodBut(s, Groups!Intfs \ {i}),
         NEW g \in Groups!Names, s.intf_grp[i] = g, Groups!Exists(s, g)
  PROVE  LET t == Groups!refreshed(s, i) IN
         /\ Good(t) /\ Same(t, s) /\ t.intf_grp = s.intf_grp
         /\ LiveFirst(s, Groups!Intfs \ {i}) => LiveFirst(t, Groups!Intfs)
<1> DEFINE u == Groups!unlinked(s, i)
           t == Groups!refreshed(s, i)
           new == IF Groups!active(s, i) THEN <<i>> \o u.groups[g] ELSE Append(u.groups[g], i)
<1>1. s \in Node /\ Once(s) /\ Together(s, Groups!Intfs \ {i}) /\ RunsProtocol(s) /\ OnLink(s)
  BY DEF GoodBut
<1>2. Unlinks(u, s, i)
  BY <1>1, UnlinkedIs
<1>3. t = [u EXCEPT !.groups[g] = new]
  BY DEF Groups!refreshed
<1> HIDE DEF u, t
<1>4. u \in Node /\ Groups!Exists(u, g) /\ u.groups[g] \in Seq(Groups!Intfs)
  BY <1>2, NodeHas DEF Unlinks
<1>5. /\ new \in Seq(Groups!Intfs) /\ Els(new) = Els(u.groups[g]) \union {i}
      /\ \A m, n : Before(new, m, n) => \/ Before(u.groups[g], m, n)
                                        \/ Groups!active(s, i) /\ m = i /\ n \in Els(u.groups[g])
                                        \/ ~Groups!active(s, i) /\ n = i /\ m \in Els(u.groups[g])
  BY <1>4, FirstIs, LastIs
<1> HIDE DEF new
<1>6. new # NoGroup
  BY <1>5, GroupsAre
<1>7. /\ t \in Node /\ t.dyn = s.dyn /\ t.adjs = s.adjs /\ t.intf_grp = s.intf_grp
      /\ \A h \in Groups!Names : t.groups[h] = IF h = g THEN new ELSE u.groups[h]
  BY <1>2, <1>3, <1>4, <1>5 DEF Node, Unlinks
<1>8. \A h \in Groups!Names : Groups!Exists(t, h) <=> Groups!Exists(s, h)
  BY <1>2, <1>6, <1>7 DEF Unlinks, Groups!Exists
<1>9. ASSUME NEW h \in Groups!Names, Groups!Exists(s, h)
      PROVE  /\ Els(t.groups[h]) = (Els(s.groups[h]) \ {i}) \union (IF h = g THEN {i} ELSE {})
             /\ \A m, n : Before(t.groups[h], m, n) =>
                  \/ Before(s.groups[h], m, n) /\ m # i /\ n # i
                  \/ Groups!active(s, i) /\ m = i /\ n # i
                  \/ ~Groups!active(s, i) /\ n = i /\ m # i
  <2>1. /\ Els(u.groups[h]) = Els(s.groups[h]) \ {i}
        /\ \A m, n : Before(u.groups[h], m, n) => Before(s.groups[h], m, n) /\ m # i /\ n # i
    BY <1>2, <1>9, BeforeEls DEF Unlinks
  <2>2. CASE h = g
    BY <1>5, <1>7, <2>1, <2>2
  <2>3. CASE h # g
    BY <1>7, <2>1, <2>3
  <2> QED
    BY <2>2, <2>3
<1>10. Once(t)
  BY <1>1, <1>8, <1>9 DEF Once
<1>11. Together(t, Groups!Intfs)
  <2> SUFFICES ASSUME NEW h \in Groups!Names, NEW m \in Groups!Intfs PROVE InGroup(t, h, m) <=> t.intf_grp[m] = h
    BY DEF Together
  <2>1. CASE m = i
    BY <1>7, <1>8, <1>9, <2>1 DEF InGroup
  <2>2. CASE m # i
    <3>1. InGroup(s, h, m) <=> s.intf_grp[m] = h
      BY <1>1, <2>2 DEF Together
    <3>2. InGroup(t, h, m) <=> InGroup(s, h, m)
      BY <1>8, <1>9, <2>2 DEF InGroup
    <3> QED
      BY <1>7, <3>1, <3>2
  <2> QED
    BY <2>1, <2>2
<1>12. RunsProtocol(t) /\ OnLink(t)
  BY <1>1, <1>7 DEF RunsProtocol, OnLink, Groups!Enabled
<1>13. Good(t)
  BY <1>7, <1>10, <1>11, <1>12 DEF Good, GoodBut
<1>14. Same(t, s)
  BY <1>7, <1>8 DEF Same
<1>15. ASSUME LiveFirst(s, Groups!Intfs \ {i}) PROVE LiveFirst(t, Groups!Intfs)
  <2> SUFFICES ASSUME NEW h \in Groups!Names, Groups!Exists(t, h), NEW m \in Groups!Intfs, NEW n \in Groups!Intfs,
                      Before(t.groups[h], m, n), Groups!active(t, n)
               PROVE  Groups!active(t, m)
    BY DEF LiveFirst
  <2>1. Groups!Exists(s, h)
    BY <1>8
  <2>2. \A j : Groups!active(t, j) <=> Groups!active(s, j)
    BY <1>7, SameLive
  <2>3. \/ Before(s.groups[h], m, n) /\ m # i /\ n # i
        \/ Groups!active(s, i) /\ m = i
        \/ ~Groups!active(s, i) /\ n = i
    BY <1>9, <2>1
  <2> QED
    BY <1>15, <2>1, <2>2, <2>3 DEF LiveFirst
<1> QED
  BY <1>7, <1>13, <1>14, <1>15 DEF t

\* isis_intf_group_add_intf_membership
LEMMA JoinedIs ==
  ASSUME NEW i \in Groups!Intfs, NEW s, Good(s), Groups!Enabled(s, i), NEW g \in Groups!Names, Groups!Exists(s, g)
  PROVE  LET t == Groups!joined(s, g, i) IN
         /\ Good(t) /\ Same(t, s) /\ t.intf_grp = [s.intf_grp EXCEPT ![i] = g]
         /\ LiveFirst(s, Groups!Intfs) => LiveFirst(t, Groups!Intfs)
<1> DEFINE u == [s EXCEPT !.intf_grp[i] = g]
           t == Groups!joined(s, g, i)
<1>1. s \in Node /\ Once(s) /\ Together(s, Groups!Intfs) /\ RunsProtocol(s) /\ OnLink(s)
  BY DEF Good, GoodBut
<1>2. CASE s.intf_grp[i] = g
  <2>1. t = s
    BY <1>2 DEF Groups!joined
  <2>2. s.intf_grp = [s.intf_grp EXCEPT ![i] = g]
    BY <1>1, <1>2 DEF Node
  <2> QED
    BY <2>1, <2>2 DEF Same
<1>3. CASE s.intf_grp[i] # g
  <2>1. t = Groups!refreshed(u, i)
    BY <1>3 DEF Groups!joined
  <2>2. /\ u \in Node /\ u.groups = s.groups /\ u.dyn = s.dyn /\ u.adjs = s.adjs
        /\ u.intf_grp = [s.intf_grp EXCEPT ![i] = g] /\ u.intf_grp[i] = g
    BY <1>1 DEF Node
  <2> HIDE DEF u
  <2>3. \A h : (Groups!Exists(u, h) <=> Groups!Exists(s, h)) /\ (Groups!Enabled(u, h) <=> Groups!Enabled(s, h))
    BY <2>2 DEF Groups!Exists, Groups!Enabled
  <2>4. Once(u)
    BY <1>1, <2>2, <2>3 DEF Once
  <2>5. Together(u, Groups!Intfs \ {i})
    <3> SUFFICES ASSUME NEW h \in Groups!Names, NEW m \in Groups!Intfs \ {i}
                 PROVE  InGroup(u, h, m) <=> u.intf_grp[m] = h
      BY DEF Together
    <3>1. InGroup(s, h, m) <=> s.intf_grp[m] = h
      BY <1>1 DEF Together
    <3>2. u.intf_grp[m] = s.intf_grp[m]
      BY <1>1, <2>2 DEF Node
    <3> QED
      BY <2>2, <2>3, <3>1, <3>2 DEF InGroup
  <2>6. RunsProtocol(u)
    BY <1>1, <2>2, <2>3 DEF RunsProtocol, Node
  <2>7. OnLink(u)
    BY <1>1, <2>2, <2>3 DEF OnLink
  <2>8. GoodBut(u, Groups!Intfs \ {i})
    BY <2>2, <2>4, <2>5, <2>6, <2>7 DEF GoodBut
  <2>9. LiveFirst(s, Groups!Intfs) => LiveFirst(u, Groups!Intfs \ {i})
    <3>1. \A j : Groups!active(u, j) <=> Groups!active(s, j)
      BY <2>2, SameLive
    <3> QED
      BY <2>2, <2>3, <3>1 DEF LiveFirst
  <2> HIDE DEF t
  <2>10. /\ Good(t) /\ Same(t, u) /\ t.intf_grp = u.intf_grp
         /\ LiveFirst(u, Groups!Intfs \ {i}) => LiveFirst(t, Groups!Intfs)
    <3>1. u.intf_grp[i] = g /\ Groups!Exists(u, g)
      BY <2>2, <2>3
    <3> QED
      BY ONLY <2>1, <2>8, <3>1, RefreshedIs, i \in Groups!Intfs, g \in Groups!Names
  <2>11. Same(t, s)
    BY <2>2, <2>3, <2>10 DEF Same
  <2> QED
    BY <2>2, <2>9, <2>10, <2>11 DEF t
<1> QED
  BY <1>2, <1>3

\* isis_intf_group_remove_intf_membership
LEMMA LeftIs ==
  ASSUME NEW i \in Groups!Intfs, NEW s, Good(s), NEW g \in Groups!Names
  PROVE  LET t == Groups!left(s, g, i) IN
         /\ Good(t) /\ Same(t, s)
         /\ t.intf_grp = [j \in Groups!Intfs |-> IF j = i /\ s.intf_grp[j] = g THEN NoGroup ELSE s.intf_grp[j]]
         /\ LiveFirst(s, Groups!Intfs) => LiveFirst(t, Groups!Intfs)
<1> DEFINE u == Groups!unlinked(s, i)
           t == Groups!left(s, g, i)
<1>1. s \in Node /\ Once(s) /\ Together(s, Groups!Intfs) /\ RunsProtocol(s) /\ OnLink(s)
  BY DEF Good, GoodBut
<1>2. CASE s.intf_grp[i] # g
  <2>1. t = s
    BY <1>2 DEF Groups!left
  <2>2. s.intf_grp = [j \in Groups!Intfs |-> IF j = i /\ s.intf_grp[j] = g THEN NoGroup ELSE s.intf_grp[j]]
    BY <1>1, <1>2 DEF Node
  <2> QED
    BY <2>1, <2>2 DEF Same
<1>3. CASE s.intf_grp[i] = g
  <2>1. Unlinks(u, s, i)
    BY <1>1, UnlinkedIs
  <2>2. t = [u EXCEPT !.intf_grp[i] = NoGroup]
    BY <1>3 DEF Groups!left
  <2> HIDE DEF u, t
  <2>3. /\ t \in Node /\ t.groups = u.groups /\ t.dyn = s.dyn /\ t.adjs = s.adjs
        /\ t.intf_grp = [s.intf_grp EXCEPT ![i] = NoGroup]
    BY <2>1, <2>2 DEF Node, Unlinks
  <2>4. /\ \A h \in Groups!Names : Groups!Exists(t, h) <=> Groups!Exists(s, h)
        /\ \A h \in Groups!Names : Groups!Exists(s, h) =>
              /\ Els(t.groups[h]) = Els(s.groups[h]) \ {i}
              /\ \A m, n : Before(t.groups[h], m, n) => Before(s.groups[h], m, n)
    BY <2>1, <2>3 DEF Unlinks, Groups!Exists
  <2>5. Once(t)
    BY <1>1, <2>4 DEF Once
  <2>6. Together(t, Groups!Intfs)
    <3> SUFFICES ASSUME NEW h \in Groups!Names, NEW m \in Groups!Intfs
                 PROVE  InGroup(t, h, m) <=> t.intf_grp[m] = h
      BY DEF Together
    <3>1. CASE m = i
      <4>1. t.intf_grp[m] # h
        BY <1>1, <2>3, <3>1, GroupsAre DEF Node
      <4> QED
        BY <2>4, <3>1, <4>1 DEF InGroup
    <3>2. CASE m # i
      <4>1. InGroup(s, h, m) <=> s.intf_grp[m] = h
        BY <1>1 DEF Together
      <4>2. t.intf_grp[m] = s.intf_grp[m]
        BY <1>1, <2>3, <3>2 DEF Node
      <4> QED
        BY <2>4, <3>2, <4>1, <4>2 DEF InGroup
    <3> QED
      BY <3>1, <3>2
  <2>7. RunsProtocol(t) /\ OnLink(t)
    BY <1>1, <2>3 DEF RunsProtocol, OnLink, Groups!Enabled, Node
  <2>8. LiveFirst(s, Groups!Intfs) => LiveFirst(t, Groups!Intfs)
    <3>1. \A j : Groups!active(t, j) <=> Groups!active(s, j)
      BY <2>3, SameLive
    <3> QED
      BY <2>4, <3>1 DEF LiveFirst
  <2>9. Good(t) /\ Same(t, s)
    BY <2>3, <2>4, <2>5, <2>6, <2>7 DEF Good, GoodBut, Same
  <2>10. t.intf_grp = [j \in Groups!Intfs |-> IF j = i /\ s.intf_grp[j] = g THEN NoGroup ELSE s.intf_grp[j]]
    BY <1>1, <1>3, <2>3 DEF Node
  <2> QED
    BY <2>8, <2>9, <2>10 DEF t
<1> QED
  BY <1>2, <1>3

\* Groups without members come and go.
LEMMA EmptyKeeps ==
  ASSUME NEW s, Good(s), NEW t \in Node, t.adjs = s.adjs, t.intf_grp = s.intf_grp,
         \A g \in Groups!Names :
            t.groups[g] = s.groups[g] \/ {t.groups[g], s.groups[g]} \subseteq {NoGroup, <<>>}
  PROVE  Good(t) /\ (LiveFirst(s, Groups!Intfs) => LiveFirst(t, Groups!Intfs))
<1>1. s \in Node /\ Once(s) /\ Together(s, Groups!Intfs) /\ RunsProtocol(s) /\ OnLink(s)
  BY DEF Good, GoodBut
<1>2. \A m, n : ~Before(<<>>, m, n) /\ m \notin Els(<<>>)
  BY DEF Before, Els
<1>3. \A g \in Groups!Names, m \in Groups!Intfs : InGroup(t, g, m) <=> InGroup(s, g, m)
  BY <1>2 DEF InGroup, Groups!Exists
<1>4. \A g \in Groups!Names : Groups!Exists(t, g) =>
        \A m, n : Before(t.groups[g], m, n) => Groups!Exists(s, g) /\ Before(s.groups[g], m, n)
  BY <1>2 DEF Groups!Exists
<1>5. Once(t)
  BY <1>1, <1>4 DEF Once
<1>6. Together(t, Groups!Intfs)
  BY <1>1, <1>3 DEF Together
<1>7. RunsProtocol(t) /\ OnLink(t)
  BY <1>1 DEF RunsProtocol, OnLink, Groups!Enabled
<1>8. LiveFirst(s, Groups!Intfs) => LiveFirst(t, Groups!Intfs)
  <2>1. \A j : Groups!active(t, j) <=> Groups!active(s, j)
    BY SameLive
  <2> QED
    BY <1>4, <2>1 DEF LiveFirst
<1> QED
  BY <1>5, <1>6, <1>7, <1>8 DEF Good, GoodBut

\* Adjacencies come, change and go: what the lists say of the living is kept if no member
\* becomes active or ceases to be.
LEMMA AdjsKeep ==
  ASSUME NEW s, Good(s), NEW t \in Node, t.groups = s.groups, t.intf_grp = s.intf_grp, OnLink(t),
         \A i \in Groups!Intfs : Groups!Enabled(s, i) => Groups!Enabled(t, i)
  PROVE  /\ Good(t)
         /\ \A I \in SUBSET Groups!Intfs :
              /\ LiveFirst(s, I)
              /\ \A i \in I : s.intf_grp[i] # NoGroup => (Groups!active(t, i) <=> Groups!active(s, i))
              => LiveFirst(t, I)
<1>1. s \in Node /\ Once(s) /\ Together(s, Groups!Intfs) /\ RunsProtocol(s) /\ OnLink(s)
  BY DEF Good, GoodBut
<1>2. \A g : Groups!Exists(t, g) <=> Groups!Exists(s, g)
  BY DEF Groups!Exists
<1>3. Once(t) /\ Together(t, Groups!Intfs)
  BY <1>1, <1>2 DEF Once, Together, InGroup
<1>4. RunsProtocol(t)
  BY <1>1 DEF RunsProtocol
<1>5. ASSUME NEW I \in SUBSET Groups!Intfs, LiveFirst(s, I),
             \A i \in I : s.intf_grp[i] # NoGroup => (Groups!active(t, i) <=> Groups!active(s, i))
      PROVE  LiveFirst(t, I)
  <2> SUFFICES ASSUME NEW g \in Groups!Names, Groups!Exists(t, g), NEW m \in I, NEW n \in I,
                      Before(t.groups[g], m, n), Groups!active(t, n)
               PROVE  Groups!active(t, m)
    BY DEF LiveFirst
  <2>1. s.intf_grp[m] = g /\ s.intf_grp[n] = g /\ g # NoGroup
    <3>1. InGroup(s, g, m) /\ InGroup(s, g, n)
      BY <1>2, BeforeEls DEF InGroup
    <3> QED
      BY <1>1, <3>1, GroupsAre DEF Together
  <2> QED
    BY <1>2, <1>5, <2>1 DEF LiveFirst
<1> QED
  BY <1>3, <1>4, <1>5 DEF Good, GoodBut

\* What Wanted and Placed say depends on little.
LEMMA WantedKeeps ==
  ASSUME NEW s, NEW t, t.dyn = s.dyn, t.intf_grp = s.intf_grp,
         \A g \in Groups!Names : Groups!Exists(t, g) => Groups!Exists(s, g),
         \A i \in Groups!Intfs : Nbrs(t, i) = Nbrs(s, i)
  PROVE  (Wanted(s) => Wanted(t)) /\ (Placed(s) => Placed(t))
BY DEF Wanted, Placed

\* On a link of two routers there is one adjacency at most.
LEMMA AtMostOne ==
  ASSUME NEW s, Good(s), nbrs \in Links, TwoRouters, NEW i \in Groups!Intfs, Groups!Enabled(s, i)
  PROVE  /\ s.adjs[i] \in Seq(Groups!Adjacencies) /\ (Len(s.adjs[i]) = 0 \/ Len(s.adjs[i]) = 1)
         /\ \E n \in Routers : nbrs[i] = {n} /\ \A k \in 1..Len(s.adjs[i]) : s.adjs[i][k].nbr = n
<1>1. s.adjs[i] \in Seq(Groups!Adjacencies)
  BY NodeHas DEF Good, GoodBut
<1>2. IsFiniteSet(nbrs[i]) /\ nbrs[i] \subseteq Routers
  <2>1. nbrs[i] \in SUBSET Routers
    BY GroupsAssumption DEF Groups!GroupsAssumption
  <2>2. IsFiniteSet(Routers)
    BY GroupsAssumption DEF Groups!GroupsAssumption, Groups!IsFiniteSet, IsFiniteSet
  <2> QED
    BY ONLY <2>1, <2>2, FS_Subset
<1>3. Cardinality(nbrs[i]) = 1
  BY DEF TwoRouters, Groups!Cardinality, Cardinality
<1>4. PICK n : nbrs[i] = {n}
  BY <1>2, <1>3, FS_Singleton
<1>5. OnLink(s)
  BY DEF Good, GoodBut
<1>6. \A j, k \in 1..Len(s.adjs[i]) : s.adjs[i][j].nbr = n /\ j = k
  BY <1>4, <1>5 DEF OnLink
<1>7. Len(s.adjs[i]) = 0 \/ Len(s.adjs[i]) = 1
  <2>1. PICK len \in Nat : Len(s.adjs[i]) = len
    BY <1>1
  <2>2. ~(1 \in 1..len /\ 2 \in 1..len)
    BY <1>6, <2>1
  <2> QED
    BY ONLY <2>1, <2>2
<1> QED
  BY <1>1, <1>2, <1>4, <1>6, <1>7

\* The step of a handler that leaves a good record behind.
LEMMA BecomesKeeps ==
  ASSUME GroupInv, NEW s, Good(s), Groups!Becomes(s), ~disturbed' => Calm(s)
  PROVE  GroupInv'
<1>1. node' = s /\ nbrs' = nbrs /\ group_crashed' = group_crashed
  BY DEF Groups!Becomes
<1>2. Good(node)'
  BY <1>1 DEF Good, GoodBut, Once, Together, RunsProtocol, OnLink, InGroup
<1>3. Calm(s) => Calm(node)'
  BY <1>1 DEF Calm, Wanted, Placed, LiveFirst, TwoRouters
<1> QED
  BY <1>1, <1>2, <1>3 DEF GroupInv

\* One that does not: nothing but the reason changes.
LEMMA StopKeeps ==
  ASSUME GroupInv, nbrs' = nbrs, node' = node, disturbed => disturbed', group_crashed' \in {"no", "no group"}
  PROVE  GroupInv'
<1>1. Good(node)'
  BY DEF GroupInv, Good, GoodBut, Once, Together, RunsProtocol, OnLink, InGroup
<1>2. Wanted(node)' = Wanted(node) /\ Placed(node)' = Placed(node)
  BY DEF Wanted, Placed
<1>3. LiveFirst(node, Groups!Intfs)' = LiveFirst(node, Groups!Intfs) /\ TwoRouters' = TwoRouters
  BY DEF LiveFirst, TwoRouters
<1>4. ~disturbed' => Calm(node)'
  BY <1>2, <1>3 DEF GroupInv, Calm
<1> QED
  BY <1>1, <1>4 DEF GroupInv

LEMMA FreshIs == Good(Groups!Fresh) /\ Calm(Groups!Fresh)
<1> DEFINE s == Groups!Fresh
<1>1. /\ s \in Node
      /\ \A g \in Groups!Names : ~Groups!Exists(s, g)
      /\ \A i \in Groups!Intfs : ~Groups!Enabled(s, i) /\ s.intf_grp[i] = NoGroup
  BY DEF Groups!Fresh, Node, Groups!Exists, Groups!Enabled
<1> HIDE DEF s
<1>2. Once(s) /\ Together(s, Groups!Intfs) /\ RunsProtocol(s) /\ OnLink(s)
  BY <1>1, GroupsAre DEF Once, Together, InGroup, RunsProtocol, OnLink
<1>3. Wanted(s) /\ Placed(s) /\ LiveFirst(s, Groups!Intfs)
  BY <1>1 DEF Wanted, Placed, Nbrs, LiveFirst
<1> QED
  BY <1>1, <1>2, <1>3 DEF Good, GoodBut, Calm, s

\* One adjacency of an interface becomes another, of the same neighbour.
LEMMA WithIs ==
  ASSUME Good(node), NEW i \in Groups!Intfs, Groups!Enabled(node, i),
         NEW a \in Groups!ToSet(node.adjs[i]), NEW b \in Groups!Adjacencies, b.nbr = a.nbr
  PROVE  LET s == [node EXCEPT !.adjs = Groups!With(i, a, b)] IN
         /\ Good(s) /\ s.dyn = node.dyn /\ s.groups = node.groups /\ s.intf_grp = node.intf_grp
         /\ \A j \in Groups!Intfs : Nbrs(s, j) = Nbrs(node, j)
         /\ \A j \in Groups!Intfs \ {i} : Groups!active(s, j) <=> Groups!active(node, j)
         /\ (b.state = "UP" <=> a.state = "UP") => (Groups!active(s, i) <=> Groups!active(node, i))
<1> DEFINE s == [node EXCEPT !.adjs = Groups!With(i, a, b)]
           old == node.adjs[i]
           new == [k \in DOMAIN old |-> IF old[k] = a THEN b ELSE old[k]]
<1>1. node \in Node /\ OnLink(node) /\ old \in Seq(Groups!Adjacencies)
  BY NodeHas DEF Good, GoodBut
<1>2. /\ s.dyn = node.dyn /\ s.groups = node.groups /\ s.intf_grp = node.intf_grp
      /\ s.adjs = [node.adjs EXCEPT ![i] = new]
  BY <1>1 DEF Groups!With, Node
<1>3. PICK n \in Nat : Len(old) = n /\ DOMAIN old = 1..n
  BY <1>1
<1>4. new \in Seq(Groups!Adjacencies) /\ Len(new) = n /\ \A k \in 1..n : new[k] = IF old[k] = a THEN b ELSE old[k]
  <2>1. \A k \in 1..n : old[k] \in Groups!Adjacencies
    BY <1>1, <1>3
  <2>2. new = [k \in 1..n |-> IF old[k] = a THEN b ELSE old[k]]
    BY <1>3
  <2> HIDE DEF new, old
  <2>3. new \in [1..n -> Groups!Adjacencies]
    BY <2>1, <2>2
  <2> QED
    BY <2>2, <2>3, LenProperties, SeqDef
<1> HIDE DEF new
<1>5. new # NoGroup
  BY <1>4, GroupsAre
<1>6. s \in Node /\ s.adjs[i] = new /\ \A j \in Groups!Intfs \ {i} : s.adjs[j] = node.adjs[j]
  BY <1>1, <1>2, <1>4 DEF Node
<1> HIDE DEF s
<1>7. \A j \in Groups!Intfs : Groups!Enabled(s, j) <=> Groups!Enabled(node, j)
  BY <1>5, <1>6 DEF Groups!Enabled
<1>8. \A k \in 1..n : new[k].nbr = old[k].nbr
  BY <1>4
<1>9. Nbrs(s, i) = Nbrs(node, i)
  <2>1. Nbrs(s, i) = {new[k].nbr : k \in 1..n}
    BY <1>4, <1>6, <1>7 DEF Nbrs
  <2>2. Nbrs(node, i) = {old[k].nbr : k \in 1..n}
    BY <1>3 DEF Nbrs
  <2> HIDE DEF old
  <2> QED
    BY ONLY <1>8, <2>1, <2>2
<1>10. ASSUME NEW j \in Groups!Intfs PROVE Nbrs(s, j) = Nbrs(node, j)
  <2>1. CASE j = i
    BY <1>9, <2>1
  <2>2. CASE j # i
    <3>1. s.adjs[j] = node.adjs[j] /\ (Groups!Enabled(s, j) <=> Groups!Enabled(node, j))
      BY <1>6, <1>7, <2>2
    <3> QED
      BY <3>1, Zenon DEF Nbrs
  <2> QED
    BY <2>1, <2>2
<1>11. OnLink(s)
  <2>1. \A j, k \in 1..Len(s.adjs[i]) :
          s.adjs[i][j].nbr \in nbrs[i] /\ (s.adjs[i][j].nbr = s.adjs[i][k].nbr => j = k)
    <3>1. \A j, k \in 1..n : old[j].nbr \in nbrs[i] /\ (old[j].nbr = old[k].nbr => j = k)
      BY <1>1, <1>3 DEF OnLink
    <3> HIDE DEF old
    <3> QED
      BY <1>4, <1>6, <1>8, <3>1
  <2> QED
    BY <1>1, <1>6, <1>7, <2>1 DEF OnLink
<1>12. Good(s)
  BY <1>2, <1>6, <1>7, <1>11, AdjsKeep
<1>13. \A j \in Groups!Intfs \ {i} : Groups!active(s, j) <=> Groups!active(node, j)
  BY <1>6 DEF Groups!active
<1>14. ASSUME b.state = "UP" <=> a.state = "UP" PROVE Groups!active(s, i) <=> Groups!active(node, i)
  <2>1. (old = <<>> <=> n = 0) /\ (new = <<>> <=> n = 0)
    BY <1>1, <1>3, <1>4
  <2>2. n # 0 => Head(old) = old[1] /\ Head(new) = new[1] /\ 1 \in 1..n
    BY <1>1, <1>3, <1>4
  <2>3. n # 0 => (Head(new).state = "UP" <=> Head(old).state = "UP")
    BY <1>4, <1>14, <2>2
  <2> QED
    BY <1>6, <2>1, <2>3 DEF Groups!active
<1> QED
  BY <1>2, <1>10, <1>12, <1>13, <1>14 DEF s

\* The same for a calm record, if that does not change who is active.
LEMMA SameState ==
  ASSUME GroupInv, NEW i \in Groups!Intfs, Groups!Enabled(node, i), NEW a \in Groups!ToSet(node.adjs[i]),
         NEW b \in Groups!Adjacencies, b.nbr = a.nbr, b.state = "UP" <=> a.state = "UP"
  PROVE  LET s == [node EXCEPT !.adjs = Groups!With(i, a, b)] IN Good(s) /\ (~disturbed => Calm(s))
<1> DEFINE s == [node EXCEPT !.adjs = Groups!With(i, a, b)]
<1>1. Good(node) /\ (~disturbed => Calm(node))
  BY DEF GroupInv
<1>2. /\ Good(s) /\ s.dyn = node.dyn /\ s.groups = node.groups /\ s.intf_grp = node.intf_grp
      /\ \A j \in Groups!Intfs : Nbrs(s, j) = Nbrs(node, j)
      /\ \A j \in Groups!Intfs : Groups!active(s, j) <=> Groups!active(node, j)
  BY <1>1, WithIs
<1> HIDE DEF s
<1>3. \A g : Groups!Exists(s, g) <=> Groups!Exists(node, g)
  BY <1>2 DEF Groups!Exists
<1>4. LiveFirst(node, Groups!Intfs) => LiveFirst(s, Groups!Intfs)
  BY <1>2, <1>3 DEF LiveFirst
<1>5. Calm(node) => Calm(s)
  BY <1>2, <1>3, <1>4, WantedKeeps DEF Calm
<1> QED
  BY <1>1, <1>2, <1>5 DEF s

\* isis_change_adjacency_state where it moves the interface to its place.
LEMMA Moves ==
  ASSUME GroupInv, NEW i \in Groups!Intfs, Groups!Enabled(node, i), NEW a \in Groups!ToSet(node.adjs[i]),
         NEW b \in Groups!Adjacencies, b.nbr = a.nbr
  PROVE  LET s == [node EXCEPT !.adjs = Groups!With(i, a, b)]
             t == IF s.intf_grp[i] # NoGroup THEN Groups!refreshed(s, i) ELSE s
         IN Good(t) /\ (~disturbed => Calm(t))
<1> DEFINE s == [node EXCEPT !.adjs = Groups!With(i, a, b)]
           t == IF s.intf_grp[i] # NoGroup THEN Groups!refreshed(s, i) ELSE s
<1>1. Good(node) /\ (~disturbed => Calm(node))
  BY DEF GroupInv
<1>2. /\ Good(s) /\ s.dyn = node.dyn /\ s.groups = node.groups /\ s.intf_grp = node.intf_grp
      /\ \A j \in Groups!Intfs : Nbrs(s, j) = Nbrs(node, j)
      /\ \A j \in Groups!Intfs \ {i} : Groups!active(s, j) <=> Groups!active(node, j)
  BY <1>1, WithIs
<1> HIDE DEF s
<1>3. \A g : Groups!Exists(s, g) <=> Groups!Exists(node, g)
  BY <1>2 DEF Groups!Exists
<1>4. Calm(node) => Wanted(s) /\ (TwoRouters => Placed(s))
  BY <1>2, <1>3, WantedKeeps DEF Calm
<1>5. Calm(node) /\ TwoRouters => LiveFirst(s, Groups!Intfs \ {i})
  BY <1>2, <1>3 DEF LiveFirst, Calm
<1>6. ASSUME s.intf_grp[i] = NoGroup PROVE Good(t) /\ (~disturbed => Calm(t))
  <2>1. ASSUME LiveFirst(s, Groups!Intfs \ {i}) PROVE LiveFirst(s, Groups!Intfs)
    <3>1. \A g \in Groups!Names : Groups!Exists(s, g) => i \notin Els(s.groups[g])
      BY <1>2, <1>6, GroupsAre DEF Good, GoodBut, Together, InGroup
    <3> QED
      BY <2>1, <3>1, BeforeEls DEF LiveFirst
  <2>2. t = s
    BY <1>6
  <2> HIDE DEF t
  <2> QED
    BY <1>1, <1>2, <1>4, <1>5, <2>1, <2>2 DEF Calm
<1>7. ASSUME s.intf_grp[i] # NoGroup PROVE Good(t) /\ (~disturbed => Calm(t))
  <2>1. PICK g \in Groups!Names : s.intf_grp[i] = g /\ Groups!Exists(s, g)
    <3>1. s.intf_grp[i] \in Groups!Names
      BY <1>2, <1>7, NodeHas DEF Good, GoodBut
    <3> QED
      BY <1>2, <3>1 DEF Good, GoodBut, Together, InGroup
  <2>2. t = Groups!refreshed(s, i)
    BY <1>7
  <2>3. GoodBut(s, Groups!Intfs \ {i})
    BY <1>2 DEF Good, GoodBut, Together
  <2> HIDE DEF t
  <2>4. /\ Good(t) /\ Same(t, s) /\ t.intf_grp = s.intf_grp
        /\ LiveFirst(s, Groups!Intfs \ {i}) => LiveFirst(t, Groups!Intfs)
    BY ONLY <2>1, <2>2, <2>3, RefreshedIs, i \in Groups!Intfs
  <2>5. \A j \in Groups!Intfs : Nbrs(t, j) = Nbrs(s, j)
    BY <2>4, SameLive DEF Same
  <2>6. (Wanted(s) => Wanted(t)) /\ (Placed(s) => Placed(t))
    BY <2>4, <2>5, WantedKeeps DEF Same
  <2> QED
    BY <1>1, <1>4, <1>5, <2>4, <2>6 DEF Calm
<1> QED
  BY <1>6, <1>7 DEF s

\* The adjacencies of an interface are what they should be.
LEMMA AdjacencyIs ==
  ASSUME Good(node), NEW i \in Groups!Intfs, Groups!Enabled(node, i), NEW a \in Groups!ToSet(node.adjs[i])
  PROVE  /\ a \in Groups!Adjacencies
         /\ \A v \in {"DOWN", "INIT", "UP"} :
              /\ [a EXCEPT !.state = v] \in Groups!Adjacencies
              /\ [a EXCEPT !.state = v].nbr = a.nbr /\ [a EXCEPT !.state = v].state = v
         /\ [a EXCEPT !.late = TRUE] \in Groups!Adjacencies
         /\ [a EXCEPT !.late = TRUE].nbr = a.nbr /\ [a EXCEPT !.late = TRUE].state = a.state
<1>1. node.adjs[i] \in Seq(Groups!Adjacencies)
  BY NodeHas DEF Good, GoodBut
<1>2. a \in Groups!Adjacencies
  BY <1>1 DEF Groups!ToSet
<1> QED
  BY <1>2 DEF Groups!Adjacencies

LEMMA StateKeeps ==
  ASSUME GroupInv, NEW i \in Groups!Intfs, Groups!Enabled(node, i), NEW a \in Groups!ToSet(node.adjs[i]),
         Groups!HelloKnown(i, a) \/ Groups!GoesDown(i, a) \/ Groups!DeleteTimer(i, a)
  PROVE  GroupInv'
<1> DEFINE S(b) == [node EXCEPT !.adjs = Groups!With(i, a, b)]
<1>1. Good(node) /\ UNCHANGED disturbed
  BY DEF GroupInv, Groups!HelloKnown, Groups!GoesDown, Groups!DeleteTimer
<1>2. /\ a \in Groups!Adjacencies
      /\ \A v \in {"DOWN", "INIT", "UP"} :
           /\ [a EXCEPT !.state = v] \in Groups!Adjacencies
           /\ [a EXCEPT !.state = v].nbr = a.nbr /\ [a EXCEPT !.state = v].state = v
      /\ [a EXCEPT !.late = TRUE] \in Groups!Adjacencies
      /\ [a EXCEPT !.late = TRUE].nbr = a.nbr /\ [a EXCEPT !.late = TRUE].state = a.state
  BY <1>1, AdjacencyIs
<1>3. a.state \in {"DOWN", "INIT", "UP"}
  BY <1>2 DEF Groups!Adjacencies
<1>4. ASSUME NEW v \in {"DOWN", "INIT", "UP"},
             (v = "INIT" /\ a.state = "DOWN") \/ (v = "UP" /\ a.state # "DOWN") \/ (v = "DOWN" /\ a.state # "DOWN")
      PROVE  Good(Groups!Changed(i, a, v)) /\ (~disturbed => Calm(Groups!Changed(i, a, v)))
  <2> DEFINE b == [a EXCEPT !.state = v]
             s == S(b)
  <2>1. b \in Groups!Adjacencies /\ b.nbr = a.nbr /\ b.state = v
    BY <1>2
  <2>2. CASE (v = "UP" /\ a.state = "INIT") \/ (v = "DOWN" /\ a.state # "DOWN")
    <3>1. Groups!Changed(i, a, v) = IF s.intf_grp[i] # NoGroup THEN Groups!refreshed(s, i) ELSE s
      BY <2>2 DEF Groups!Changed
    <3> HIDE DEF b
    <3> QED
      BY <2>1, <3>1, Moves
  <2>3. CASE ~((v = "UP" /\ a.state = "INIT") \/ (v = "DOWN" /\ a.state # "DOWN"))
    <3>1. Groups!Changed(i, a, v) = s
      BY <2>3 DEF Groups!Changed
    <3>2. b.state = "UP" <=> a.state = "UP"
      BY <1>3, <1>4, <2>1, <2>3
    <3> HIDE DEF b
    <3> QED
      BY <2>1, <3>1, <3>2, SameState
  <2> QED
    BY <2>2, <2>3
<1>5. CASE Groups!HelloKnown(i, a)
  <2>1. Groups!Becomes(Groups!Changed(i, a, IF a.state = "DOWN" THEN "INIT" ELSE "UP"))
    BY <1>5 DEF Groups!HelloKnown
  <2>2. CASE a.state = "DOWN"
    BY <1>1, <1>4, <2>1, <2>2, BecomesKeeps
  <2>3. CASE a.state # "DOWN"
    BY <1>1, <1>4, <2>1, <2>3, BecomesKeeps
  <2> QED
    BY <2>2, <2>3
<1>6. CASE Groups!GoesDown(i, a)
  BY <1>1, <1>4, <1>6, BecomesKeeps DEF Groups!GoesDown
<1>7. CASE Groups!DeleteTimer(i, a)
  <2> DEFINE b == [a EXCEPT !.late = TRUE]
  <2>1. b \in Groups!Adjacencies /\ b.nbr = a.nbr /\ b.state = a.state
    BY <1>2
  <2>2. Groups!Becomes(S(b))
    BY <1>7 DEF Groups!DeleteTimer
  <2> HIDE DEF b
  <2>3. Good(S(b)) /\ (~disturbed => Calm(S(b)))
    BY <2>1, SameState
  <2> QED
    BY <1>1, <2>2, <2>3, BecomesKeeps
<1> QED
  BY <1>5, <1>6, <1>7

-----------------------------------------------------------------------------
(* Interface groups: adjacencies that come and go. *)

\* The adjacencies of a list are to different neighbours, of L.
ToEach(l, L) == (\A a \in Els(l) : a.nbr \in L) /\ (\A m, n : Before(l, m, n) => m.nbr # n.nbr)

LEMMA OnLinkBy ==
  ASSUME NEW l, Len(l) \in Nat, NEW L
  PROVE  (\A j, k \in 1..Len(l) : l[j].nbr \in L /\ (l[j].nbr = l[k].nbr => j = k))
         <=> ToEach(l, L)
<1>1. ASSUME \A j, k \in 1..Len(l) : l[j].nbr \in L /\ (l[j].nbr = l[k].nbr => j = k)
      PROVE  (\A a \in Els(l) : a.nbr \in L) /\ (\A m, n : Before(l, m, n) => m.nbr # n.nbr)
  <2>1. \A a \in Els(l) : a.nbr \in L
    BY <1>1 DEF Els
  <2>2. ASSUME NEW m, NEW n, Before(l, m, n) PROVE m.nbr # n.nbr
    <3>1. PICK j, k \in 1..Len(l) : j < k /\ l[j] = m /\ l[k] = n
      BY <2>2 DEF Before
    <3> QED
      BY <1>1, <3>1
  <2> QED
    BY <2>1, <2>2
<1>2. ASSUME \A a \in Els(l) : a.nbr \in L, \A m, n : Before(l, m, n) => m.nbr # n.nbr,
             NEW j \in 1..Len(l), NEW k \in 1..Len(l), l[j].nbr = l[k].nbr
      PROVE  j = k
  <2>1. ~(j < k) /\ ~(k < j)
    BY <1>2 DEF Before
  <2> QED
    BY <2>1
<1>3. ASSUME \A a \in Els(l) : a.nbr \in L, NEW j \in 1..Len(l) PROVE l[j].nbr \in L
  BY <1>3 DEF Els
<1> QED
  BY <1>1, <1>2, <1>3 DEF ToEach

\* Another list of adjacencies on an interface.
AdjsChanged(t, s, i, new) ==
  /\ Good(t) /\ Groups!Enabled(t, i)
  /\ t.dyn = s.dyn /\ t.groups = s.groups /\ t.intf_grp = s.intf_grp
  /\ Nbrs(t, i) = {a.nbr : a \in Els(new)}
  /\ \A j \in Groups!Intfs \ {i} : Nbrs(t, j) = Nbrs(s, j)
  /\ Groups!active(t, i) <=> new # <<>> /\ Head(new).state = "UP"
  /\ LiveFirst(s, Groups!Intfs) => LiveFirst(t, Groups!Intfs \ {i})
  /\ /\ LiveFirst(s, Groups!Intfs)
     /\ s.intf_grp[i] # NoGroup => (Groups!active(t, i) <=> Groups!active(s, i))
     => LiveFirst(t, Groups!Intfs)

LEMMA AdjsSet ==
  ASSUME NEW s, Good(s), NEW i \in Groups!Intfs, NEW new \in Seq(Groups!Adjacencies),
         ToEach(new, nbrs[i]), NEW t, t = [s EXCEPT !.adjs[i] = new]
  PROVE  AdjsChanged(t, s, i, new)
<1>1. s \in Node /\ OnLink(s) /\ new # NoGroup /\ Len(new) \in Nat
  BY GroupsAre DEF Good, GoodBut
<1>2. /\ t \in Node /\ t.dyn = s.dyn /\ t.groups = s.groups /\ t.intf_grp = s.intf_grp
      /\ t.adjs[i] = new /\ \A j \in Groups!Intfs \ {i} : t.adjs[j] = s.adjs[j]
  BY <1>1 DEF Node
<1>3. /\ Groups!Enabled(t, i)
      /\ \A j \in Groups!Intfs \ {i} : /\ Groups!Enabled(t, j) <=> Groups!Enabled(s, j)
                                       /\ Groups!active(t, j) <=> Groups!active(s, j)
  BY <1>1, <1>2 DEF Groups!Enabled, Groups!active
<1>4. OnLink(t)
  <2>1. \A j, k \in 1..Len(new) : new[j].nbr \in nbrs[i] /\ (new[j].nbr = new[k].nbr => j = k)
    BY <1>1, OnLinkBy
  <2> QED
    BY <1>1, <1>2, <1>3, <2>1 DEF OnLink
<1>5. \A j \in Groups!Intfs : Groups!Enabled(s, j) => Groups!Enabled(t, j)
  BY <1>3
<1>6. /\ Good(t)
      /\ \A I \in SUBSET Groups!Intfs :
           /\ LiveFirst(s, I)
           /\ \A j \in I : s.intf_grp[j] # NoGroup => (Groups!active(t, j) <=> Groups!active(s, j))
           => LiveFirst(t, I)
  BY <1>2, <1>4, <1>5, AdjsKeep
<1>7. LiveFirst(s, Groups!Intfs) => LiveFirst(s, Groups!Intfs \ {i})
  BY DEF LiveFirst
<1>8. LiveFirst(s, Groups!Intfs) => LiveFirst(t, Groups!Intfs \ {i})
  BY <1>3, <1>6, <1>7
<1>9. LiveFirst(s, Groups!Intfs) /\ (s.intf_grp[i] # NoGroup => (Groups!active(t, i) <=> Groups!active(s, i)))
        => LiveFirst(t, Groups!Intfs)
  BY <1>3, <1>6
<1>10. Nbrs(t, i) = {a.nbr : a \in Els(new)}
  <2>1. Nbrs(t, i) = {new[k].nbr : k \in 1..Len(new)}
    BY <1>2, <1>3 DEF Nbrs
  <2> QED
    BY <2>1 DEF Els
<1>11. ASSUME NEW j \in Groups!Intfs \ {i} PROVE Nbrs(t, j) = Nbrs(s, j)
  <2>1. t.adjs[j] = s.adjs[j] /\ (Groups!Enabled(t, j) <=> Groups!Enabled(s, j))
    BY <1>2, <1>3
  <2> QED
    BY <2>1, Zenon DEF Nbrs
<1>12. Groups!active(t, i) <=> new # <<>> /\ Head(new).state = "UP"
  BY <1>2 DEF Groups!active
<1> QED
  BY <1>2, <1>3, <1>6, <1>8, <1>9, <1>10, <1>11, <1>12 DEF AdjsChanged

\* isis_dynamic_intf_grp_update_on_adjacency_create
LEMMA CreatedIs ==
  ASSUME NEW s, Good(s), NEW i \in Groups!Intfs, Groups!Enabled(s, i), NEW n \in Groups!Names, s.dyn
  PROVE  LET t == Groups!created(s, i, n) IN
         /\ Good(t) /\ t.dyn = s.dyn /\ t.adjs = s.adjs /\ t.intf_grp = [s.intf_grp EXCEPT ![i] = n]
         /\ \A g \in Groups!Names : Groups!Exists(t, g) <=> Groups!Exists(s, g) \/ g = n
         /\ LiveFirst(s, Groups!Intfs) => LiveFirst(t, Groups!Intfs)
<1> DEFINE u == [s EXCEPT !.groups[n] = IF @ = NoGroup THEN <<>> ELSE @]
           t == Groups!created(s, i, n)
<1>1. s \in Node
  BY DEF Good, GoodBut
<1>2. t = Groups!joined(u, n, i)
  BY DEF Groups!created
<1>3. <<>> \in Seq(Groups!Intfs)
  OBVIOUS
<1>4. /\ u \in Node /\ u.dyn = s.dyn /\ u.adjs = s.adjs /\ u.intf_grp = s.intf_grp
      /\ u.groups = [s.groups EXCEPT ![n] = IF @ = NoGroup THEN <<>> ELSE @]
  BY <1>1, <1>3 DEF Node
<1> HIDE DEF u
<1>5. \A g \in Groups!Names : u.groups[g] = IF g = n /\ s.groups[g] = NoGroup THEN <<>> ELSE s.groups[g]
  BY <1>1, <1>4 DEF Node
<1>6. Good(u) /\ (LiveFirst(s, Groups!Intfs) => LiveFirst(u, Groups!Intfs))
  <2>1. \A g \in Groups!Names : u.groups[g] = s.groups[g] \/ {u.groups[g], s.groups[g]} \subseteq {NoGroup, <<>>}
    BY <1>5
  <2> QED
    BY <1>4, <2>1, EmptyKeeps
<1>7. Groups!Enabled(u, i) /\ \A g \in Groups!Names : Groups!Exists(u, g) <=> Groups!Exists(s, g) \/ g = n
  BY <1>4, <1>5, GroupsAre DEF Groups!Enabled, Groups!Exists
<1> HIDE DEF t
<1>8. /\ Good(t) /\ Same(t, u) /\ t.intf_grp = [u.intf_grp EXCEPT ![i] = n]
      /\ LiveFirst(u, Groups!Intfs) => LiveFirst(t, Groups!Intfs)
  BY <1>2, <1>6, <1>7, JoinedIs
<1> QED
  BY <1>4, <1>6, <1>7, <1>8 DEF Same, t

LEMMA HelloNewKeeps ==
  ASSUME GroupInv, NEW i \in Groups!Intfs, NEW n \in Routers, Groups!HelloNew(i, n)
  PROVE  GroupInv'
<1> DEFINE b == [nbr |-> n, state |-> "DOWN", late |-> FALSE]
           old == node.adjs[i]
           s == [node EXCEPT !.adjs[i] = <<b>> \o @]
           t == Groups!created(s, i, n)
<1>1. Good(node) /\ nbrs \in Links /\ (~disturbed => Calm(node)) /\ node \in Node /\ OnLink(node)
  BY DEF GroupInv, Good, GoodBut
<1>2. /\ Groups!Enabled(node, i) /\ n \in nbrs[i] /\ UNCHANGED disturbed
      /\ \A a \in Groups!ToSet(old) : a.nbr # n
      /\ Groups!Becomes(t)
  BY DEF Groups!HelloNew
<1>3. old \in Seq(Groups!Adjacencies) /\ Groups!ToSet(old) = Els(old) /\ Len(old) \in Nat
  BY <1>1, <1>2, NodeHas DEF Els, Groups!ToSet
<1>4. b \in Groups!Adjacencies /\ b.nbr = n /\ b.state = "DOWN"
  BY DEF Groups!Adjacencies
<1> HIDE DEF b
<1> DEFINE new == <<b>> \o old
<1>5. s = [node EXCEPT !.adjs[i] = new]
  OBVIOUS
<1>6. /\ new \in Seq(Groups!Adjacencies) /\ Els(new) = Els(old) \union {b}
      /\ \A m, k : Before(new, m, k) => Before(old, m, k) \/ (m = b /\ k \in Els(old))
      /\ new # <<>> /\ Head(new) = b
  BY <1>3, <1>4, FirstIs
<1> HIDE DEF new
<1>7. ToEach(old, nbrs[i])
  <2>1. \A j, k \in 1..Len(old) : old[j].nbr \in nbrs[i] /\ (old[j].nbr = old[k].nbr => j = k)
    BY <1>1, <1>2 DEF OnLink
  <2> HIDE DEF old
  <2> QED
    BY <1>3, <2>1, OnLinkBy
<1> HIDE DEF s
<1>8. /\ Good(s) /\ Groups!Enabled(s, i)
      /\ s.dyn = node.dyn /\ s.groups = node.groups /\ s.intf_grp = node.intf_grp
      /\ Nbrs(s, i) = {a.nbr : a \in Els(new)}
      /\ \A j \in Groups!Intfs \ {i} : Nbrs(s, j) = Nbrs(node, j)
      /\ Groups!active(s, i) <=> new # <<>> /\ Head(new).state = "UP"
      /\ /\ LiveFirst(node, Groups!Intfs)
         /\ node.intf_grp[i] # NoGroup => (Groups!active(s, i) <=> Groups!active(node, i))
         => LiveFirst(s, Groups!Intfs)
  <2>1. ToEach(new, nbrs[i])
    BY <1>2, <1>3, <1>4, <1>6, <1>7 DEF ToEach
  <2>2. AdjsChanged(s, node, i, new)
    BY ONLY <1>1, <1>5, <1>6, <2>1, AdjsSet, i \in Groups!Intfs
  <2> QED
    BY <2>2 DEF AdjsChanged
<1>9. Nbrs(node, i) = {a.nbr : a \in Els(old)} /\ Nbrs(s, i) = Nbrs(node, i) \union {n}
  <2>1. Nbrs(node, i) = {a.nbr : a \in Els(old)}
    BY <1>1, <1>2, <1>3, NbrsAre
  <2> QED
    BY <1>4, <1>6, <1>8, <2>1
<1>10. \A j \in Groups!Intfs : Nbrs(node, j) \subseteq Nbrs(s, j)
  BY <1>8, <1>9
<1>11. ASSUME TwoRouters, LiveFirst(node, Groups!Intfs) PROVE LiveFirst(s, Groups!Intfs)
  <2>1. Len(old) = 0
    <3>1. PICK m : nbrs[i] = {m} /\ \A k \in 1..Len(old) : old[k].nbr = m
      BY <1>1, <1>2, <1>11, AtMostOne
    <3>2. \A k \in 1..Len(old) : old[k] \in Els(old)
      BY DEF Els
    <3>3. PICK len \in Nat : Len(old) = len
      BY <1>3
    <3>4. 1 \notin 1..len
      BY <1>2, <1>3, <3>1, <3>2, <3>3
    <3> QED
      BY ONLY <3>3, <3>4
  <2>2. ~Groups!active(node, i)
    BY <1>3, <2>1 DEF Groups!active
  <2>3. ~Groups!active(s, i)
    BY <1>4, <1>6, <1>8
  <2> QED
    BY <1>8, <1>11, <2>2, <2>3
<1>12. n \in Groups!Names
  BY GroupsAre
<1>13. ASSUME ~s.dyn PROVE Good(t) /\ (~disturbed => Calm(t))
  <2>1. t = s
    BY <1>13 DEF Groups!created
  <2> HIDE DEF t
  <2> QED
    BY <1>1, <1>8, <1>11, <1>13, <2>1 DEF Calm, Wanted, Placed
<1>14. ASSUME s.dyn PROVE Good(t) /\ (~disturbed => Calm(t))
  <2>1. /\ Good(t) /\ t.dyn = s.dyn /\ t.adjs = s.adjs /\ t.intf_grp = [s.intf_grp EXCEPT ![i] = n]
        /\ \A g \in Groups!Names : Groups!Exists(t, g) <=> Groups!Exists(s, g) \/ g = n
        /\ LiveFirst(s, Groups!Intfs) => LiveFirst(t, Groups!Intfs)
    BY <1>8, <1>12, <1>14, CreatedIs
  <2> HIDE DEF t
  <2>2. \A j : Nbrs(t, j) = Nbrs(s, j)
    BY <2>1, SameLive
  <2>3. n \in Nbrs(t, i)
    BY <1>9, <2>2
  <2>4. \A j \in Groups!Intfs : t.intf_grp[j] = IF j = i THEN n ELSE node.intf_grp[j]
    BY <1>1, <1>8, <2>1 DEF Node
  <2>5. \A g \in Groups!Names : Groups!Exists(t, g) => Groups!Exists(node, g) \/ g = n
    BY <1>8, <2>1 DEF Groups!Exists
  <2>6. Wanted(node) => Wanted(t)
    BY <1>8, <1>10, <1>14, <2>2, <2>3, <2>4, <2>5 DEF Wanted
  <2>7. Placed(node) => Placed(t)
    BY <1>8, <1>14, <2>2, <2>3, <2>4 DEF Placed
  <2> QED
    BY <1>1, <1>11, <2>1, <2>6, <2>7 DEF Calm
<1> QED
  BY <1>1, <1>2, <1>13, <1>14, BecomesKeeps

\* An interface leaves its group if that is one of G, and of G the groups without members
\* are freed.
FreedOf(t, G) ==
  [t EXCEPT !.groups = [g \in Groups!Names |-> IF g \in G /\ @[g] = <<>> THEN NoGroup ELSE @[g]]]
LeavesTo(v, s, i, G) ==
  /\ Good(v) /\ v.dyn = s.dyn /\ v.adjs = s.adjs
  /\ v.intf_grp = [j \in Groups!Intfs |-> IF j = i /\ s.intf_grp[j] \in G THEN NoGroup ELSE s.intf_grp[j]]
  /\ \A g \in Groups!Names : Groups!Exists(v, g) => Groups!Exists(s, g)
  /\ \A g \in G : Groups!Exists(v, g) => \E m \in Groups!Intfs : v.intf_grp[m] = g
  /\ LiveFirst(s, Groups!Intfs) => LiveFirst(v, Groups!Intfs)

LEMMA LeavesIs ==
  ASSUME NEW s, Good(s), NEW i \in Groups!Intfs, NEW G \in SUBSET Groups!Names,
         NEW u, u = IF s.intf_grp[i] \in G THEN Groups!left(s, s.intf_grp[i], i) ELSE s,
         NEW v, v = FreedOf(u, G)
  PROVE  LeavesTo(v, s, i, G)
<1>1. s \in Node
  BY DEF Good, GoodBut
<1>2. /\ Good(u) /\ Same(u, s)
      /\ u.intf_grp = [j \in Groups!Intfs |-> IF j = i /\ s.intf_grp[j] \in G THEN NoGroup ELSE s.intf_grp[j]]
      /\ LiveFirst(s, Groups!Intfs) => LiveFirst(u, Groups!Intfs)
  <2>1. CASE s.intf_grp[i] \in G
    <3> DEFINE g == s.intf_grp[i]
    <3>1. g \in Groups!Names /\ u = Groups!left(s, g, i)
      BY <2>1
    <3>2. /\ Good(u) /\ Same(u, s)
          /\ u.intf_grp = [j \in Groups!Intfs |-> IF j = i /\ s.intf_grp[j] = g THEN NoGroup ELSE s.intf_grp[j]]
          /\ LiveFirst(s, Groups!Intfs) => LiveFirst(u, Groups!Intfs)
      <4> HIDE DEF g
      <4> QED
        BY <3>1, LeftIs
    <3> QED
      BY <2>1, <3>2
  <2>2. CASE s.intf_grp[i] \notin G
    <3>1. s.intf_grp = [j \in Groups!Intfs |-> IF j = i /\ s.intf_grp[j] \in G THEN NoGroup ELSE s.intf_grp[j]]
      BY <1>1, <2>2 DEF Node
    <3> QED
      BY <2>2, <3>1 DEF Same
  <2> QED
    BY <2>1, <2>2
<1>3. u \in Node /\ Together(u, Groups!Intfs)
  BY <1>2 DEF Good, GoodBut
<1>4. /\ v \in Node /\ v.dyn = u.dyn /\ v.adjs = u.adjs /\ v.intf_grp = u.intf_grp
      /\ \A g \in Groups!Names : v.groups[g] = IF g \in G /\ u.groups[g] = <<>> THEN NoGroup ELSE u.groups[g]
  BY <1>3 DEF FreedOf, Node
<1>5. Good(v) /\ (LiveFirst(u, Groups!Intfs) => LiveFirst(v, Groups!Intfs))
  <2>1. \A g \in Groups!Names : v.groups[g] = u.groups[g] \/ {v.groups[g], u.groups[g]} \subseteq {NoGroup, <<>>}
    BY <1>4
  <2> QED
    BY <1>2, <1>4, <2>1, EmptyKeeps
<1>6. \A g \in Groups!Names : Groups!Exists(v, g) => Groups!Exists(s, g)
  BY <1>2, <1>4 DEF Same, Groups!Exists
<1>7. ASSUME NEW g \in G, Groups!Exists(v, g) PROVE \E m \in Groups!Intfs : v.intf_grp[m] = g
  <2>1. Groups!Exists(u, g) /\ u.groups[g] # <<>>
    BY <1>4, <1>7 DEF Groups!Exists
  <2>2. u.groups[g] \in Seq(Groups!Intfs)
    BY <1>3, <2>1, NodeHas
  <2>3. u.groups[g][1] \in Groups!Intfs /\ u.groups[g][1] \in Els(u.groups[g])
    <3>1. 1 \in 1..Len(u.groups[g])
      BY <2>1, <2>2
    <3> QED
      BY <2>2, <3>1 DEF Els
  <2> QED
    BY <1>3, <1>4, <2>1, <2>3 DEF Together, InGroup
<1> QED
  BY <1>2, <1>4, <1>5, <1>6, <1>7 DEF LeavesTo, Same

\* If the interface had adjacencies to all of G before, and has none any more, then no
\* group is left that nobody wants.
LEMMA LeavesWanted ==
  ASSUME NEW r, NEW s, NEW i \in Groups!Intfs, NEW G \in SUBSET Groups!Names, NEW v,
         s \in Node, LeavesTo(v, s, i, G), r.dyn = s.dyn, r.intf_grp = s.intf_grp,
         \A g \in Groups!Names : Groups!Exists(s, g) => Groups!Exists(r, g),
         NEW w, w.dyn = v.dyn, \A g \in Groups!Names : Groups!Exists(w, g) => Groups!Exists(v, g),
         \A j \in Groups!Intfs : w.intf_grp[j] = v.intf_grp[j],
         \A j \in Groups!Intfs : Nbrs(w, j) = IF j = i THEN Nbrs(r, i) \ G ELSE Nbrs(r, j),
         Wanted(r)
  PROVE  Wanted(w)
<1> SUFFICES ASSUME w.dyn
             PROVE  /\ \A g \in Groups!Names : Groups!Exists(w, g) => \E j \in Groups!Intfs : g \in Nbrs(w, j)
                    /\ \A j \in Groups!Intfs : w.intf_grp[j] # NoGroup => w.intf_grp[j] \in Nbrs(w, j)
  BY DEF Wanted
<1>1. /\ \A g \in Groups!Names : Groups!Exists(r, g) => \E j \in Groups!Intfs : g \in Nbrs(r, j)
      /\ \A j \in Groups!Intfs : r.intf_grp[j] # NoGroup => r.intf_grp[j] \in Nbrs(r, j)
  BY DEF Wanted, LeavesTo
<1>2. \A j \in Groups!Intfs : w.intf_grp[j] = IF j = i /\ r.intf_grp[j] \in G THEN NoGroup ELSE r.intf_grp[j]
  BY DEF LeavesTo
<1>3. \A j \in Groups!Intfs : w.intf_grp[j] # NoGroup => w.intf_grp[j] \in Nbrs(w, j)
  BY <1>1, <1>2
<1>4. ASSUME NEW g \in Groups!Names, Groups!Exists(w, g) PROVE \E j \in Groups!Intfs : g \in Nbrs(w, j)
  <2>1. CASE g \in G
    <3>1. PICK m \in Groups!Intfs : w.intf_grp[m] = g
      BY <1>4, <2>1 DEF LeavesTo
    <3> QED
      BY <1>3, <3>1, GroupsAre
  <2>2. CASE g \notin G
    <3>1. Groups!Exists(r, g)
      BY <1>4 DEF LeavesTo
    <3>2. PICK j \in Groups!Intfs : g \in Nbrs(r, j)
      BY <1>1, <3>1
    <3> QED
      BY <2>2, <3>2
  <2> QED
    BY <2>1, <2>2
<1> QED
  BY <1>3, <1>4

\* isis_dynamic_intf_grp_update_on_adjacency_delete
LEMMA DeletedIs ==
  ASSUME NEW s, Good(s), NEW i \in Groups!Intfs, NEW n \in Groups!Names, s.dyn
  PROVE  LeavesTo(Groups!deleted(s, i, n), s, i, {n})
<1> DEFINE t == Groups!left(s, n, i)
           u == IF s.intf_grp[i] \in {n} THEN Groups!left(s, s.intf_grp[i], i) ELSE s
           v == FreedOf(u, {n})
<1>1. t = u
  BY DEF Groups!left
<1>2. s \in Node /\ t \in Node
  BY LeftIs DEF Good, GoodBut
<1>3. Groups!deleted(s, i, n) = IF t.groups[n] = <<>> THEN [t EXCEPT !.groups[n] = NoGroup] ELSE t
  BY DEF Groups!deleted
<1> HIDE DEF t, u
<1>4. (IF t.groups[n] = <<>> THEN [t EXCEPT !.groups[n] = NoGroup] ELSE t) = FreedOf(t, {n})
  <2>1. t.groups \in [Groups!Names -> Seq(Groups!Intfs) \union {NoGroup}]
    BY <1>2 DEF Node
  <2> DEFINE new == [g \in Groups!Names |-> IF g \in {n} /\ t.groups[g] = <<>> THEN NoGroup ELSE t.groups[g]]
  <2>2. FreedOf(t, {n}) = [t EXCEPT !.groups = new]
    BY DEF FreedOf
  <2>3. CASE t.groups[n] = <<>>
    <3>1. new = [t.groups EXCEPT ![n] = NoGroup]
      BY <2>1, <2>3
    <3> HIDE DEF new
    <3> QED
      BY <2>2, <2>3, <3>1
  <2>4. CASE t.groups[n] # <<>>
    <3>1. new = t.groups
      BY <2>1, <2>4
    <3> HIDE DEF new
    <3>2. [t EXCEPT !.groups = new] = t
      BY <1>2, <3>1 DEF Node
    <3> QED
      BY <2>2, <2>4, <3>2
  <2> QED
    BY <2>3, <2>4
<1>5. LeavesTo(v, s, i, {n})
  BY LeavesIs DEF u
<1> QED
  BY <1>1, <1>3, <1>4, <1>5

LEMMA DeleteJobKeeps ==
  ASSUME GroupInv, NEW i \in Groups!Intfs, Groups!Enabled(node, i), NEW a \in Groups!ToSet(node.adjs[i]),
         Groups!DeleteJob(i, a)
  PROVE  GroupInv'
<1> DEFINE old == node.adjs[i]
           new == Groups!without(old, a)
           s == [node EXCEPT !.adjs[i] = new]
           t == Groups!deleted(s, i, a.nbr)
<1>1. Good(node) /\ nbrs \in Links /\ (~disturbed => Calm(node)) /\ node \in Node /\ OnLink(node)
  BY DEF GroupInv, Good, GoodBut
<1>2. CASE Groups!Misses(node, a.nbr)
  BY <1>2, StopKeeps DEF Groups!DeleteJob
<1>3. CASE ~Groups!Misses(node, a.nbr)
  <2>1. /\ disturbed' = (disturbed \/ a.state # "DOWN")
        /\ Groups!Becomes(t)
    BY <1>3 DEF Groups!DeleteJob, Groups!AdjacencyDeleted
  <2>2. /\ old \in Seq(Groups!Adjacencies) /\ Groups!ToSet(old) = Els(old) /\ Len(old) \in Nat
        /\ a \in Groups!Adjacencies /\ a.nbr \in Groups!Names /\ a \in Els(old)
    <3>1. old \in Seq(Groups!Adjacencies) /\ a \in Groups!Adjacencies
      BY <1>1, NodeHas, AdjacencyIs
    <3> QED
      BY <3>1, GroupsAre DEF Els, Groups!ToSet, Groups!Adjacencies
  <2>3. ToEach(old, nbrs[i])
    <3>1. \A j, k \in 1..Len(old) : old[j].nbr \in nbrs[i] /\ (old[j].nbr = old[k].nbr => j = k)
      BY <1>1 DEF OnLink
    <3> HIDE DEF old
    <3> QED
      BY <2>2, <3>1, OnLinkBy
  <2>4. \A c \in Els(old) : c.nbr = a.nbr => c = a
    <3> SUFFICES ASSUME NEW c \in Els(old), c.nbr = a.nbr, c # a PROVE FALSE
      OBVIOUS
    <3>1. PICK j, k \in 1..Len(old) : old[j] = c /\ old[k] = a
      BY <2>2 DEF Els
    <3>2. Before(old, c, a) \/ Before(old, a, c)
      <4>1. j < k \/ k < j
        BY <2>2, <3>1
      <4> QED
        BY <3>1, <4>1 DEF Before
    <3> QED
      BY <2>3, <3>2 DEF ToEach
  <2>5. /\ new \in Seq(Groups!Adjacencies) /\ Els(new) = Els(old) \ {a}
        /\ \A m, n : Before(new, m, n) => Before(old, m, n)
    <3>1. ~Before(old, a, a)
      BY <2>3 DEF ToEach
    <3> HIDE DEF old
    <3> QED
      BY <2>2, <3>1, WithoutIs
  <2>6. AdjsChanged(s, node, i, new)
    <3>1. ToEach(new, nbrs[i])
      BY <2>3, <2>5 DEF ToEach
    <3> HIDE DEF new
    <3> QED
      BY <1>1, <2>5, <3>1, AdjsSet
  <2> HIDE DEF s, new, t
  <2>7. /\ Good(s) /\ s.dyn = node.dyn /\ s.groups = node.groups /\ s.intf_grp = node.intf_grp
        /\ \A g : Groups!Exists(s, g) <=> Groups!Exists(node, g)
        /\ \A j \in Groups!Intfs \ {i} : Nbrs(s, j) = Nbrs(node, j)
    BY <2>6 DEF AdjsChanged, Groups!Exists
  <2>8. Nbrs(s, i) = Nbrs(node, i) \ {a.nbr} /\ a.nbr \in Nbrs(node, i)
    <3>1. Nbrs(s, i) = {c.nbr : c \in Els(new)}
      BY <2>6 DEF AdjsChanged
    <3>2. Nbrs(node, i) = {c.nbr : c \in Els(old)}
      BY <1>1, <2>2, NbrsAre
    <3> QED
      BY <2>2, <2>4, <2>5, <3>1, <3>2
  <2>9. ASSUME TwoRouters, LiveFirst(node, Groups!Intfs), a.state = "DOWN"
        PROVE  LiveFirst(s, Groups!Intfs) /\ Nbrs(s, i) = {}
    <3>1. PICK m \in Routers : nbrs[i] = {m} /\ \A k \in 1..Len(old) : old[k].nbr = m
      BY <1>1, <2>9, AtMostOne
    <3>2. \A c \in Els(old) : c.nbr = m
      BY <3>1 DEF Els
    <3>3. Els(old) = {a} /\ Els(new) = {}
      BY <2>2, <2>4, <2>5, <3>2
    <3>4. ~Groups!active(node, i)
      <4>1. old # <<>> => Head(old) \in Els(old)
        <5>1. old # <<>> => 1 \in 1..Len(old) /\ Head(old) = old[1]
          BY <2>2
        <5> QED
          BY <5>1 DEF Els
      <4> QED
        BY <2>9, <3>3, <4>1 DEF Groups!active
    <3>5. ~Groups!active(s, i)
      <4>1. new = <<>>
        <5>1. new # <<>> => 1 \in 1..Len(new)
          BY <2>5
        <5> QED
          BY <3>3, <5>1 DEF Els
      <4> QED
        BY <2>6, <4>1 DEF AdjsChanged
    <3>6. Nbrs(s, i) = {c.nbr : c \in Els(new)}
      BY <2>6 DEF AdjsChanged
    <3> QED
      BY <2>6, <2>9, <3>3, <3>4, <3>5, <3>6 DEF AdjsChanged
  <2>10. ASSUME ~s.dyn PROVE Good(t) /\ (~disturbed' => Calm(t))
    <3>1. t = s
      BY <2>10 DEF Groups!deleted, t
    <3> QED
      BY <1>1, <2>1, <2>7, <2>9, <2>10, <3>1 DEF Calm, Wanted, Placed
  <2>11. ASSUME s.dyn PROVE Good(t) /\ (~disturbed' => Calm(t))
    <3>1. LeavesTo(t, s, i, {a.nbr})
      BY <2>2, <2>7, <2>11, DeletedIs DEF t
    <3>2. \A j : Nbrs(t, j) = Nbrs(s, j)
      BY <3>1, SameLive DEF LeavesTo
    <3>3. \A j \in Groups!Intfs : Nbrs(t, j) = IF j = i THEN Nbrs(node, i) \ {a.nbr} ELSE Nbrs(node, j)
      BY <2>7, <2>8, <3>2
    <3>4. Wanted(node) => Wanted(t)
      <4>1. s \in Node /\ {a.nbr} \in SUBSET Groups!Names
        BY <2>2, <2>7 DEF Good, GoodBut
      <4> QED
        BY <2>7, <3>1, <3>3, <4>1, LeavesWanted
    <3>5. ASSUME Nbrs(s, i) = {}, Placed(node) PROVE Placed(t)
      <4>1. \A j \in Groups!Intfs : j # i => t.intf_grp[j] = node.intf_grp[j]
        BY <2>7, <3>1 DEF LeavesTo
      <4> QED
        BY <2>7, <2>11, <3>2, <3>5, <4>1 DEF Placed
    <3> QED
      BY <1>1, <2>1, <2>9, <3>1, <3>4, <3>5 DEF Calm, LeavesTo
  <2> QED
    BY <2>1, <2>10, <2>11, BecomesKeeps
<1> QED
  BY <1>2, <1>3

-----------------------------------------------------------------------------
(* Interface groups: commands. *)

LEMMA EnableKeeps ==
  ASSUME GroupInv, NEW i \in Groups!Intfs, Groups!Enable(i)
  PROVE  GroupInv'
<1> DEFINE s == [node EXCEPT !.adjs[i] = <<>>]
<1>1. Good(node) /\ (~disturbed => Calm(node)) /\ node \in Node /\ RunsProtocol(node)
  BY DEF GroupInv, Good, GoodBut
<1>2. ~Groups!Enabled(node, i) /\ Groups!Becomes(s) /\ UNCHANGED disturbed
  BY DEF Groups!Enable
<1>3. <<>> \in Seq(Groups!Adjacencies) /\ ToEach(<<>>, nbrs[i])
  BY DEF ToEach, Els, Before
<1>4. AdjsChanged(s, node, i, <<>>)
  BY <1>1, <1>3, AdjsSet
<1> HIDE DEF s
<1>5. node.intf_grp[i] = NoGroup
  BY <1>1, <1>2 DEF RunsProtocol
<1>6. \A j \in Groups!Intfs : Nbrs(s, j) = Nbrs(node, j)
  <2>1. Nbrs(node, i) = {}
    BY <1>2 DEF Nbrs
  <2>2. Nbrs(s, i) = {a.nbr : a \in Els(<<>>)}
    BY <1>4 DEF AdjsChanged
  <2>3. Els(<<>>) = {}
    BY DEF Els
  <2> QED
    BY <1>4, <2>1, <2>2, <2>3 DEF AdjsChanged
<1>7. Calm(node) => Calm(s)
  <2>1. \A g \in Groups!Names : Groups!Exists(s, g) => Groups!Exists(node, g)
    BY <1>4 DEF AdjsChanged, Groups!Exists
  <2>2. s.dyn = node.dyn /\ s.intf_grp = node.intf_grp
    BY <1>4 DEF AdjsChanged
  <2>3. (Wanted(node) => Wanted(s)) /\ (Placed(node) => Placed(s))
    BY <1>6, <2>1, <2>2, WantedKeeps
  <2>4. LiveFirst(node, Groups!Intfs) => LiveFirst(s, Groups!Intfs)
    BY <1>4, <1>5 DEF AdjsChanged
  <2> QED
    BY <2>3, <2>4 DEF Calm
<1>8. Good(s)
  BY <1>4 DEF AdjsChanged
<1> QED
  BY <1>1, <1>2, <1>7, <1>8, BecomesKeeps

\* The end of isis_disable_protocol_on_interface: the interface is out of every list.
Off(y, v, i) ==
  /\ Good(y) /\ y.dyn = v.dyn
  /\ \A g \in Groups!Names : Groups!Exists(y, g) => Groups!Exists(v, g)
  /\ \A j \in Groups!Intfs : y.intf_grp[j] = IF j = i THEN NoGroup ELSE v.intf_grp[j]
  /\ \A j \in Groups!Intfs : Nbrs(y, j) = IF j = i THEN {} ELSE Nbrs(v, j)
  /\ LiveFirst(v, Groups!Intfs) => LiveFirst(y, Groups!Intfs)

LEMMA OffIs ==
  ASSUME NEW v, Good(v), NEW i \in Groups!Intfs,
         NEW w, w = [v EXCEPT !.adjs[i] = <<>>],
         NEW y, y = [Groups!unlinked(w, i) EXCEPT !.intf_grp[i] = NoGroup, !.adjs[i] = NoGroup]
  PROVE  Off(y, v, i)
<1> DEFINE x == Groups!unlinked(w, i)
<1>1. v \in Node /\ Once(v) /\ Together(v, Groups!Intfs) /\ RunsProtocol(v) /\ OnLink(v)
  BY DEF Good, GoodBut
<1>2. /\ w \in Node /\ w.dyn = v.dyn /\ w.groups = v.groups /\ w.intf_grp = v.intf_grp
      /\ w.adjs = [v.adjs EXCEPT ![i] = <<>>]
  <2>1. <<>> \in Seq(Groups!Adjacencies)
    OBVIOUS
  <2> QED
    BY <1>1, <2>1 DEF Node
<1>3. Once(w)
  BY <1>1, <1>2 DEF Once, Groups!Exists
<1>4. Unlinks(x, w, i)
  BY <1>2, <1>3, UnlinkedIs
<1> HIDE DEF x
<1>5. /\ y \in Node /\ y.dyn = v.dyn /\ y.groups = x.groups
      /\ y.intf_grp = [v.intf_grp EXCEPT ![i] = NoGroup]
      /\ y.adjs = [v.adjs EXCEPT ![i] = NoGroup]
  BY <1>1, <1>2, <1>4 DEF Unlinks, Node, x
<1>6. \A g \in Groups!Names :
        /\ Groups!Exists(y, g) <=> Groups!Exists(v, g)
        /\ Groups!Exists(v, g) =>
             /\ Els(y.groups[g]) = Els(v.groups[g]) \ {i}
             /\ \A m, n : Before(y.groups[g], m, n) => Before(v.groups[g], m, n)
  BY <1>2, <1>4, <1>5 DEF Unlinks, Groups!Exists
<1>7. /\ \A j \in Groups!Intfs : y.intf_grp[j] = IF j = i THEN NoGroup ELSE v.intf_grp[j]
      /\ \A j \in Groups!Intfs : y.adjs[j] = IF j = i THEN NoGroup ELSE v.adjs[j]
  <2>1. /\ v.intf_grp \in [Groups!Intfs -> Groups!Names \union {NoGroup}]
        /\ v.adjs \in [Groups!Intfs -> Seq(Groups!Adjacencies) \union {NoGroup}]
    BY <1>1 DEF Node
  <2>2. \A j \in Groups!Intfs : y.intf_grp[j] = IF j = i THEN NoGroup ELSE v.intf_grp[j]
    BY ONLY <1>5, <2>1
  <2>3. \A j \in Groups!Intfs : y.adjs[j] = IF j = i THEN NoGroup ELSE v.adjs[j]
    BY ONLY <1>5, <2>1
  <2> QED
    BY <2>2, <2>3
<1>8. Once(y)
  BY <1>1, <1>6 DEF Once
<1>9. Together(y, Groups!Intfs)
  <2> SUFFICES ASSUME NEW g \in Groups!Names, NEW m \in Groups!Intfs PROVE InGroup(y, g, m) <=> y.intf_grp[m] = g
    BY DEF Together
  <2>1. InGroup(v, g, m) <=> v.intf_grp[m] = g
    BY <1>1 DEF Together
  <2>2. InGroup(y, g, m) <=> InGroup(v, g, m) /\ m # i
    BY <1>6 DEF InGroup
  <2> QED
    BY <1>7, <2>1, <2>2, GroupsAre
<1>10. RunsProtocol(y) /\ OnLink(y)
  BY <1>1, <1>7 DEF RunsProtocol, OnLink, Groups!Enabled
<1>11. \A j \in Groups!Intfs : Nbrs(y, j) = IF j = i THEN {} ELSE Nbrs(v, j)
  <2> SUFFICES ASSUME NEW j \in Groups!Intfs PROVE Nbrs(y, j) = IF j = i THEN {} ELSE Nbrs(v, j)
    OBVIOUS
  <2>1. CASE j = i
    BY <1>7, <2>1 DEF Nbrs, Groups!Enabled
  <2>2. CASE j # i
    <3>1. y.adjs[j] = v.adjs[j]
      BY <1>7, <2>2
    <3> QED
      BY <2>2, <3>1, Zenon DEF Nbrs, Groups!Enabled
  <2> QED
    BY <2>1, <2>2
<1>12. ASSUME LiveFirst(v, Groups!Intfs) PROVE LiveFirst(y, Groups!Intfs)
  <2> SUFFICES ASSUME NEW g \in Groups!Names, Groups!Exists(y, g), NEW m \in Groups!Intfs, NEW n \in Groups!Intfs,
                      Before(y.groups[g], m, n), Groups!active(y, n)
               PROVE  Groups!active(y, m)
    BY DEF LiveFirst
  <2>1. Groups!Exists(v, g) /\ Before(v.groups[g], m, n) /\ m # i /\ n # i
    BY <1>6, BeforeEls
  <2>2. (Groups!active(y, m) <=> Groups!active(v, m)) /\ (Groups!active(y, n) <=> Groups!active(v, n))
    BY <1>7, <2>1 DEF Groups!active
  <2> QED
    BY <1>12, <2>1, <2>2 DEF LiveFirst
<1>13. Good(y)
  BY <1>5, <1>8, <1>9, <1>10 DEF Good, GoodBut
<1> QED
  BY <1>5, <1>6, <1>7, <1>11, <1>12, <1>13 DEF Off

\* isis_disable_protocol_on_interface
LEMMA DisabledIs ==
  ASSUME NEW s, Good(s), NEW i \in Groups!Intfs, Groups!Enabled(s, i)
  PROVE  Good(Groups!disabled(s, i)) /\ (Calm(s) => Calm(Groups!disabled(s, i)))
<1>0. s \in Node
  BY DEF Good, GoodBut
<1> DEFINE G == {a.nbr : a \in Groups!ToSet(s.adjs[i])}
           u == IF s.intf_grp[i] \in G THEN Groups!left(s, s.intf_grp[i], i) ELSE s
           f == FreedOf(u, G)
           v == IF s.dyn THEN f ELSE s
           w == [v EXCEPT !.adjs[i] = <<>>]
           y == [Groups!unlinked(w, i) EXCEPT !.intf_grp[i] = NoGroup, !.adjs[i] = NoGroup]
<1>1. Groups!AllDeleted(s, i) = w
  BY DEF Groups!AllDeleted, FreedOf
<1>2. Groups!disabled(s, i) = y
  BY <1>1 DEF Groups!disabled
<1>3. s.adjs[i] \in Seq(Groups!Adjacencies)
  BY <1>0, NodeHas
<1>4. G = Nbrs(s, i)
  BY <1>0, NbrsAre
<1>5. G \in SUBSET Groups!Names
  <2>1. \A a \in Groups!ToSet(s.adjs[i]) : a.nbr \in Groups!Names
    <3> SUFFICES ASSUME NEW a \in Groups!ToSet(s.adjs[i]) PROVE a.nbr \in Groups!Names
      OBVIOUS
    <3>1. a \in Groups!Adjacencies
      BY <1>3 DEF Groups!ToSet
    <3> QED
      BY <3>1, GroupsAre DEF Groups!Adjacencies
  <2> QED
    BY <2>1
<1> HIDE DEF G
<1>6. LeavesTo(f, s, i, G)
  BY <1>0, <1>5, LeavesIs
<1> HIDE DEF u, f
<1>7. Good(v)
  BY <1>0, <1>6 DEF LeavesTo
<1> HIDE DEF v
<1>8. Off(y, v, i)
  BY <1>7, OffIs
<1> HIDE DEF w, y
<1>9. ASSUME s.dyn PROVE Calm(s) => Calm(y)
  <2>1. v = f
    BY <1>9 DEF v
  <2>2. \A j \in Groups!Intfs : Nbrs(v, j) = Nbrs(s, j)
    BY <1>6, <2>1, SameLive DEF LeavesTo
  <2>3. \A j \in Groups!Intfs : Nbrs(y, j) = IF j = i THEN Nbrs(s, i) \ G ELSE Nbrs(s, j)
    BY <1>4, <1>8, <2>2 DEF Off
  <2>4. \A j \in Groups!Intfs :
          y.intf_grp[j] = IF j = i THEN NoGroup ELSE s.intf_grp[j]
    BY <1>6, <1>8, <2>1 DEF LeavesTo, Off
  <2>5. Wanted(s) => Wanted(y)
    <3> SUFFICES ASSUME Wanted(s) PROVE Wanted(y)
      OBVIOUS
    <3>1. \A j \in Groups!Intfs : y.intf_grp[j] = f.intf_grp[j]
      <4>1. s.intf_grp[i] \in G \/ s.intf_grp[i] = NoGroup
        BY <1>4, <1>9 DEF Wanted
      <4> QED
        BY <1>6, <2>4, <4>1 DEF LeavesTo
    <3>2. y.dyn = f.dyn /\ \A g \in Groups!Names : Groups!Exists(y, g) => Groups!Exists(f, g)
      BY <1>8, <2>1 DEF Off
    <3> QED
      BY <1>0, <1>5, <1>6, <2>3, <3>1, <3>2, LeavesWanted
  <2>6. Placed(s) => Placed(y)
    BY <1>4, <1>9, <2>3, <2>4 DEF Placed
  <2>7. LiveFirst(s, Groups!Intfs) => LiveFirst(y, Groups!Intfs)
    BY <1>6, <1>8, <2>1 DEF LeavesTo, Off
  <2> QED
    BY <2>5, <2>6, <2>7 DEF Calm
<1>10. ASSUME ~s.dyn PROVE Calm(s) => Calm(y)
  <2>1. v = s /\ ~y.dyn
    BY <1>8, <1>10 DEF v, Off
  <2> QED
    BY <1>8, <2>1 DEF Off, Calm, Wanted, Placed
<1> QED
  BY <1>2, <1>8, <1>9, <1>10 DEF Off

LEMMA DisableKeeps ==
  ASSUME GroupInv, NEW i \in Groups!Intfs, Groups!Disable(i)
  PROVE  GroupInv'
<1>1. Good(node) /\ (~disturbed => Calm(node)) /\ Groups!Enabled(node, i) /\ UNCHANGED disturbed
  BY DEF GroupInv, Groups!Disable
<1>2. CASE Groups!MissesOne(node, i)
  BY <1>2, StopKeeps DEF Groups!Disable
<1>3. CASE ~Groups!MissesOne(node, i)
  <2>1. Groups!Becomes(Groups!disabled(node, i))
    BY <1>3 DEF Groups!Disable
  <2>2. Good(Groups!disabled(node, i)) /\ (Calm(node) => Calm(Groups!disabled(node, i)))
    BY <1>1, DisabledIs
  <2> QED
    BY <1>1, <2>1, <2>2, BecomesKeeps
<1> QED
  BY <1>2, <1>3

\* isis_intf_grp_cleanup
LEMMA CleanedIs ==
  ASSUME NEW s, Good(s)
  PROVE  LET t == Groups!cleaned([s EXCEPT !.dyn = FALSE]) IN
         /\ Good(t) /\ Calm(t) /\ ~t.dyn
         /\ \A g \in Groups!Names : ~Groups!Exists(t, g)
<1> DEFINE r == [s EXCEPT !.dyn = FALSE]
           t == Groups!cleaned(r)
<1>1. s \in Node /\ Together(s, Groups!Intfs) /\ OnLink(s)
  BY DEF Good, GoodBut
<1>2. r \in Node /\ r.groups = s.groups /\ r.adjs = s.adjs /\ r.intf_grp = s.intf_grp /\ ~r.dyn
  BY <1>1 DEF Node
<1> HIDE DEF r
<1>3. /\ t.dyn = r.dyn /\ t.adjs = r.adjs /\ t.groups = [g \in Groups!Names |-> NoGroup]
      /\ t.intf_grp = [i \in Groups!Intfs |-> IF \E g \in Groups!Names : Groups!Exists(r, g) /\ i \in Groups!ToSet(r.groups[g])
                                              THEN NoGroup ELSE r.intf_grp[i]]
      /\ t = [groups |-> t.groups, dyn |-> t.dyn, adjs |-> t.adjs, intf_grp |-> t.intf_grp]
  <2> DEFINE new == [g \in Groups!Names |-> NoGroup]
             own == [i \in Groups!Intfs |-> IF \E g \in Groups!Names : Groups!Exists(r, g) /\ i \in Groups!ToSet(r.groups[g])
                                             THEN NoGroup ELSE r.intf_grp[i]]
  <2>1. t = [r EXCEPT !.groups = new, !.intf_grp = own]
    BY DEF Groups!cleaned
  <2> HIDE DEF new, own, t
  <2>2. r = [groups |-> r.groups, dyn |-> r.dyn, adjs |-> r.adjs, intf_grp |-> r.intf_grp]
    BY <1>2 DEF Node
  <2>3. t = [groups |-> new, dyn |-> r.dyn, adjs |-> r.adjs, intf_grp |-> own]
    BY ONLY <2>1, <2>2
  <2> QED
    BY <2>3 DEF new, own
<1> HIDE DEF t
<1>4. ASSUME NEW i \in Groups!Intfs PROVE t.intf_grp[i] = NoGroup
  <2>1. CASE r.intf_grp[i] \in Groups!Names
    <3> DEFINE g == r.intf_grp[i]
    <3>1. InGroup(s, g, i)
      BY <1>1, <1>2, <2>1 DEF Together
    <3>2. Groups!Exists(r, g) /\ i \in Groups!ToSet(r.groups[g])
      BY <1>1, <1>2, <2>1, <3>1, ElsAre DEF InGroup, Groups!Exists
    <3> QED
      BY <1>3, <2>1, <3>2
  <2>2. CASE r.intf_grp[i] = NoGroup
    BY <1>3, <2>2
  <2> QED
    BY <1>2, <2>1, <2>2, NodeHas
<1>5. t \in Node
  <2>1. t.intf_grp \in [Groups!Intfs -> Groups!Names \union {NoGroup}]
    BY <1>3, <1>4
  <2> QED
    BY <1>2, <1>3, <2>1 DEF Node
<1>6. \A g \in Groups!Names : ~Groups!Exists(t, g)
  BY <1>3 DEF Groups!Exists
<1>7. Once(t) /\ Together(t, Groups!Intfs) /\ RunsProtocol(t)
  BY <1>4, <1>6, GroupsAre DEF Once, Together, InGroup, RunsProtocol
<1>8. OnLink(t)
  BY <1>1, <1>2, <1>3 DEF OnLink, Groups!Enabled
<1>9. Calm(t)
  BY <1>2, <1>3, <1>6 DEF Calm, Wanted, Placed, LiveFirst
<1> QED
  BY <1>2, <1>3, <1>5, <1>6, <1>7, <1>8, <1>9 DEF Good, GoodBut, t, r

LEMMA UnConfigDynamicKeeps ==
  ASSUME GroupInv, Groups!UnConfigDynamic
  PROVE  GroupInv'
<1> DEFINE s == Groups!cleaned([node EXCEPT !.dyn = FALSE])
<1>1. Good(s) /\ Calm(s)
  BY CleanedIs DEF GroupInv
<1>2. Groups!Becomes(s)
  BY DEF Groups!UnConfigDynamic
<1> HIDE DEF s
<1> QED
  BY <1>1, <1>2, BecomesKeeps

LEMMA ConfigGroupKeeps ==
  ASSUME GroupInv, NEW g \in Groups!Names, Groups!ConfigGroup(g)
  PROVE  GroupInv'
<1> DEFINE s == IF node.dyn THEN Groups!cleaned([node EXCEPT !.dyn = FALSE]) ELSE node
           t == IF Groups!Exists(s, g) THEN s ELSE [s EXCEPT !.groups[g] = <<>>]
<1>1. Good(node) /\ (~disturbed => Calm(node))
  BY DEF GroupInv
<1>2. Groups!Becomes(t) /\ disturbed' = (disturbed /\ ~node.dyn)
  BY DEF Groups!ConfigGroup
<1>3. Good(s) /\ ~s.dyn /\ (~disturbed' => Calm(s))
  BY <1>1, <1>2, CleanedIs, NodeHas DEF Good, GoodBut
<1> HIDE DEF s
<1>4. s \in Node /\ <<>> \in Seq(Groups!Intfs)
  BY <1>3 DEF Good, GoodBut
<1>5. /\ t \in Node /\ t.adjs = s.adjs /\ t.intf_grp = s.intf_grp /\ ~t.dyn
      /\ \A h \in Groups!Names : t.groups[h] = s.groups[h] \/ {t.groups[h], s.groups[h]} \subseteq {NoGroup, <<>>}
  BY <1>3, <1>4 DEF Node, Groups!Exists
<1> HIDE DEF t
<1>6. Good(t) /\ (LiveFirst(s, Groups!Intfs) => LiveFirst(t, Groups!Intfs))
  BY <1>3, <1>5, EmptyKeeps
<1>7. Calm(s) => Calm(t)
  BY <1>5, <1>6 DEF Calm, Wanted, Placed
<1> QED
  BY <1>2, <1>3, <1>6, <1>7, BecomesKeeps

LEMMA ConfigMemberKeeps ==
  ASSUME GroupInv, NEW i \in Groups!Intfs, NEW g \in Groups!Names, NEW enable \in BOOLEAN,
         Groups!ConfigMember(i, g, enable)
  PROVE  GroupInv'
<1>1. Good(node) /\ (~disturbed => Calm(node))
  BY DEF GroupInv
<1>2. Groups!Enabled(node, i) /\ Groups!Exists(node, g) /\ disturbed' = (disturbed \/ node.dyn)
  BY DEF Groups!ConfigMember
<1>3. PICK s : s \in {Groups!joined(node, g, i), Groups!left(node, g, i)} /\ Groups!Becomes(s)
  BY DEF Groups!ConfigMember
<1>4. Good(s) /\ Same(s, node) /\ (LiveFirst(node, Groups!Intfs) => LiveFirst(s, Groups!Intfs))
  <2>1. CASE s = Groups!joined(node, g, i)
    BY <1>1, <1>2, <2>1, JoinedIs
  <2>2. CASE s = Groups!left(node, g, i)
    <3>1. Good(s) /\ Same(s, node) /\ (LiveFirst(node, Groups!Intfs) => LiveFirst(s, Groups!Intfs))
      BY <1>1, <2>2, LeftIs
    <3> QED
      BY <3>1
  <2> QED
    BY <1>3, <2>1, <2>2
<1>5. ~disturbed' => Calm(s)
  BY <1>1, <1>2, <1>4 DEF Calm, Wanted, Placed, Same
<1> QED
  BY <1>3, <1>4, <1>5, BecomesKeeps

\* isis_un_config_intf_grp: the members of the group are in none.
Ungrouped(s, g) ==
  [s EXCEPT !.groups[g] = NoGroup,
            !.intf_grp = [i \in Groups!Intfs |-> IF i \in Groups!ToSet(s.groups[g]) THEN NoGroup ELSE @[i]]]

LEMMA UngroupedIs ==
  ASSUME NEW s, Good(s), NEW g \in Groups!Names, Groups!Exists(s, g), NEW t, t = Ungrouped(s, g)
  PROVE  Good(t) /\ t.dyn = s.dyn /\ (LiveFirst(s, Groups!Intfs) => LiveFirst(t, Groups!Intfs))
<1> DEFINE own == [i \in Groups!Intfs |-> IF i \in Groups!ToSet(s.groups[g]) THEN NoGroup ELSE s.intf_grp[i]]
<1>1. s \in Node /\ Once(s) /\ Together(s, Groups!Intfs) /\ RunsProtocol(s) /\ OnLink(s)
  BY DEF Good, GoodBut
<1>2. own \in [Groups!Intfs -> Groups!Names \union {NoGroup}]
  BY <1>1, NodeHas
<1>3. t = [s EXCEPT !.groups[g] = NoGroup, !.intf_grp = own]
  BY DEF Ungrouped
<1>4. \A m \in Groups!Intfs : own[m] = IF m \in Groups!ToSet(s.groups[g]) THEN NoGroup ELSE s.intf_grp[m]
  OBVIOUS
<1> HIDE DEF own
<1>5. /\ t \in Node /\ t.dyn = s.dyn /\ t.adjs = s.adjs /\ t.intf_grp = own
      /\ t.groups[g] = NoGroup /\ \A h \in Groups!Names : h # g => t.groups[h] = s.groups[h]
  <2> DEFINE new == [s.groups EXCEPT ![g] = NoGroup]
  <2>1. s.groups \in [Groups!Names -> Seq(Groups!Intfs) \union {NoGroup}]
    BY <1>1 DEF Node
  <2>2. /\ new \in [Groups!Names -> Seq(Groups!Intfs) \union {NoGroup}]
        /\ new[g] = NoGroup /\ \A h \in Groups!Names : h # g => new[h] = s.groups[h]
    BY <2>1
  <2>3. s = [groups |-> s.groups, dyn |-> s.dyn, adjs |-> s.adjs, intf_grp |-> s.intf_grp]
    BY <1>1 DEF Node
  <2>4. t = [groups |-> new, dyn |-> s.dyn, adjs |-> s.adjs, intf_grp |-> own]
    BY ONLY <1>3, <2>3
  <2> HIDE DEF new
  <2>5. t.groups = new /\ t.dyn = s.dyn /\ t.adjs = s.adjs /\ t.intf_grp = own
    BY ONLY <2>4
  <2>6. t \in Node
    BY ONLY <1>1, <1>2, <2>2, <2>4 DEF Node
  <2> QED
    BY ONLY <2>2, <2>5, <2>6
<1>6. \A h \in Groups!Names : Groups!Exists(t, h) => Groups!Exists(s, h) /\ h # g /\ t.groups[h] = s.groups[h]
  BY <1>5 DEF Groups!Exists
<1>7. \A m \in Groups!Intfs : own[m] = IF s.intf_grp[m] = g THEN NoGroup ELSE s.intf_grp[m]
  <2> SUFFICES ASSUME NEW m \in Groups!Intfs PROVE m \in Groups!ToSet(s.groups[g]) <=> s.intf_grp[m] = g
    BY <1>4
  <2> QED
    BY <1>1, ElsAre DEF Together, InGroup
<1>8. Once(t)
  BY <1>1, <1>6 DEF Once
<1>9. Together(t, Groups!Intfs)
  <2> SUFFICES ASSUME NEW h \in Groups!Names, NEW m \in Groups!Intfs PROVE InGroup(t, h, m) <=> t.intf_grp[m] = h
    BY DEF Together
  <2>1. InGroup(s, h, m) <=> s.intf_grp[m] = h
    BY <1>1 DEF Together
  <2>2. InGroup(t, h, m) <=> InGroup(s, h, m) /\ h # g
    BY <1>5 DEF InGroup, Groups!Exists
  <2>3. t.intf_grp[m] = IF s.intf_grp[m] = g THEN NoGroup ELSE s.intf_grp[m]
    BY <1>5, <1>7
  <2> QED
    BY ONLY <2>1, <2>2, <2>3, GroupsAre, h \in Groups!Names
<1>10. RunsProtocol(t) /\ OnLink(t)
  <2>1. \A m : Groups!Enabled(t, m) <=> Groups!Enabled(s, m)
    BY <1>5 DEF Groups!Enabled
  <2>2. RunsProtocol(t)
    BY <1>1, <1>5, <1>7, <2>1 DEF RunsProtocol
  <2>3. OnLink(t)
    BY ONLY <1>1, <1>5, <2>1 DEF OnLink
  <2> QED
    BY <2>2, <2>3
<1>11. LiveFirst(s, Groups!Intfs) => LiveFirst(t, Groups!Intfs)
  <2>1. \A m : Groups!active(t, m) <=> Groups!active(s, m)
    BY <1>5, SameLive
  <2> QED
    BY <1>6, <2>1 DEF LiveFirst
<1> QED
  BY <1>5, <1>8, <1>9, <1>10, <1>11 DEF Good, GoodBut

\* isis_dynamic_intf_grp_build_intf_grp_db for one interface
GroupedTo(t, s, i) ==
  /\ Good(t) /\ t.dyn /\ t.adjs = s.adjs /\ Wanted(t) /\ LiveFirst(t, Groups!Intfs)
  /\ \A j \in Groups!Intfs : j # i => t.intf_grp[j] = s.intf_grp[j]
  /\ Nbrs(s, i) # {} => t.intf_grp[i] \in Nbrs(s, i)

LEMMA GroupedIs ==
  ASSUME NEW s, Good(s), s.dyn, Wanted(s), LiveFirst(s, Groups!Intfs), NEW i \in Groups!Intfs,
         NEW t, t = Groups!grouped(s, i)
  PROVE  GroupedTo(t, s, i)
<1>1. s \in Node
  BY DEF Good, GoodBut
<1>2. CASE ~Groups!Enabled(s, i) \/ s.adjs[i] = <<>>
  <2>1. t = s
    BY <1>2 DEF Groups!grouped
  <2>2. Nbrs(s, i) = {}
    <3>1. CASE ~Groups!Enabled(s, i)
      BY <3>1 DEF Nbrs
    <3>2. CASE Groups!Enabled(s, i) /\ s.adjs[i] = <<>>
      <4>1. 1..Len(s.adjs[i]) = {}
        BY <3>2
      <4> QED
        BY <4>1 DEF Nbrs
    <3> QED
      BY <1>2, <3>1, <3>2
  <2> QED
    BY <2>1, <2>2 DEF GroupedTo
<1>3. CASE Groups!Enabled(s, i) /\ s.adjs[i] # <<>>
  <2> DEFINE new == [g \in Groups!Names |->
                       IF s.groups[g] = NoGroup /\ \E a \in Groups!ToSet(s.adjs[i]) : a.nbr = g THEN <<>> ELSE s.groups[g]]
             u == [s EXCEPT !.groups = new]
             n == Groups!Last(s.adjs[i]).nbr
  <2>1. t = Groups!joined(u, n, i)
    BY <1>3 DEF Groups!grouped
  <2>2. s.adjs[i] \in Seq(Groups!Adjacencies)
    BY <1>1, <1>3, NodeHas
  <2>3. Nbrs(s, i) = {a.nbr : a \in Groups!ToSet(s.adjs[i])}
    BY <1>1, <1>3, NbrsAre
  <2>4. n \in Nbrs(s, i) /\ n \in Groups!Names
    <3>1. Len(s.adjs[i]) \in 1..Len(s.adjs[i]) /\ Groups!Last(s.adjs[i]) = s.adjs[i][Len(s.adjs[i])]
      BY <1>3, <2>2 DEF Groups!Last
    <3>2. s.adjs[i][Len(s.adjs[i])] \in Groups!Adjacencies
      BY <2>2, <3>1
    <3>3. n \in Routers
      BY <3>1, <3>2 DEF Groups!Adjacencies
    <3>4. n \in Nbrs(s, i)
      BY <1>3, <3>1 DEF Nbrs
    <3> QED
      BY <3>3, <3>4, GroupsAre
  <2> HIDE DEF n
  <2>5. \A g \in Groups!Names :
          new[g] = IF s.groups[g] = NoGroup /\ g \in Nbrs(s, i) THEN <<>> ELSE s.groups[g]
    BY <2>3
  <2>6. new \in [Groups!Names -> Seq(Groups!Intfs) \union {NoGroup}]
    <3>1. <<>> \in Seq(Groups!Intfs)
      OBVIOUS
    <3> QED
      BY <1>1, <3>1 DEF Node
  <2> HIDE DEF new
  <2>7. /\ u \in Node /\ u.dyn = s.dyn /\ u.adjs = s.adjs /\ u.intf_grp = s.intf_grp /\ u.groups = new
    BY <1>1, <2>6 DEF Node
  <2> HIDE DEF u
  <2>8. Good(u) /\ LiveFirst(u, Groups!Intfs)
    <3>1. \A g \in Groups!Names : u.groups[g] = s.groups[g] \/ {u.groups[g], s.groups[g]} \subseteq {NoGroup, <<>>}
      BY <2>5, <2>7
    <3> QED
      BY <2>7, <3>1, EmptyKeeps
  <2>9. /\ Groups!Enabled(u, i)
        /\ \A g \in Groups!Names : Groups!Exists(u, g) <=> Groups!Exists(s, g) \/ g \in Nbrs(s, i)
    BY <1>3, <2>5, <2>7, GroupsAre DEF Groups!Enabled, Groups!Exists
  <2>10. /\ Good(t) /\ Same(t, u) /\ t.intf_grp = [u.intf_grp EXCEPT ![i] = n]
         /\ LiveFirst(t, Groups!Intfs)
    BY <2>1, <2>4, <2>8, <2>9, JoinedIs
  <2>11. \A j \in Groups!Intfs : t.intf_grp[j] = IF j = i THEN n ELSE s.intf_grp[j]
    BY <1>1, <2>7, <2>10 DEF Node
  <2>12. \A j : Nbrs(t, j) = Nbrs(s, j)
    <3>1. t.adjs = s.adjs
      BY <2>7, <2>10 DEF Same
    <3> QED
      BY <3>1, SameLive
  <2>13. Wanted(t)
    <3>1. \A g \in Groups!Names : Groups!Exists(t, g) => Groups!Exists(s, g) \/ g \in Nbrs(s, i)
      BY <2>9, <2>10 DEF Same
    <3> QED
      BY <2>4, <2>11, <2>12, <3>1 DEF Wanted
  <2> QED
    BY <2>4, <2>7, <2>10, <2>11, <2>13 DEF GroupedTo, Same
<1> QED
  BY <1>2, <1>3

\* And for all: what has been built for the first k.
BuiltTo(t, s, k) ==
  /\ Good(t) /\ t.dyn /\ t.adjs = s.adjs /\ Wanted(t) /\ LiveFirst(t, Groups!Intfs)
  /\ \A l \in 1..k : Nbrs(s, IntfSeq[l]) # {} => t.intf_grp[IntfSeq[l]] \in Nbrs(s, IntfSeq[l])

LEMMA BuiltIs ==
  ASSUME NEW s, Good(s), s.dyn, Wanted(s), LiveFirst(s, Groups!Intfs)
  PROVE  Good(Groups!built(s)) /\ Calm(Groups!built(s))
<1> DEFINE n == Len(IntfSeq)
           Upto(k, h) == h = [j \in 0..k |-> IF j = 0 THEN s ELSE Groups!grouped(h[j - 1], IntfSeq[j])]
           u == CHOOSE h : Upto(n, h)
<1>0. /\ n \in Nat /\ IntfSeq \in Seq(Groups!Intfs) /\ \A k \in 1..n : IntfSeq[k] \in Groups!Intfs
      /\ Groups!Intfs = {IntfSeq[k] : k \in 1..n}
  <2>1. IntfSeq \in Seq(Groups!Intfs)
    BY GroupsAssumption DEF Groups!GroupsAssumption
  <2>2. n \in Nat /\ DOMAIN IntfSeq = 1..n
    BY <2>1
  <2>3. Groups!Intfs = {IntfSeq[k] : k \in DOMAIN IntfSeq}
    BY Zenon DEF Groups!Intfs, Groups!ToSet
  <2> QED
    BY <2>1, <2>2, <2>3
<1> HIDE DEF n
<1>1. \A k \in 0..n : \E f : Upto(k, f)
  <2> DEFINE bad == {k \in 0..n : ~\E f : Upto(k, f)}
  <2> SUFFICES ASSUME bad # {} PROVE FALSE
    OBVIOUS
  <2>1. bad \in SUBSET Nat
    BY <1>0
  <2>2. PICK m \in bad : \A k \in bad : m <= k
    BY <2>1, LeastIs
  <2>3. m \in 0..n /\ ~\E f : Upto(m, f)
    OBVIOUS
  <2>4. m # 0
    <3>1. Upto(0, [j \in 0..0 |-> s])
      OBVIOUS
    <3> QED
      BY <2>3, <3>1
  <2>5. m - 1 \in 0..n /\ m - 1 \notin bad
    <3> HIDE DEF bad
    <3> QED
      BY <1>0, <2>2, <2>3, <2>4
  <2>6. PICK f : Upto(m - 1, f)
    BY <2>5
  <2> DEFINE g == [j \in 0..m |-> IF j = m THEN Groups!grouped(f[m - 1], IntfSeq[m]) ELSE f[j]]
  <2>7. ASSUME NEW j \in 0..m PROVE g[j] = IF j = 0 THEN s ELSE Groups!grouped(g[j - 1], IntfSeq[j])
    <3>1. CASE j = 0
      BY <1>0, <2>3, <2>4, <2>6, <3>1
    <3>2. CASE j # 0 /\ j # m
      <4>1. j \in 0..(m - 1) /\ j - 1 \in 0..m /\ j - 1 # m
        BY <1>0, <2>3, <2>7, <3>2
      <4>2. f[j] = Groups!grouped(f[j - 1], IntfSeq[j])
        BY <2>6, <3>2, <4>1
      <4> QED
        BY <3>2, <4>1, <4>2
    <3>3. CASE j = m
      <4>1. m - 1 \in 0..m /\ m - 1 # m /\ m \in 0..m
        BY <1>0, <2>3, <2>4
      <4> QED
        BY <2>4, <3>3, <4>1
    <3> QED
      BY <3>1, <3>2, <3>3
  <2>8. Upto(m, g)
    <3>1. g = [j \in 0..m |-> g[j]]
      OBVIOUS
    <3> HIDE DEF g
    <3> QED
      BY <2>7, <3>1
  <2> QED
    BY <2>3, <2>8
<1>2. Upto(n, u)
  <2>1. n \in 0..n
    BY <1>0
  <2> HIDE DEF Upto, u
  <2>2. \E h : Upto(n, h)
    BY <1>1, <2>1
  <2> QED
    BY <2>2, Zenon DEF u
<1>3. Groups!built(s) = u[n]
  BY DEF Groups!built, n
<1> HIDE DEF u
<1>4. u[0] = s /\ \A k \in 1..n : u[k] = Groups!grouped(u[k - 1], IntfSeq[k])
  <2>1. \A k \in 0..n : u[k] = IF k = 0 THEN s ELSE Groups!grouped(u[k - 1], IntfSeq[k])
    BY <1>2
  <2> QED
    BY <1>0, <2>1
<1> HIDE DEF Upto
<1> DEFINE bad == {k \in 0..n : ~BuiltTo(u[k], s, k)}
<1>5. ASSUME bad # {} PROVE FALSE
  <2>1. bad \in SUBSET Nat
    BY <1>0
  <2>2. PICK m \in bad : \A k \in bad : m <= k
    BY <1>5, <2>1, LeastIs
  <2>3. BuiltTo(s, s, 0)
    <3>1. 1..0 = {}
      OBVIOUS
    <3> QED
      BY <3>1 DEF BuiltTo
  <2>4. m \in 0..n /\ ~BuiltTo(u[m], s, m)
    OBVIOUS
  <2>5. m # 0
    BY <1>4, <2>3, <2>4
  <2>6. m \in 1..n /\ m - 1 \in 0..n /\ m - 1 \notin bad
    <3> HIDE DEF bad
    <3> QED
      BY <1>0, <2>2, <2>4, <2>5
  <2> DEFINE t == u[m - 1]
             i == IntfSeq[m]
  <2>7. BuiltTo(t, s, m - 1)
    BY <2>6
  <2>8. u[m] = Groups!grouped(t, i) /\ i \in Groups!Intfs
    BY <1>0, <1>4, <2>6
  <2> HIDE DEF bad, t, i
  <2>9. GroupedTo(u[m], t, i)
    BY <2>7, <2>8, GroupedIs DEF BuiltTo
  <2>10. \A j : Nbrs(t, j) = Nbrs(s, j)
    BY <2>7, SameLive DEF BuiltTo
  <2>11. ASSUME NEW l \in 1..m, Nbrs(s, IntfSeq[l]) # {}
         PROVE  u[m].intf_grp[IntfSeq[l]] \in Nbrs(s, IntfSeq[l])
    <3>1. CASE IntfSeq[l] = i
      BY <2>9, <2>10, <2>11, <3>1 DEF GroupedTo
    <3>2. CASE IntfSeq[l] # i
      <4>1. l # m /\ l \in 1..(m - 1) /\ IntfSeq[l] \in Groups!Intfs
        BY <1>0, <2>6, <3>2 DEF i
      <4> QED
        BY <2>7, <2>9, <2>11, <3>2, <4>1 DEF GroupedTo, BuiltTo
    <3> QED
      BY <3>1, <3>2
  <2>12. BuiltTo(u[m], s, m)
    BY <2>7, <2>9, <2>11 DEF BuiltTo, GroupedTo
  <2> QED
    BY <2>4, <2>12
<1>6. BuiltTo(u[n], s, n)
  BY <1>0, <1>5
<1>7. Placed(u[n])
  <2>1. \A j : Nbrs(u[n], j) = Nbrs(s, j)
    BY <1>6, SameLive DEF BuiltTo
  <2>2. ASSUME NEW j \in Groups!Intfs, Nbrs(s, j) # {} PROVE u[n].intf_grp[j] \in Nbrs(s, j)
    <3>1. PICK l \in 1..n : j = IntfSeq[l]
      BY <1>0
    <3> QED
      BY <1>6, <2>2, <3>1 DEF BuiltTo
  <2> QED
    BY <2>1, <2>2 DEF Placed
<1> QED
  BY <1>3, <1>6, <1>7 DEF BuiltTo, Calm

\* Groups are dynamic again: no interface has a group, so that the assertion holds.
LEMMA SwitchedKeeps ==
  ASSUME GroupInv, NEW s, Good(s), \A g \in Groups!Names : ~Groups!Exists(s, g), Groups!Switched(s)
  PROVE  GroupInv'
<1> DEFINE t == [s EXCEPT !.dyn = TRUE]
<1>1. s \in Node /\ Once(s) /\ Together(s, Groups!Intfs) /\ OnLink(s)
  BY DEF Good, GoodBut
<1>2. t \in Node /\ t.dyn /\ t.groups = s.groups /\ t.adjs = s.adjs /\ t.intf_grp = s.intf_grp
  BY <1>1 DEF Node
<1>3. \A i \in Groups!Intfs : s.intf_grp[i] = NoGroup
  BY <1>1, NodeHas DEF Together, InGroup
<1>4. Groups!Becomes(Groups!built(t))
  BY <1>2, <1>3 DEF Groups!Switched
<1> HIDE DEF t
<1>5. Good(t)
  BY <1>2, EmptyKeeps
<1>6. \A g \in Groups!Names : ~Groups!Exists(t, g)
  BY <1>2 DEF Groups!Exists
<1>7. Wanted(t) /\ LiveFirst(t, Groups!Intfs)
  BY <1>2, <1>3, <1>6 DEF Wanted, LiveFirst
<1>8. Good(Groups!built(t)) /\ Calm(Groups!built(t))
  BY <1>2, <1>5, <1>7, BuiltIs
<1> QED
  BY <1>4, <1>8, BecomesKeeps

LEMMA UnConfigGroupKeeps ==
  ASSUME GroupInv, NEW g \in Groups!Names, Groups!UnConfigGroup(g)
  PROVE  GroupInv'
<1> DEFINE s == Ungrouped(node, g)
<1>1. Good(node) /\ (~disturbed => Calm(node))
  BY DEF GroupInv
<1>2. ~node.dyn /\ Groups!Exists(node, g)
  BY DEF Groups!UnConfigGroup
<1>3. IF \A h \in Groups!Names : ~Groups!Exists(s, h)
      THEN Groups!Switched(s) /\ disturbed' = FALSE
      ELSE Groups!Becomes(s) /\ UNCHANGED disturbed
  BY DEF Groups!UnConfigGroup, Ungrouped
<1>4. Good(s) /\ s.dyn = node.dyn /\ (LiveFirst(node, Groups!Intfs) => LiveFirst(s, Groups!Intfs))
  BY <1>1, <1>2, UngroupedIs
<1> HIDE DEF s
<1>5. Calm(node) => Calm(s)
  BY <1>2, <1>4 DEF Calm, Wanted, Placed
<1>6. CASE \A h \in Groups!Names : ~Groups!Exists(s, h)
  BY <1>3, <1>4, <1>6, SwitchedKeeps
<1>7. CASE ~\A h \in Groups!Names : ~Groups!Exists(s, h)
  BY <1>1, <1>3, <1>4, <1>5, <1>7, BecomesKeeps
<1> QED
  BY <1>6, <1>7

LEMMA ConfigDynamicKeeps ==
  ASSUME GroupInv, Groups!ConfigDynamic
  PROVE  GroupInv'
<1>1. Good(node) /\ (\A g \in Groups!Names : ~Groups!Exists(node, g)) /\ Groups!Switched(node)
  BY DEF GroupInv, Groups!ConfigDynamic
<1> QED
  BY <1>1, SwitchedKeeps

\* While it is calm, an adjacency of a link of two routers finds its group.
LEMMA FindsGroup ==
  ASSUME NEW s, Good(s), Calm(s), TwoRouters, nbrs \in Links, NEW i \in Groups!Intfs, Groups!Enabled(s, i)
  PROVE  ~Groups!MissesOne(s, i)
<1> SUFFICES ASSUME s.dyn, NEW a \in Groups!ToSet(s.adjs[i]) PROVE Groups!Exists(s, a.nbr)
  BY DEF Groups!MissesOne, Groups!Misses
<1>1. s \in Node /\ Together(s, Groups!Intfs) /\ Placed(s)
  BY DEF Good, GoodBut, Calm
<1>2. PICK n \in Routers : \A k \in 1..Len(s.adjs[i]) : s.adjs[i][k].nbr = n
  BY AtMostOne
<1>3. s.adjs[i] \in Seq(Groups!Adjacencies)
  BY <1>1, NodeHas
<1>4. Nbrs(s, i) = {n} /\ a.nbr = n
  <2>1. PICK k \in 1..Len(s.adjs[i]) : s.adjs[i][k] = a
    BY <1>3 DEF Groups!ToSet
  <2> QED
    BY <1>2, <2>1 DEF Nbrs
<1>5. s.intf_grp[i] = n
  BY <1>1, <1>4 DEF Placed
<1> QED
  BY <1>1, <1>4, <1>5, GroupsAre DEF Together, InGroup

\* isis_protocol_shutdown_now: what the interfaces leave behind is good after each, and
\* calm if it was so before; so they find their groups, and no group is left.
LEMMA RestartIs ==
  ASSUME GroupInv, Groups!Restart
  PROVE  /\ nbrs' = nbrs
         /\ \/ /\ group_crashed' = "no group" /\ node' = node /\ disturbed' = disturbed
               /\ disturbed \/ ~TwoRouters
            \/ node' = Groups!Fresh /\ disturbed' = FALSE /\ group_crashed' = group_crashed
<1> DEFINE n == Len(IntfSeq)
           Upto(k, h) == h = [j \in 0..k |-> IF j = 0 THEN node ELSE Groups!stopped(h[j - 1], IntfSeq[j])]
           u == CHOOSE h : Upto(n, h)
<1>0. /\ n \in Nat /\ IntfSeq \in Seq(Groups!Intfs) /\ \A k \in 1..n : IntfSeq[k] \in Groups!Intfs
      /\ Groups!Intfs = {IntfSeq[k] : k \in 1..n}
  <2>1. IntfSeq \in Seq(Groups!Intfs)
    BY GroupsAssumption DEF Groups!GroupsAssumption
  <2>2. n \in Nat /\ DOMAIN IntfSeq = 1..n
    BY <2>1
  <2>3. Groups!Intfs = {IntfSeq[k] : k \in DOMAIN IntfSeq}
    BY Zenon DEF Groups!Intfs, Groups!ToSet
  <2> QED
    BY <2>1, <2>2, <2>3
<1> HIDE DEF n
<1>1. \A k \in 0..n : \E f : Upto(k, f)
  <2> DEFINE bad == {k \in 0..n : ~\E f : Upto(k, f)}
  <2> SUFFICES ASSUME bad # {} PROVE FALSE
    OBVIOUS
  <2>1. bad \in SUBSET Nat
    BY <1>0
  <2>2. PICK m \in bad : \A k \in bad : m <= k
    BY <2>1, LeastIs
  <2>3. m \in 0..n /\ ~\E f : Upto(m, f)
    OBVIOUS
  <2>4. m # 0
    <3>1. Upto(0, [j \in 0..0 |-> node])
      OBVIOUS
    <3> QED
      BY <2>3, <3>1
  <2>5. m - 1 \in 0..n /\ m - 1 \notin bad
    <3> HIDE DEF bad
    <3> QED
      BY <1>0, <2>2, <2>3, <2>4
  <2>6. PICK f : Upto(m - 1, f)
    BY <2>5
  <2> DEFINE g == [j \in 0..m |-> IF j = m THEN Groups!stopped(f[m - 1], IntfSeq[m]) ELSE f[j]]
  <2>7. ASSUME NEW j \in 0..m PROVE g[j] = IF j = 0 THEN node ELSE Groups!stopped(g[j - 1], IntfSeq[j])
    <3>1. CASE j = 0
      BY <1>0, <2>3, <2>4, <2>6, <3>1
    <3>2. CASE j # 0 /\ j # m
      <4>1. j \in 0..(m - 1) /\ j - 1 \in 0..m /\ j - 1 # m
        BY <1>0, <2>3, <2>7, <3>2
      <4>2. f[j] = Groups!stopped(f[j - 1], IntfSeq[j])
        BY <2>6, <3>2, <4>1
      <4> QED
        BY <3>2, <4>1, <4>2
    <3>3. CASE j = m
      <4>1. m - 1 \in 0..m /\ m - 1 # m /\ m \in 0..m
        BY <1>0, <2>3, <2>4
      <4> QED
        BY <2>4, <3>3, <4>1
    <3> QED
      BY <3>1, <3>2, <3>3
  <2>8. Upto(m, g)
    <3>1. g = [j \in 0..m |-> g[j]]
      OBVIOUS
    <3> HIDE DEF g
    <3> QED
      BY <2>7, <3>1
  <2> QED
    BY <2>3, <2>8
<1>2. Upto(n, u)
  <2>1. n \in 0..n
    BY <1>0
  <2> HIDE DEF Upto, u
  <2>2. \E h : Upto(n, h)
    BY <1>1, <2>1
  <2> QED
    BY <2>2, Zenon DEF u
<1>3. /\ nbrs' = nbrs
      /\ IF \E k \in 1..n : Groups!Enabled(u[k - 1], IntfSeq[k]) /\ Groups!MissesOne(u[k - 1], IntfSeq[k])
         THEN group_crashed' = "no group" /\ node' = node /\ disturbed' = disturbed
         ELSE IF \E g \in Groups!Names : Groups!Exists(Groups!cleaned(u[n]), g)
         THEN group_crashed' = "assert" /\ node' = node /\ disturbed' = disturbed
         ELSE node' = Groups!Fresh /\ disturbed' = FALSE /\ group_crashed' = group_crashed
  <2>1. DOMAIN IntfSeq = 1..n
    BY <1>0 DEF n
  <2> QED
    BY <2>1 DEF Groups!Restart, n
<1> HIDE DEF u
<1>4. u[0] = node /\ \A k \in 1..n : u[k] = Groups!stopped(u[k - 1], IntfSeq[k])
  <2>1. \A k \in 0..n : u[k] = IF k = 0 THEN node ELSE Groups!stopped(u[k - 1], IntfSeq[k])
    BY <1>2
  <2> QED
    BY <1>0, <2>1
<1> HIDE DEF Upto
<1> DEFINE Fine(s) == Good(s) /\ (~disturbed => Calm(s))
           bad == {k \in 0..n : ~Fine(u[k])}
<1>5. ASSUME bad # {} PROVE FALSE
  <2>1. bad \in SUBSET Nat
    BY <1>0
  <2>2. PICK m \in bad : \A k \in bad : m <= k
    BY <1>5, <2>1, LeastIs
  <2>3. m \in 0..n /\ ~Fine(u[m])
    OBVIOUS
  <2>4. m # 0
    BY <1>4, <2>3 DEF GroupInv
  <2>5. m \in 1..n /\ m - 1 \in 0..n /\ m - 1 \notin bad
    <3> HIDE DEF bad
    <3> QED
      BY <1>0, <2>2, <2>3, <2>4
  <2> DEFINE t == u[m - 1]
             i == IntfSeq[m]
  <2>6. Fine(t)
    BY <2>5
  <2>7. u[m] = Groups!stopped(t, i) /\ i \in Groups!Intfs
    BY <1>0, <1>4, <2>5
  <2> HIDE DEF bad, t, i
  <2>8. Fine(u[m])
    BY <2>6, <2>7, DisabledIs DEF Groups!stopped
  <2> QED
    BY <2>3, <2>8
<1>6. \A k \in 0..n : Fine(u[k])
  BY <1>5
<1> HIDE DEF bad
<1>7. ASSUME TwoRouters, ~disturbed, NEW k \in 1..n, Groups!Enabled(u[k - 1], IntfSeq[k])
      PROVE  ~Groups!MissesOne(u[k - 1], IntfSeq[k])
  <2>1. k - 1 \in 0..n /\ IntfSeq[k] \in Groups!Intfs
    BY <1>0
  <2>2. Good(u[k - 1]) /\ Calm(u[k - 1]) /\ nbrs \in Links
    BY <1>6, <1>7, <2>1 DEF GroupInv
  <2> QED
    BY <1>7, <2>1, <2>2, FindsGroup
<1>8. \A g \in Groups!Names : ~Groups!Exists(Groups!cleaned(u[n]), g)
  <2>1. u[n] \in Node
    <3>1. n \in 0..n
      BY <1>0
    <3>2. Good(u[n])
      BY <1>6, <3>1
    <3> QED
      BY <3>2 DEF Good, GoodBut
  <2> QED
    BY <2>1 DEF Groups!cleaned, Groups!Exists, Node
<1> QED
  BY <1>3, <1>7, <1>8

LEMMA RestartKeeps ==
  ASSUME GroupInv, Groups!Restart
  PROVE  GroupInv'
<1>1. nbrs' = nbrs /\ \/ group_crashed' = "no group" /\ node' = node /\ disturbed' = disturbed
                      \/ node' = Groups!Fresh /\ disturbed' = FALSE /\ group_crashed' = group_crashed
  BY RestartIs
<1>2. CASE group_crashed' = "no group" /\ node' = node /\ disturbed' = disturbed
  BY <1>1, <1>2, StopKeeps
<1>3. CASE node' = Groups!Fresh /\ disturbed' = FALSE /\ group_crashed' = group_crashed
  BY <1>1, <1>3, FreshIs, BecomesKeeps DEF Groups!Becomes
<1> QED
  BY <1>1, <1>2, <1>3

-----------------------------------------------------------------------------
(* Interface groups: the invariant, and what it says of members and of floods. *)

LEMMA InitKeeps ==
  ASSUME Groups!Init
  PROVE  GroupInv
BY FreshIs DEF Groups!Init, GroupInv

LEMMA GroupStepKeeps ==
  ASSUME GroupInv, [Groups!Next]_groupVars
  PROVE  GroupInv'
<1>1. CASE UNCHANGED groupVars
  <2>1. nbrs' = nbrs /\ node' = node /\ disturbed' = disturbed /\ group_crashed' = group_crashed
    BY <1>1 DEF groupVars
  <2> QED
    BY <2>1, StopKeeps DEF GroupInv
<1>2. ASSUME NEW i \in Groups!Intfs, NEW n \in Routers, Groups!HelloNew(i, n)
      PROVE  GroupInv'
  BY <1>2, HelloNewKeeps
<1>3. ASSUME NEW i \in Groups!Intfs, Groups!Enabled(node, i), NEW a \in Groups!ToSet(node.adjs[i]),
             Groups!HelloKnown(i, a) \/ Groups!GoesDown(i, a) \/ Groups!DeleteTimer(i, a)
      PROVE  GroupInv'
  BY <1>3, StateKeeps
<1>4. ASSUME NEW i \in Groups!Intfs, Groups!Enabled(node, i), NEW a \in Groups!ToSet(node.adjs[i]),
             Groups!DeleteJob(i, a)
      PROVE  GroupInv'
  BY <1>4, DeleteJobKeeps
<1>5. ASSUME NEW i \in Groups!Intfs, Groups!Enable(i)
      PROVE  GroupInv'
  BY <1>5, EnableKeeps
<1>6. ASSUME NEW i \in Groups!Intfs, Groups!Disable(i)
      PROVE  GroupInv'
  BY <1>6, DisableKeeps
<1>7. ASSUME NEW g \in StaticNames, Groups!ConfigGroup(g)
      PROVE  GroupInv'
  BY <1>7, ConfigGroupKeeps, GroupsAre
<1>8. ASSUME NEW g \in Groups!Names, Groups!UnConfigGroup(g)
      PROVE  GroupInv'
  BY <1>8, UnConfigGroupKeeps
<1>9. ASSUME Groups!ConfigDynamic \/ Groups!UnConfigDynamic
      PROVE  GroupInv'
  BY <1>9, ConfigDynamicKeeps, UnConfigDynamicKeeps
<1>10. ASSUME NEW i \in Groups!Intfs, NEW g \in Groups!Names, NEW enable \in BOOLEAN, Groups!ConfigMember(i, g, enable)
       PROVE  GroupInv'
  BY <1>10, ConfigMemberKeeps
<1>11. ASSUME Groups!Restart
       PROVE  GroupInv'
  BY <1>11, RestartKeeps
<1> QED
  BY <1>1, <1>2, <1>3, <1>4, <1>5, <1>6, <1>7, <1>8, <1>9, <1>10, <1>11 DEF Groups!Next

\* The one assertion that can fail, on a LAN or in disturbed groups.
FailsOnlyThere == group_crashed = "no group" => disturbed \/ ~TwoRouters

LEMMA FailsKeeps ==
  ASSUME GroupInv, FailsOnlyThere, [Groups!Next]_groupVars
  PROVE  FailsOnlyThere'
<1>1. CASE UNCHANGED groupVars
  BY <1>1 DEF groupVars, FailsOnlyThere, TwoRouters
<1> SUFFICES ASSUME Groups!Next, group_crashed' = "no group", group_crashed = "no", ~disturbed', TwoRouters'
             PROVE  FALSE
  BY <1>1 DEF Groups!Next, FailsOnlyThere
<1>2. Good(node) /\ (~disturbed => Calm(node)) /\ nbrs \in Links
  BY DEF GroupInv
<1>3. ASSUME NEW i \in Groups!Intfs, Groups!Enabled(node, i), ~disturbed, nbrs' = nbrs
      PROVE  ~Groups!MissesOne(node, i)
  <2>1. TwoRouters
    BY <1>3 DEF TwoRouters
  <2> QED
    BY <1>2, <1>3, <2>1, FindsGroup
<1>4. ASSUME NEW s, Groups!Becomes(s) PROVE FALSE
  BY <1>4 DEF Groups!Becomes
<1>5. ASSUME NEW s, Groups!Switched(s) PROVE FALSE
  BY <1>4, <1>5 DEF Groups!Switched
<1>6. ASSUME NEW i \in Groups!Intfs, NEW n \in Routers, Groups!HelloNew(i, n) PROVE FALSE
  BY <1>4, <1>6 DEF Groups!HelloNew
<1>7. ASSUME NEW i \in Groups!Intfs, Groups!Enabled(node, i), NEW a \in Groups!ToSet(node.adjs[i]),
             Groups!HelloKnown(i, a) \/ Groups!GoesDown(i, a) \/ Groups!DeleteTimer(i, a)
      PROVE  FALSE
  BY <1>4, <1>7 DEF Groups!HelloKnown, Groups!GoesDown, Groups!DeleteTimer
<1>8. ASSUME NEW i \in Groups!Intfs, Groups!Enabled(node, i), NEW a \in Groups!ToSet(node.adjs[i]),
             Groups!DeleteJob(i, a)
      PROVE  FALSE
  <2>1. Groups!Misses(node, a.nbr) /\ nbrs' = nbrs /\ disturbed' = (disturbed \/ a.state # "DOWN")
    BY <1>4, <1>8 DEF Groups!DeleteJob
  <2> QED
    BY <1>3, <1>8, <2>1 DEF Groups!MissesOne
<1>9. ASSUME NEW i \in Groups!Intfs, Groups!Enable(i) PROVE FALSE
  BY <1>4, <1>9 DEF Groups!Enable
<1>10. ASSUME NEW i \in Groups!Intfs, Groups!Disable(i) PROVE FALSE
  <2>1. Groups!Enabled(node, i) /\ Groups!MissesOne(node, i) /\ nbrs' = nbrs /\ disturbed' = disturbed
    BY <1>4, <1>10 DEF Groups!Disable
  <2> QED
    BY <1>3, <2>1
<1>11. ASSUME NEW g \in Groups!Names, Groups!ConfigGroup(g) \/ Groups!UnConfigGroup(g) PROVE FALSE
  BY <1>4, <1>5, <1>11 DEF Groups!ConfigGroup, Groups!UnConfigGroup
<1>12. ASSUME Groups!ConfigDynamic \/ Groups!UnConfigDynamic PROVE FALSE
  BY <1>4, <1>5, <1>12 DEF Groups!ConfigDynamic, Groups!UnConfigDynamic
<1>13. ASSUME NEW i \in Groups!Intfs, NEW g \in Groups!Names, NEW enable \in BOOLEAN,
              Groups!ConfigMember(i, g, enable)
       PROVE  FALSE
  BY <1>4, <1>13 DEF Groups!ConfigMember
<1>14. ASSUME Groups!Restart PROVE FALSE
  <2>1. nbrs' = nbrs /\ disturbed' = disturbed /\ (disturbed \/ ~TwoRouters)
    BY <1>14, RestartIs
  <2> QED
    BY <2>1 DEF TwoRouters
<1> QED
  BY <1>6, <1>7, <1>8, <1>9, <1>10, <1>11, <1>12, <1>13, <1>14, GroupsAre DEF Groups!Next

\* The first of a list is before the others.
LEMMA HeadIs ==
  ASSUME NEW X, NEW s \in Seq(X), s # <<>>
  PROVE  Head(s) \in Els(s) /\ \A i \in Els(s) : i = Head(s) \/ Before(s, Head(s), i)
<1>1. 1 \in 1..Len(s) /\ Head(s) = s[1]
  OBVIOUS
<1>2. ASSUME NEW i \in Els(s) PROVE i = s[1] \/ Before(s, s[1], i)
  <2>1. PICK k \in 1..Len(s) : s[k] = i
    BY DEF Els
  <2>2. k = 1 \/ 1 < k
    BY <2>1
  <2> QED
    BY <1>1, <2>1, <2>2 DEF Before
<1> QED
  BY <1>1, <1>2 DEF Els

LEMMA MembersDo == GroupInv /\ FailsOnlyThere => Groups!MembersAgree
<1> SUFFICES ASSUME GroupInv, FailsOnlyThere PROVE Groups!MembersAgree
  OBVIOUS
<1>1. /\ node \in Node /\ Once(node) /\ Together(node, Groups!Intfs) /\ RunsProtocol(node)
      /\ ~disturbed => Wanted(node)
      /\ group_crashed \in {"no", "no group"}
  BY DEF GroupInv, Good, GoodBut, Calm
<1>2. ASSUME NEW g \in Groups!Names, Groups!Exists(node, g)
      PROVE  /\ Groups!IsInjective(node.groups[g])
             /\ \A i \in Groups!ToSet(node.groups[g]) : Groups!Enabled(node, i) /\ node.intf_grp[i] = g
             /\ node.dyn /\ ~disturbed /\ node.groups[g] = <<>> =>
                  \E i \in Groups!Intfs : Groups!Enabled(node, i) /\ \E a \in Groups!ToSet(node.adjs[i]) : a.nbr = g
  <2> DEFINE s == node.groups[g]
  <2>1. s \in Seq(Groups!Intfs) /\ Groups!ToSet(s) = Els(s) /\ Els(s) \subseteq Groups!Intfs
    BY <1>1, <1>2, NodeHas, ElsAre
  <2>2. \A m \in Groups!Intfs : ~Before(s, m, m)
    BY <1>1, <1>2 DEF Once
  <2>3. Groups!IsInjective(s)
    <3> HIDE DEF s
    <3> SUFFICES ASSUME NEW j \in 1..Len(s), NEW k \in 1..Len(s), s[j] = s[k] PROVE j = k
      BY <2>1 DEF Groups!IsInjective
    <3>1. s[j] \in Groups!Intfs
      BY <2>1
    <3>2. ~(j < k) /\ ~(k < j)
      BY <2>2, <3>1 DEF Before
    <3> QED
      BY <2>1, <3>2
  <2>4. ASSUME NEW i \in Groups!ToSet(s) PROVE Groups!Enabled(node, i) /\ node.intf_grp[i] = g
    <3>1. i \in Groups!Intfs /\ InGroup(node, g, i)
      BY <1>2, <2>1, <2>4 DEF InGroup
    <3> QED
      BY <1>1, <3>1, GroupsAre DEF Together, RunsProtocol
  <2>5. ASSUME node.dyn, ~disturbed
        PROVE  \E i \in Groups!Intfs : Groups!Enabled(node, i) /\ \E a \in Groups!ToSet(node.adjs[i]) : a.nbr = g
    <3>1. PICK i \in Groups!Intfs : g \in Nbrs(node, i)
      BY <1>1, <1>2, <2>5 DEF Wanted
    <3>2. Groups!Enabled(node, i)
      BY <3>1 DEF Nbrs
    <3>3. Nbrs(node, i) = {a.nbr : a \in Groups!ToSet(node.adjs[i])}
      BY <1>1, <3>2, NbrsAre
    <3> QED
      BY <3>1, <3>2, <3>3
  <2> QED
    BY <2>3, <2>4, <2>5
<1>3. ASSUME NEW i \in Groups!Intfs, node.intf_grp[i] # NoGroup
      PROVE  Groups!Exists(node, node.intf_grp[i]) /\ i \in Groups!ToSet(node.groups[node.intf_grp[i]])
  <2> DEFINE g == node.intf_grp[i]
  <2>1. g \in Groups!Names
    BY <1>1, <1>3, NodeHas
  <2>2. InGroup(node, g, i)
    BY <1>1, <2>1 DEF Together
  <2> QED
    BY <1>1, <2>1, <2>2, ElsAre DEF InGroup
<1>4. group_crashed # "assert" /\ (group_crashed = "no group" => disturbed \/ ~Groups!PointToPoint)
  BY <1>1 DEF FailsOnlyThere, TwoRouters, Groups!PointToPoint
<1> QED
  BY <1>2, <1>3, <1>4 DEF Groups!MembersAgree

\* On a link of two routers the first adjacency is the only one.
LEMMA UpIs ==
  ASSUME Good(node), nbrs \in Links, TwoRouters, NEW i \in Groups!Intfs, Groups!Enabled(node, i)
  PROVE  /\ Groups!any_up(i) <=> Groups!active(node, i)
         /\ Groups!any_up(i) => \E n \in Routers : nbrs[i] = {n} /\ Nbrs(node, i) = {n}
<1> DEFINE s == node.adjs[i]
<1>1. s \in Seq(Groups!Adjacencies) /\ (Len(s) = 0 \/ Len(s) = 1)
  BY AtMostOne
<1>2. PICK n \in Routers : nbrs[i] = {n} /\ \A k \in 1..Len(s) : s[k].nbr = n
  BY AtMostOne
<1>3. Groups!ToSet(s) = {s[k] : k \in 1..Len(s)}
  BY <1>1 DEF Groups!ToSet
<1>4. Nbrs(node, i) = {s[k].nbr : k \in 1..Len(s)}
  BY DEF Nbrs
<1>5. Groups!any_up(i) <=> \E k \in 1..Len(s) : s[k].state = "UP"
  BY <1>3 DEF Groups!any_up
<1>6. CASE Len(s) = 0
  <2>1. s = <<>> /\ 1..Len(s) = {}
    BY <1>1, <1>6
  <2> HIDE DEF s
  <2> QED
    BY <1>5, <2>1 DEF Groups!active, s
<1>7. CASE Len(s) = 1
  <2>1. s # <<>> /\ Head(s) = s[1] /\ 1..Len(s) = {1}
    <3> HIDE DEF s
    <3>1. s # <<>> /\ Head(s) = s[1]
      BY <1>1, <1>7
    <3>2. 1..1 = {1}
      OBVIOUS
    <3> QED
      BY <1>7, <3>1, <3>2
  <2>2. Groups!active(node, i) <=> s[1].state = "UP"
    BY <2>1 DEF Groups!active
  <2>3. Nbrs(node, i) = {n}
    <3> HIDE DEF s
    <3> QED
      BY <1>2, <1>4, <2>1
  <2> HIDE DEF s
  <2> QED
    BY <1>2, <1>5, <2>1, <2>2, <2>3
<1> QED
  BY <1>1, <1>6, <1>7

LEMMA FloodsDo == GroupInv => Groups!FloodsOnce
<1> SUFFICES ASSUME GroupInv, Groups!PointToPoint, ~disturbed
             PROVE  /\ \A g \in Groups!Names : Groups!Exists(node, g) =>
                         \A i \in Groups!ToSet(node.groups[g]) :
                           Groups!any_up(i) => Head(node.groups[g]) \in Groups!flooded(NoGroup)
                    /\ node.dyn =>
                         \A iif \in {j \in Groups!Intfs : Groups!Enabled(node, j) /\ Groups!any_up(j)} \union {NoGroup} :
                         \A n \in Routers :
                           LET live == {i \in Groups!Intfs : nbrs[i] = {n} /\ Groups!Enabled(node, i) /\ Groups!any_up(i)} IN
                           Groups!Cardinality(Groups!flooded(iif) \intersect live)
                             = IF live = {} \/ (iif # NoGroup /\ nbrs[iif] = {n}) THEN 0 ELSE 1
  BY DEF Groups!FloodsOnce
<1>1. TwoRouters
  BY DEF TwoRouters, Groups!PointToPoint
<1>2. /\ Good(node) /\ nbrs \in Links
      /\ node \in Node /\ Together(node, Groups!Intfs) /\ RunsProtocol(node)
      /\ LiveFirst(node, Groups!Intfs) /\ Placed(node)
  BY <1>1 DEF GroupInv, Good, GoodBut, Calm
<1> DEFINE alone(iif) == {i \in Groups!Intfs : Groups!Enabled(node, i) /\ i # iif /\ node.intf_grp[i] = NoGroup}
           exempt(iif) == IF iif = NoGroup THEN NoGroup ELSE node.intf_grp[iif]
           chosen(iif) == {g \in Groups!Names : Groups!Exists(node, g) /\ g # exempt(iif) /\ node.groups[g] # <<>>}
           heads(iif) == {Head(node.groups[g]) : g \in chosen(iif)}
<1>3. \A iif : Groups!flooded(iif) = alone(iif) \union {i \in heads(iif) : Groups!any_up(i)}
  BY DEF Groups!flooded
\* Members of a group: the first of them is up if any is.
<1>4. ASSUME NEW g \in Groups!Names, Groups!Exists(node, g), NEW i \in Els(node.groups[g])
      PROVE  /\ node.groups[g] # <<>> /\ i \in Groups!Intfs /\ Groups!Enabled(node, i) /\ node.intf_grp[i] = g
             /\ Head(node.groups[g]) \in Els(node.groups[g])
             /\ i = Head(node.groups[g]) \/ Before(node.groups[g], Head(node.groups[g]), i)
  <2> DEFINE s == node.groups[g]
  <2>1. s \in Seq(Groups!Intfs) /\ Els(s) \subseteq Groups!Intfs
    BY <1>2, <1>4, NodeHas, ElsAre
  <2>2. s # <<>>
    BY <1>4 DEF Els
  <2>3. Head(s) \in Els(s) /\ \A j \in Els(s) : j = Head(s) \/ Before(s, Head(s), j)
    <3> HIDE DEF s
    <3> QED
      BY <2>1, <2>2, HeadIs
  <2>4. i \in Groups!Intfs /\ InGroup(node, g, i)
    BY <1>4, <2>1 DEF InGroup
  <2>5. node.intf_grp[i] = g /\ Groups!Enabled(node, i)
    BY <1>2, <2>4, GroupsAre DEF Together, RunsProtocol
  <2> QED
    BY <1>4, <2>2, <2>3, <2>4, <2>5
<1>5. ASSUME NEW g \in Groups!Names, Groups!Exists(node, g), NEW i \in Els(node.groups[g]), Groups!any_up(i)
      PROVE  Groups!any_up(Head(node.groups[g]))
  <2> DEFINE h == Head(node.groups[g])
  <2>1. /\ h \in Els(node.groups[g]) /\ i \in Groups!Intfs /\ Groups!Enabled(node, i)
        /\ i = h \/ Before(node.groups[g], h, i)
    BY <1>4, <1>5
  <2>2. h \in Groups!Intfs /\ Groups!Enabled(node, h)
    BY <1>4, <1>5, <2>1
  <2> HIDE DEF h
  <2>3. Groups!active(node, i)
    BY <1>1, <1>2, <1>5, <2>1, UpIs
  <2>4. Groups!active(node, h)
    BY <1>2, <1>5, <2>1, <2>2, <2>3 DEF LiveFirst
  <2> QED
    BY <1>1, <1>2, <2>2, <2>4, UpIs DEF h
<1>6. ASSUME NEW g \in Groups!Names, Groups!Exists(node, g), NEW i \in Els(node.groups[g]), Groups!any_up(i),
             NEW iif, g # exempt(iif)
      PROVE  Head(node.groups[g]) \in Groups!flooded(iif)
  <2>1. g \in chosen(iif)
    BY <1>4, <1>6
  <2>2. Head(node.groups[g]) \in heads(iif)
    BY <2>1
  <2>3. Groups!any_up(Head(node.groups[g]))
    BY <1>5, <1>6
  <2> QED
    BY <1>3, <2>2, <2>3
<1> HIDE DEF alone, exempt, chosen, heads
<1>7. ASSUME NEW g \in Groups!Names, Groups!Exists(node, g), NEW i \in Groups!ToSet(node.groups[g]), Groups!any_up(i)
      PROVE  Head(node.groups[g]) \in Groups!flooded(NoGroup)
  <2>1. i \in Els(node.groups[g])
    BY <1>2, <1>7, ElsAre
  <2>2. g # exempt(NoGroup)
    BY GroupsAre DEF exempt
  <2> QED
    BY <1>6, <1>7, <2>1, <2>2
<1>8. ASSUME node.dyn, NEW i \in Groups!Intfs, Groups!Enabled(node, i), Groups!any_up(i)
      PROVE  node.intf_grp[i] \in Routers /\ nbrs[i] = {node.intf_grp[i]}
  <2>1. PICK n \in Routers : nbrs[i] = {n} /\ Nbrs(node, i) = {n}
    BY <1>1, <1>2, <1>8, UpIs
  <2> QED
    BY <1>2, <1>8, <2>1 DEF Placed
<1>9. ASSUME node.dyn,
             NEW iif \in {j \in Groups!Intfs : Groups!Enabled(node, j) /\ Groups!any_up(j)} \union {NoGroup},
             NEW n \in Routers
      PROVE  LET live == {i \in Groups!Intfs : nbrs[i] = {n} /\ Groups!Enabled(node, i) /\ Groups!any_up(i)} IN
             Groups!Cardinality(Groups!flooded(iif) \intersect live)
               = IF live = {} \/ (iif # NoGroup /\ nbrs[iif] = {n}) THEN 0 ELSE 1
  <2> DEFINE live == {i \in Groups!Intfs : nbrs[i] = {n} /\ Groups!Enabled(node, i) /\ Groups!any_up(i)}
             F == Groups!flooded(iif) \intersect live
  <2>0. n \in Groups!Names /\ n # NoGroup
    BY GroupsAre
  <2>1. exempt(iif) = n <=> iif # NoGroup /\ nbrs[iif] = {n}
    <3>1. CASE iif = NoGroup
      BY <2>0, <3>1 DEF exempt
    <3>2. CASE iif # NoGroup
      <4>1. nbrs[iif] = {node.intf_grp[iif]}
        BY <1>8, <1>9, <3>2
      <4> QED
        BY <3>2, <4>1 DEF exempt
    <3> QED
      BY <3>1, <3>2
  <2>2. ASSUME NEW i \in live PROVE node.intf_grp[i] = n /\ Groups!Exists(node, n) /\ i \in Els(node.groups[n])
    <3>1. nbrs[i] = {node.intf_grp[i]} /\ nbrs[i] = {n} /\ i \in Groups!Intfs
      BY <1>8, <1>9, <2>2
    <3>2. node.intf_grp[i] = n
      BY <3>1
    <3> QED
      BY <1>2, <2>0, <3>1, <3>2 DEF Together, InGroup
  <2>3. ASSUME NEW i \in F PROVE i = Head(node.groups[n]) /\ n # exempt(iif)
    <3>1. i \in live /\ node.intf_grp[i] = n
      BY <2>2, <2>3
    <3>2. i \notin alone(iif)
      BY <2>0, <3>1 DEF alone
    <3>3. i \in heads(iif)
      BY <1>3, <2>3, <3>2
    <3>4. PICK g \in chosen(iif) : i = Head(node.groups[g])
      BY <3>3 DEF heads
    <3>5. g \in Groups!Names /\ Groups!Exists(node, g) /\ g # exempt(iif) /\ node.groups[g] # <<>>
      BY <3>4 DEF chosen
    <3>6. i \in Els(node.groups[g])
      <4>1. node.groups[g] \in Seq(Groups!Intfs)
        BY <1>2, <3>5, NodeHas
      <4> QED
        BY <3>4, <3>5, <4>1, HeadIs
    <3>7. node.intf_grp[i] = g
      BY <1>4, <3>5, <3>6
    <3> QED
      BY <3>1, <3>4, <3>5, <3>7
  <2>4. ASSUME live # {}, n # exempt(iif) PROVE Head(node.groups[n]) \in F
    <3> DEFINE h == Head(node.groups[n])
    <3>1. PICK i \in live : TRUE
      BY <2>4
    <3>2. Groups!Exists(node, n) /\ i \in Els(node.groups[n]) /\ Groups!any_up(i)
      BY <2>2, <3>1
    <3>3. h \in Groups!flooded(iif)
      BY <1>6, <2>0, <2>4, <3>2
    <3>4. h \in Els(node.groups[n]) /\ Groups!any_up(h)
      BY <1>4, <1>5, <2>0, <3>2
    <3> HIDE DEF h
    <3>5. h \in Groups!Intfs /\ Groups!Enabled(node, h) /\ node.intf_grp[h] = n
      BY <1>4, <2>0, <3>2, <3>4
    <3>6. nbrs[h] = {n}
      BY <1>8, <1>9, <3>4, <3>5
    <3> QED
      BY <3>3, <3>4, <3>5, <3>6 DEF h
  <2>5. \A S : Groups!Cardinality(S) = Cardinality(S)
    BY DEF Groups!Cardinality, Cardinality, Groups!IsFiniteSet, IsFiniteSet
  <2>6. F = IF live = {} \/ n = exempt(iif) THEN {} ELSE {Head(node.groups[n])}
    <3>1. F \subseteq live
      OBVIOUS
    <3> HIDE DEF F, live
    <3> QED
      BY <2>3, <2>4, <3>1
  <2> HIDE DEF F, live
  <2>7. Groups!Cardinality(F) = IF live = {} \/ (iif # NoGroup /\ nbrs[iif] = {n}) THEN 0 ELSE 1
    <3>1. CASE live = {} \/ n = exempt(iif)
      BY <2>1, <2>5, <2>6, <3>1, FS_EmptySet
    <3>2. CASE ~(live = {} \/ n = exempt(iif))
      BY <2>1, <2>5, <2>6, <3>2, FS_Singleton
    <3> QED
      BY <3>1, <3>2
  <2> QED
    BY <2>7 DEF F, live
<1> QED
  BY <1>7, <1>9

\* isis_intf_group.c, isis_schedule_lsp_flood: interfaces and groups agree, a dynamic group
\* is there for a neighbour, no assertion fails when groups are switched or the protocol is
\* shut down, nor, on links of two routers until groups are disturbed, when an adjacency is
\* deleted; and on such links a flood reaches every neighbour that is up once.
THEOREM GroupsCorrect == Groups!Spec => []GroupsSound
<1>1. GroupInv /\ FailsOnlyThere => GroupsSound
  BY MembersDo, FloodsDo DEF GroupsSound, Groups!GroupsSound
<1>2. GroupInv /\ FailsOnlyThere /\ [Groups!Next]_(Groups!vars) => GroupInv' /\ FailsOnlyThere'
  BY GroupStepKeeps, FailsKeeps DEF Groups!vars, groupVars
<1>3. Groups!Init => GroupInv /\ FailsOnlyThere
  BY InitKeeps DEF Groups!Init, FailsOnlyThere
<1> QED
  BY <1>1, <1>2, <1>3, PTL DEF Groups!Spec
=============================================================================
