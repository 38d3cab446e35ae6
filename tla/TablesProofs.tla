---------------------------- MODULE TablesProofs ----------------------------
(***************************************************************************)
(* The ARP table for any number of addresses, packets and expiry jobs,     *)
(* timers of timerlib.c for any time, threshold and back-off, and the      *)
(* routing table for any number of routes, next hops and subscribers.      *)
(*                                                                         *)
(* ARP needs that an address has one entry, that whoever waits in an entry *)
(* is marked so and goes to its address, and that the address of an entry  *)
(* was announced, as far as strncpy and strncmp leave it.  A timer needs   *)
(* that the counter is that of the calls since it was set up, that the     *)
(* kernel timer is off unless it runs, and that a paused one holds the     *)
(* time that was left.  Routes need that of two changes of one destination *)
(* the newer stands first in the list to tell, and that the one picture    *)
(* for the flash is kept as long as there is a request.                    *)
(***************************************************************************)
EXTENDS RouteTable, ArpTable, LibTimer, SequenceTheorems, FiniteSetTheorems,
        WellFoundedInduction, TLAPS

\* What an entry f of the table owes the packets pk, the announced addresses an and
\* the latest ones la.
GoodEntry(f, pk, an, la) ==
  /\ f \in A!Fields
  /\ f.pending # <<>> => f.is_sane
  /\ A!IsInjective(f.pending)
  /\ \A p \in A!ToSet(f.pending) : pk[p].at = "pending" /\ pk[p].ip = f.ip_addr
  /\ ~f.is_sane => /\ la[f.ip_addr][f.proto] # NoMac
                   /\ Cut[f.mac_addr] = Cut[la[f.ip_addr][f.proto]]
  /\ ~f.is_sane \/ f.mac_addr # NoMac => A!Heard(an, f.ip_addr, f.mac_addr)

\* The address of a resolved entry, and whatever address an unresolved one has, was
\* announced, whole or cut: that is why frames carry announced addresses.
MacsKnown ==
  \A e \in A!Table : ~entry[e].is_sane \/ entry[e].mac_addr # NoMac =>
                       A!Heard(announced, entry[e].ip_addr, entry[e].mac_addr)

\* The same, entry by entry.
EntriesGood == \A e \in A!Table : GoodEntry(entry[e], pkt, announced, latest)
OneEach == \A e, f \in A!Table : entry[e].ip_addr = entry[f].ip_addr => e = f
Typed == /\ entry \in [Entries -> A!Fields \union {A!Freed}]
         /\ arp_jobs \in Seq(Entries)
         /\ pkt \in [Pkts -> A!PktFields]
         /\ announced \subseteq Ips \X Macs
         /\ latest \in [Ips -> [A!Protos -> Macs \union {NoMac}]]
NoneLost == \A p \in Pkts : pkt[p].at = "pending" => \E e \in A!Table : p \in A!ToSet(entry[e].pending)
ArpInv == Typed /\ EntriesGood /\ OneEach /\ NoneLost /\ A!RightMac

\* The invariant is what the run checks, and that addresses were announced.
LEMMA ArpInvIs == ASSUME A!ArpAssumption PROVE ArpInv <=> A!EntriesSound /\ MacsKnown
<1>1. Typed => \A e \in A!Table : entry[e] \in A!Fields
  BY DEF Typed, A!Table
<1>2. ASSUME Typed, NEW e \in A!Table
      PROVE  GoodEntry(entry[e], pkt, announced, latest) <=>
               /\ entry[e].pending # <<>> => entry[e].is_sane
               /\ A!IsInjective(entry[e].pending)
               /\ \A p \in A!ToSet(entry[e].pending) : pkt[p].at = "pending" /\ pkt[p].ip = entry[e].ip_addr
               /\ ~entry[e].is_sane =>
                    /\ latest[entry[e].ip_addr][entry[e].proto] # NoMac
                    /\ Cut[entry[e].mac_addr] = Cut[latest[entry[e].ip_addr][entry[e].proto]]
               /\ ~entry[e].is_sane \/ entry[e].mac_addr # NoMac =>
                    A!Heard(announced, entry[e].ip_addr, entry[e].mac_addr)
  BY <1>1, <1>2 DEF GoodEntry
<1>3. A!TypeOK <=> Typed /\ OneEach
  BY DEF A!TypeOK, Typed, OneEach
<1>4. CASE Typed
  BY <1>2, <1>3, <1>4 DEF ArpInv, A!EntriesSound, A!PendingExact, A!EntryIsLatest, MacsKnown, EntriesGood, NoneLost
<1> QED
  BY <1>3, <1>4 DEF ArpInv, A!EntriesSound

-----------------------------------------------------------------------------
(* Entries and lookups. *)

\* The table holds the entries that have their fields.
LEMMA TableIs ==
  ASSUME A!ArpAssumption, Typed
  PROVE  /\ A!Freed \notin A!Fields /\ A!Table \subseteq Entries
         /\ \A e \in A!Table : entry[e] \in A!Fields
         /\ NoMac \notin Entries /\ NoMac \notin Macs /\ NoMac \notin Ips
<1>1. A!Freed \notin A!Fields
  <2>1. \A f \in A!Fields : f.ip_addr \in Ips
    BY DEF A!Fields
  <2> QED
    BY <2>1 DEF A!Freed, A!ArpAssumption
<1> QED
  BY <1>1 DEF A!Table, Typed, A!ArpAssumption

\* What was announced stays so.
LEMMA HeardStays ==
  ASSUME NEW an, NEW bn, an \subseteq bn
  PROVE  \A ip, mac : A!Heard(an, ip, mac) => A!Heard(bn, ip, mac)
BY DEF A!Heard

\* arp_table_lookup finds the entry of an address.
LEMMA LookupIs ==
  ASSUME A!ArpAssumption, Typed, OneEach, NEW ip \in Ips
  PROVE  \/ A!Lookup(ip) = NoMac /\ \A e \in A!Table : entry[e].ip_addr # ip
         \/ /\ A!Lookup(ip) \in A!Table /\ entry[A!Lookup(ip)].ip_addr = ip
            /\ A!Lookup(ip) # NoMac
            /\ \A e \in A!Table : entry[e].ip_addr = ip => e = A!Lookup(ip)
<1>1. CASE \E e \in A!Table : entry[e].ip_addr = ip
  <2>1. A!Lookup(ip) \in A!Table /\ entry[A!Lookup(ip)].ip_addr = ip
    BY <1>1 DEF A!Lookup
  <2> QED
    BY <2>1, TableIs DEF OneEach
<1>2. CASE ~ \E e \in A!Table : entry[e].ip_addr = ip
  BY <1>2 DEF A!Lookup
<1> QED
  BY <1>1, <1>2

\* A new or changed entry f at e, where nobody else has its address, and what becomes of
\* the packets: those of f wait, and no other that waited is lost.
LEMMA PutKeeps ==
  ASSUME A!ArpAssumption, ArpInv, Typed', NEW e \in Entries, NEW f,
         entry' = [entry EXCEPT ![e] = f],
         GoodEntry(f, pkt', announced', latest'),
         \A d \in A!Table \ {e} :
           entry[d].ip_addr # f.ip_addr /\ GoodEntry(entry[d], pkt', announced', latest'),
         \A p \in Pkts : pkt'[p].at = "pending" =>
           p \in A!ToSet(f.pending) \/ \E d \in A!Table \ {e} : p \in A!ToSet(entry[d].pending),
         A!RightMac'
  PROVE  ArpInv'
<1>1. f \in A!Fields
  BY DEF GoodEntry
<1>2. /\ A!Table' = A!Table \union {e}
      /\ entry'[e] = f /\ \A d \in A!Table \ {e} : entry'[d] = entry[d]
  BY <1>1, TableIs DEF A!Table, ArpInv, Typed
<1>3. EntriesGood'
  BY <1>2 DEF EntriesGood
<1>4. OneEach'
  BY <1>2 DEF OneEach, ArpInv
<1>5. NoneLost'
  BY <1>2 DEF NoneLost
<1> QED
  BY <1>3, <1>4, <1>5 DEF ArpInv

\* delete_arp_entry: an entry goes, its packets are dropped.
LEMMA DeleteKeeps ==
  ASSUME A!ArpAssumption, ArpInv, NEW e \in A!Table, A!Delete(e),
         UNCHANGED announced, arp_jobs' \in Seq(Entries),
         latest' \in [Ips -> [A!Protos -> Macs \union {NoMac}]],
         \A d \in A!Table \ {e} : ~entry[d].is_sane =>
           latest'[entry[d].ip_addr][entry[d].proto] = latest[entry[d].ip_addr][entry[d].proto]
  PROVE  ArpInv'
<1> DEFINE gone == A!ToSet(entry[e].pending)
<1>0. Typed /\ EntriesGood /\ OneEach /\ NoneLost /\ A!RightMac /\ e \in Entries
  BY TableIs DEF ArpInv
<1>1. /\ entry' = [entry EXCEPT ![e] = A!Freed]
      /\ pkt' = [p \in Pkts |-> IF p \in gone THEN [pkt[p] EXCEPT !.at = "dropped"] ELSE pkt[p]]
  BY DEF A!Delete, A!dropped
<1> HIDE DEF gone
<1>2. Typed'
  BY <1>0, <1>1 DEF Typed, A!PktFields
<1>3. /\ A!Table' = A!Table \ {e}
      /\ \A d \in A!Table \ {e} : entry'[d] = entry[d]
  BY <1>0, <1>1 DEF A!Table, Typed
<1>4. \A d \in A!Table \ {e} : \A p \in A!ToSet(entry[d].pending) : p \in Pkts /\ p \notin gone
  <2>1. ASSUME NEW d \in A!Table \ {e}, NEW p \in A!ToSet(entry[d].pending) PROVE p \in Pkts /\ p \notin gone
    <3>1. entry[d] \in A!Fields
      BY <1>0, TableIs
    <3>2. p \in Pkts
      BY <2>1, <3>1 DEF A!Fields, A!ToSet
    <3>3. pkt[p].ip = entry[d].ip_addr /\ (p \in gone => pkt[p].ip = entry[e].ip_addr)
      BY <1>0, <2>1 DEF EntriesGood, GoodEntry, gone
    <3> QED
      BY <1>0, <2>1, <3>2, <3>3 DEF OneEach
  <2> QED
    BY <2>1
<1>5. EntriesGood'
  <2>1. ASSUME NEW d \in A!Table \ {e} PROVE GoodEntry(entry[d], pkt', announced', latest')
    BY <1>0, <1>1, <1>4, <2>1 DEF EntriesGood, GoodEntry
  <2> QED
    BY <1>3, <2>1 DEF EntriesGood
<1>6. OneEach'
  BY <1>0, <1>3 DEF OneEach
<1>7. NoneLost'
  <2>1. ASSUME NEW p \in Pkts, pkt'[p].at = "pending"
        PROVE  \E d \in A!Table \ {e} : p \in A!ToSet(entry[d].pending)
    <3>1. p \notin gone /\ pkt[p].at = "pending"
      BY <1>0, <1>1, <2>1 DEF Typed, A!PktFields
    <3> QED
      BY <1>0, <3>1 DEF NoneLost, gone
  <2> QED
    BY <1>3, <2>1 DEF NoneLost
<1>8. A!RightMac'
  BY <1>0, <1>1 DEF A!RightMac, Typed, A!PktFields
<1> QED
  BY <1>2, <1>5, <1>6, <1>7, <1>8 DEF ArpInv

-----------------------------------------------------------------------------
(* Handlers of the ARP table. *)

\* What is learnt about one address and protocol leaves the other entries good.
LEMMA AnnounceKeeps ==
  ASSUME A!ArpAssumption, ArpInv, NEW ip \in Ips, NEW mac \in Macs, NEW q \in A!Protos,
         A!Announce(ip, mac, q)
  PROVE  /\ announced' \subseteq Ips \X Macs
         /\ latest' \in [Ips -> [A!Protos -> Macs \union {NoMac}]]
         /\ announced \subseteq announced' /\ <<ip, mac>> \in announced' /\ latest'[ip][q] = mac
         /\ A!Heard(announced', ip, mac) /\ A!Heard(announced', ip, Cut[mac])
         /\ \A i, m : A!Heard(announced, i, m) => A!Heard(announced', i, m)
         /\ \A f \in A!Fields : f.ip_addr # ip \/ f.proto # q =>
              latest'[f.ip_addr][f.proto] = latest[f.ip_addr][f.proto]
<1>1. /\ announced' = announced \union {<<ip, mac>>}
      /\ latest' = [latest EXCEPT ![ip] = [latest[ip] EXCEPT ![q] = mac]]
      /\ announced \subseteq Ips \X Macs
      /\ latest \in [Ips -> [A!Protos -> Macs \union {NoMac}]]
  BY DEF A!Announce, ArpInv, Typed
<1>2. \A f \in A!Fields : f.ip_addr \in Ips /\ f.proto \in A!Protos
  BY DEF A!Fields
<1>3. A!Heard(announced', ip, mac) /\ A!Heard(announced', ip, Cut[mac])
  BY <1>1 DEF A!Heard
<1>4. \A i, m : A!Heard(announced, i, m) => A!Heard(announced', i, m)
  BY <1>1, HeardStays
<1>5. /\ announced' \subseteq Ips \X Macs
      /\ latest' \in [Ips -> [A!Protos -> Macs \union {NoMac}]]
      /\ announced \subseteq announced' /\ <<ip, mac>> \in announced' /\ latest'[ip][q] = mac
      /\ \A f \in A!Fields : f.ip_addr # ip \/ f.proto # q =>
           latest'[f.ip_addr][f.proto] = latest[f.ip_addr][f.proto]
  BY <1>1, <1>2
<1> QED
  BY <1>3, <1>4, <1>5, Zenon

\* arp_table_entry_add with what a reply or an adjacency has announced.
LEMMA AddKeeps ==
  ASSUME A!ArpAssumption, ArpInv, NEW ip \in Ips, NEW mac \in Macs, NEW q \in A!Protos,
         NEW flush \in BOOLEAN,
         A!EntryAdd(A!Full(ip, mac, q), flush), A!Announce(ip, mac, q), UNCHANGED arp_jobs
  PROVE  ArpInv'
<1> DEFINE new == A!Full(ip, mac, q)
           old == A!Lookup(ip)
<1>0. /\ Typed /\ EntriesGood /\ OneEach /\ NoneLost /\ A!RightMac
      /\ NoMac \notin Macs /\ NoMac \notin Ips
  BY TableIs DEF ArpInv
<1>1. new \in A!Fields /\ A!WithTimer(new) \in A!Fields
  <2>1. <<>> \in Seq(Pkts) /\ IntfOf[ip] \in A!Intfs /\ q \in A!Protos
    BY DEF A!Intfs
  <2>2. new \in A!Fields
    BY <2>1 DEF A!Full, A!Fields
  <2>3. \A f \in A!Fields : A!WithTimer(f) \in A!Fields
    BY DEF A!WithTimer, A!start_timer, A!Fields
  <2> QED
    BY <2>2, <2>3
<1>2. /\ new.ip_addr = ip /\ new.mac_addr = mac /\ new.proto = q /\ ~new.is_sane
      /\ new.pending = <<>> /\ A!WithTimer(new).ip_addr = ip /\ A!WithTimer(new).mac_addr = mac
      /\ A!WithTimer(new).proto = q /\ ~A!WithTimer(new).is_sane /\ A!WithTimer(new).pending = <<>>
  BY DEF A!Full, A!WithTimer, A!start_timer
<1>3. /\ announced' \subseteq Ips \X Macs
      /\ latest' \in [Ips -> [A!Protos -> Macs \union {NoMac}]]
      /\ announced \subseteq announced' /\ <<ip, mac>> \in announced' /\ latest'[ip][q] = mac
      /\ A!Heard(announced', ip, mac) /\ A!Heard(announced', ip, Cut[mac])
      /\ \A i, m : A!Heard(announced, i, m) => A!Heard(announced', i, m)
      /\ \A f \in A!Fields : f.ip_addr # ip \/ f.proto # q =>
           latest'[f.ip_addr][f.proto] = latest[f.ip_addr][f.proto]
  BY AnnounceKeeps
<1>4. GoodEntry(A!WithTimer(new), pkt', announced', latest')
  BY <1>0, <1>1, <1>2, <1>3 DEF GoodEntry, A!IsInjective, A!ToSet
<1>5. \A d \in A!Table : entry[d].ip_addr # ip => GoodEntry(entry[d], pkt, announced', latest')
  <2>1. ASSUME NEW d \in A!Table, entry[d].ip_addr # ip PROVE GoodEntry(entry[d], pkt, announced', latest')
    <3>1. GoodEntry(entry[d], pkt, announced, latest) /\ entry[d] \in A!Fields
      BY <1>0, TableIs DEF EntriesGood
    <3> QED
      BY <1>3, <2>1, <3>1 DEF GoodEntry
  <2> QED
    BY <2>1
<1>6. pkt' = pkt => A!RightMac'
  BY <1>0, <1>3, ZenonT(40) DEF A!RightMac
<1>7. A!FreeEntries \subseteq Entries /\ \A e \in A!FreeEntries : e \notin A!Table
  BY DEF A!FreeEntries
<1>8. \/ old = NoMac /\ \A e \in A!Table : entry[e].ip_addr # ip
      \/ /\ old \in A!Table /\ entry[old].ip_addr = ip /\ old # NoMac
         /\ \A e \in A!Table : entry[e].ip_addr = ip => e = old
  BY <1>0, LookupIs
<1> HIDE DEF new, old
<1>9. CASE old = NoMac /\ (\E e \in A!FreeEntries : entry' = [entry EXCEPT ![e] = A!WithTimer(new)]) /\ UNCHANGED pkt
  <2>1. PICK e \in A!FreeEntries : entry' = [entry EXCEPT ![e] = A!WithTimer(new)]
    BY <1>9
  <2>2. Typed'
    BY <1>0, <1>1, <1>3, <1>9, <2>1 DEF Typed
  <2>3. \A d \in A!Table \ {e} : entry[d].ip_addr # A!WithTimer(new).ip_addr /\ GoodEntry(entry[d], pkt', announced', latest')
    BY <1>2, <1>5, <1>8, <1>9
  <2>4. \A p \in Pkts : pkt'[p].at = "pending" => \E d \in A!Table \ {e} : p \in A!ToSet(entry[d].pending)
    BY <1>0, <1>7, <1>9, <2>1 DEF NoneLost
  <2> QED
    BY <1>4, <1>6, <1>7, <1>9, <2>1, <2>2, <2>3, <2>4, PutKeeps
<1>10. CASE old # NoMac /\ ~entry[old].is_sane /\ UNCHANGED <<entry, pkt>> /\
            (A!Equal(entry[old], new) \/ ~A!MayReplace(entry[old], new))
  <2>1. Typed'
    BY <1>0, <1>3, <1>10 DEF Typed
  <2>2. GoodEntry(entry[old], pkt', announced', latest')
    <3>1. entry[old] \in A!Fields /\ GoodEntry(entry[old], pkt, announced, latest)
      BY <1>0, <1>8, <1>10, TableIs DEF EntriesGood
    <3>2. entry[old].proto = q => Cut[entry[old].mac_addr] = Cut[mac]
      BY <1>2, <1>10 DEF A!Equal, A!MayReplace
    <3>3. A!Heard(announced', entry[old].ip_addr, entry[old].mac_addr)
      BY <1>3, <1>10, <3>1 DEF GoodEntry
    <3>4. latest'[ip][entry[old].proto] # NoMac /\ Cut[entry[old].mac_addr] = Cut[latest'[ip][entry[old].proto]]
      <4>1. CASE entry[old].proto = q
        BY <1>0, <1>3, <3>2, <4>1
      <4>2. CASE entry[old].proto # q
        BY <1>3, <1>8, <1>10, <3>1, <4>2 DEF GoodEntry
      <4> QED
        BY <4>1, <4>2
    <3> QED
      BY <1>8, <1>10, <3>1, <3>3, <3>4 DEF GoodEntry
  <2>3. EntriesGood'
    BY <1>5, <1>8, <1>10, <2>2 DEF EntriesGood, A!Table
  <2> QED
    BY <1>0, <1>6, <1>10, <2>1, <2>3 DEF ArpInv, OneEach, NoneLost, A!Table
<1>11. CASE /\ old # NoMac /\ ~entry[old].is_sane
            /\ (\E e \in A!FreeEntries : entry' = [entry EXCEPT ![old] = A!Freed, ![e] = A!WithTimer(new)])
            /\ pkt' = A!dropped(entry[old].pending)
  <2>0. old \in A!Table /\ old \in Entries
    BY <1>8, <1>11, <1>0, TableIs
  <2>1. PICK e \in A!FreeEntries : entry' = [entry EXCEPT ![old] = A!Freed, ![e] = A!WithTimer(new)]
    BY <1>11
  <2>2. entry[old].pending = <<>>
    BY <1>0, <1>11, <2>0 DEF EntriesGood, GoodEntry
  <2>3. pkt' = pkt
    BY <1>0, <1>11, <2>2 DEF A!dropped, A!ToSet, Typed
  <2>4. Typed'
    BY <1>0, <1>1, <1>3, <2>1, <2>3 DEF Typed
  <2>5. /\ A!Table' = (A!Table \ {old}) \union {e} /\ e # old /\ e \in Entries
        /\ entry'[e] = A!WithTimer(new) /\ \A d \in A!Table \ {old} : entry'[d] = entry[d] /\ d # e
    BY <1>0, <1>1, <1>7, <2>0, <2>1, TableIs DEF A!Table, Typed
  <2>6. EntriesGood'
    BY <1>4, <1>5, <1>8, <1>11, <2>3, <2>5 DEF EntriesGood
  <2>7. OneEach'
    BY <1>0, <1>2, <1>8, <1>11, <2>5 DEF OneEach
  <2>8. NoneLost'
    <3>1. ASSUME NEW p \in Pkts, pkt[p].at = "pending"
          PROVE  \E d \in A!Table \ {old} : p \in A!ToSet(entry[d].pending)
      BY <1>0, <2>2, <3>1 DEF NoneLost, A!ToSet
    <3> QED
      BY <2>3, <2>5, <3>1 DEF NoneLost
  <2> QED
    BY <1>6, <2>3, <2>4, <2>6, <2>7, <2>8 DEF ArpInv
<1>12. CASE /\ old # NoMac /\ entry[old].is_sane
            /\ LET f == A!CopyInto(entry[old], new) IN
               /\ entry' = [entry EXCEPT ![old] = IF flush THEN A!Resolve(f) ELSE f]
               /\ pkt' = IF flush THEN A!sent(f.pending, f.mac_addr) ELSE pkt
  <2> DEFINE f == A!CopyInto(entry[old], new)
             g == A!Resolve(f)
             out == A!ToSet(f.pending)
             cut == Cut[mac]
  <2>0. old \in A!Table /\ old \in Entries /\ entry[old] \in A!Fields /\ GoodEntry(entry[old], pkt, announced, latest)
    BY <1>0, <1>8, <1>12, TableIs DEF EntriesGood
  <2>1. /\ f \in A!Fields /\ f.ip_addr = ip /\ f.mac_addr = cut /\ f.proto = q /\ f.is_sane
        /\ f.pending = entry[old].pending /\ cut \in Macs \union {NoMac} /\ Cut[cut] = Cut[mac]
    BY <1>0, <1>1, <1>2, <1>8, <1>12, <2>0 DEF A!CopyInto, A!refresh, A!start_timer, A!Fields, A!ArpAssumption
  <2>2. /\ g \in A!Fields /\ g.ip_addr = ip /\ g.mac_addr = cut /\ g.proto = q /\ ~g.is_sane
        /\ g.pending = <<>>
    <3>1. <<>> \in Seq(Pkts)
      OBVIOUS
    <3>2. g = [f EXCEPT !.is_sane = FALSE, !.pending = <<>>]
      BY DEF A!Resolve
    <3> HIDE DEF f, g
    <3> QED
      BY <2>1, <3>1, <3>2 DEF A!Fields
  <2>3. /\ entry' = [entry EXCEPT ![old] = IF flush THEN g ELSE f]
        /\ pkt' = IF flush THEN [p \in Pkts |-> IF p \in out THEN [pkt[p] EXCEPT !.at = "sent", !.mac = cut] ELSE pkt[p]]
                  ELSE pkt
    BY <1>12, <2>1 DEF A!sent
  <2>4. \A p \in out : p \in Pkts /\ pkt[p].at = "pending" /\ pkt[p].ip = ip
    BY <1>8, <1>12, <2>0, <2>1 DEF GoodEntry, A!Fields, A!ToSet
  <2> HIDE DEF f, g, out, cut
  <2>5. Typed'
    <3>1. entry' \in [Entries -> A!Fields \union {A!Freed}]
      BY <1>0, <2>0, <2>1, <2>2, <2>3 DEF Typed
    <3>2. pkt' \in [Pkts -> A!PktFields]
      <4>0. cut \in Macs \union {NoMac}
        BY <2>1
      <4>1. \A p \in Pkts : [pkt[p] EXCEPT !.at = "sent", !.mac = cut] \in A!PktFields
        BY <1>0, <4>0 DEF Typed, A!PktFields
      <4> QED
        BY <1>0, <2>3, <4>1 DEF Typed
    <3> QED
      BY <1>0, <1>3, <3>1, <3>2 DEF Typed
  <2>6. \A d \in A!Table \ {old} : entry[d].ip_addr # ip /\ GoodEntry(entry[d], pkt', announced', latest')
    <3>1. ASSUME NEW d \in A!Table \ {old} PROVE entry[d].ip_addr # ip /\ GoodEntry(entry[d], pkt', announced', latest')
      <4>1. entry[d].ip_addr # ip /\ GoodEntry(entry[d], pkt, announced', latest') /\ entry[d] \in A!Fields
        BY <1>0, <1>5, <1>8, <1>12, <3>1, TableIs
      <4>2. \A p \in A!ToSet(entry[d].pending) : p \in Pkts /\ p \notin out
        BY <2>4, <4>1 DEF GoodEntry, A!Fields, A!ToSet
      <4> QED
        BY <2>3, <4>1, <4>2 DEF GoodEntry
    <3> QED
      BY <3>1
  <2>7. A!RightMac'
    <3>1. ASSUME NEW p \in Pkts, pkt'[p].at = "sent"
          PROVE  \/ A!Heard(announced', pkt'[p].ip, pkt'[p].mac)
                 \/ pkt'[p].mac = NoMac /\ pkt'[p].oif_known
      <4>1. CASE flush /\ p \in out
        <5>1. pkt'[p].ip = ip /\ pkt'[p].mac = cut
          BY <1>0, <2>3, <2>4, <4>1 DEF Typed, A!PktFields
        <5>2. A!Heard(announced', ip, cut)
          BY <1>3 DEF cut
        <5> QED
          BY <5>1, <5>2
      <4>2. CASE ~(flush /\ p \in out)
        BY <1>0, <1>3, <2>3, <3>1, <4>2 DEF A!RightMac
      <4> QED
        BY <4>1, <4>2
    <3> QED
      BY <3>1 DEF A!RightMac
  <2>8. CASE flush
    <3>1. GoodEntry(g, pkt', announced', latest')
      BY <1>0, <1>3, <2>1, <2>2 DEF GoodEntry, A!IsInjective, A!ToSet, cut
    <3>2. ASSUME NEW p \in Pkts, pkt'[p].at = "pending"
          PROVE  \E d \in A!Table \ {old} : p \in A!ToSet(entry[d].pending)
      <4>1. p \notin out /\ pkt[p].at = "pending"
        BY <1>0, <2>3, <2>8, <3>2 DEF Typed, A!PktFields
      <4> QED
        BY <1>0, <2>1, <4>1 DEF NoneLost, out
    <3> QED
      BY <2>0, <2>2, <2>3, <2>5, <2>6, <2>7, <2>8, <3>1, <3>2, PutKeeps
  <2>9. CASE ~flush
    <3>1. GoodEntry(f, pkt', announced', latest')
      BY <1>0, <1>3, <1>8, <1>12, <2>0, <2>1, <2>3, <2>9 DEF GoodEntry, cut
    <3>2. ASSUME NEW p \in Pkts, pkt'[p].at = "pending"
          PROVE  p \in A!ToSet(f.pending) \/ \E d \in A!Table \ {old} : p \in A!ToSet(entry[d].pending)
      BY <1>0, <2>1, <2>3, <2>9, <3>2 DEF NoneLost
    <3> QED
      BY <2>0, <2>1, <2>3, <2>5, <2>6, <2>7, <2>9, <3>1, <3>2, PutKeeps, ZenonT(40)
  <2> QED
    BY <2>8, <2>9
<1> QED
  BY <1>2, <1>9, <1>10, <1>11, <1>12 DEF A!EntryAdd, new, old

\* isis_update_layer2_mapping_on_adjacency_down
LEMMA AdjacencyDownKeeps ==
  ASSUME A!ArpAssumption, ArpInv, NEW ip \in Ips, A!AdjacencyDown(ip)
  PROVE  ArpInv'
<1>0. /\ Typed /\ EntriesGood /\ OneEach /\ NoneLost /\ A!RightMac
      /\ NoMac \notin Macs /\ NoMac \notin Entries
  BY TableIs DEF ArpInv
<1> DEFINE e == A!Lookup(ip)
<1>1. /\ latest' = [latest EXCEPT ![ip] = [latest[ip] EXCEPT !["ISIS"] = NoMac]]
      /\ arp_jobs' = arp_jobs /\ announced' = announced
      /\ IF e = NoMac \/ entry[e].proto # "ISIS" THEN UNCHANGED <<entry, pkt>> ELSE A!Delete(e)
  BY <1>0 DEF A!AdjacencyDown, Typed
<1>2. /\ latest' \in [Ips -> [A!Protos -> Macs \union {NoMac}]]
      /\ \A f \in A!Fields : f.ip_addr # ip \/ f.proto # "ISIS" =>
           latest'[f.ip_addr][f.proto] = latest[f.ip_addr][f.proto]
  <2>1. \A f \in A!Fields : f.ip_addr \in Ips /\ f.proto \in A!Protos
    BY DEF A!Fields
  <2> QED
    BY <1>0, <1>1, <2>1 DEF Typed, A!Protos
<1>3. \/ e = NoMac /\ \A d \in A!Table : entry[d].ip_addr # ip
      \/ /\ e \in A!Table /\ e # NoMac
         /\ \A d \in A!Table : entry[d].ip_addr = ip => d = e
  BY <1>0, LookupIs
<1> HIDE DEF e
<1>4. CASE e = NoMac \/ entry[e].proto # "ISIS"
  <2>1. \A d \in A!Table : GoodEntry(entry[d], pkt, announced, latest')
    <3>1. ASSUME NEW d \in A!Table PROVE GoodEntry(entry[d], pkt, announced, latest')
      <4>1. GoodEntry(entry[d], pkt, announced, latest) /\ entry[d] \in A!Fields
            /\ (entry[d].ip_addr # ip \/ entry[d].proto # "ISIS")
        BY <1>0, <1>3, <1>4, TableIs DEF EntriesGood
      <4> QED
        BY <1>2, <4>1 DEF GoodEntry
    <3> QED
      BY <3>1
  <2>2. entry' = entry /\ pkt' = pkt
    BY <1>1, <1>4
  <2>3. Typed' /\ EntriesGood'
    BY <1>0, <1>1, <1>2, <2>1, <2>2 DEF Typed, EntriesGood, A!Table
  <2> QED
    BY <1>0, <1>1, <2>2, <2>3 DEF ArpInv, OneEach, NoneLost, A!RightMac, A!Table
<1>5. CASE e # NoMac /\ entry[e].proto = "ISIS"
  <2>1. \A d \in A!Table \ {e} : latest'[entry[d].ip_addr][entry[d].proto] = latest[entry[d].ip_addr][entry[d].proto]
    BY <1>0, <1>2, <1>3, <1>5, TableIs
  <2>2. arp_jobs' \in Seq(Entries)
    BY <1>0, <1>1 DEF Typed
  <2> QED
    BY <1>1, <1>2, <1>3, <1>5, <2>1, <2>2, DeleteKeeps
<1> QED
  BY <1>4, <1>5

\* l2_forward_ip_packet, create_arp_sane_entry, l2_frame_prepare
LEMMA ForwardKeeps ==
  ASSUME A!ArpAssumption, ArpInv, NEW p \in Pkts, NEW ip \in Ips, NEW oif_known \in BOOLEAN,
         A!Forward(p, ip, oif_known)
  PROVE  ArpInv'
<1> DEFINE e == A!Lookup(ip)
           waits == [at |-> "pending", ip |-> ip, oif_known |-> oif_known, mac |-> NoMac]
<1>0. /\ Typed /\ EntriesGood /\ OneEach /\ NoneLost /\ A!RightMac
      /\ NoMac \notin Macs /\ NoMac \notin Entries /\ A!Table \subseteq Entries
      /\ \A d \in A!Table : entry[d] \in A!Fields
  BY TableIs DEF ArpInv
<1>1. arp_jobs' = arp_jobs /\ announced' = announced /\ latest' = latest /\ pkt[p].at = "L3"
  BY DEF A!Forward
<1>2. \/ e = NoMac /\ \A d \in A!Table : entry[d].ip_addr # ip
      \/ /\ e \in A!Table /\ entry[e].ip_addr = ip /\ e # NoMac
         /\ \A d \in A!Table : entry[d].ip_addr = ip => d = e
  BY <1>0, LookupIs
<1>3. \A d \in A!Table : p \notin A!ToSet(entry[d].pending)
  BY <1>0, <1>1 DEF EntriesGood, GoodEntry
<1>4. /\ A!FreeEntries \subseteq Entries /\ \A d \in A!FreeEntries : d \notin A!Table
      /\ p \in Pkts
  BY DEF A!FreeEntries
\* What happens to p alone concerns no entry in which it does not wait.
<1>5. ASSUME NEW w, pkt' = [pkt EXCEPT ![p] = w]
      PROVE  \A d \in A!Table : GoodEntry(entry[d], pkt', announced', latest')
  <2>1. ASSUME NEW d \in A!Table PROVE GoodEntry(entry[d], pkt', announced', latest')
    <3>1. GoodEntry(entry[d], pkt, announced, latest)
      BY <1>0 DEF EntriesGood
    <3>2. \A x \in A!ToSet(entry[d].pending) : x \in Pkts /\ x # p
      BY <1>0, <1>3, <2>1 DEF A!Fields, A!ToSet
    <3>3. \A x \in A!ToSet(entry[d].pending) : pkt'[x] = pkt[x]
      BY <1>0, <1>5, <3>2 DEF Typed
    <3> QED
      BY <1>1, <3>1, <3>3 DEF GoodEntry
  <2> QED
    BY <2>1
<1>6. CASE A!MustResolve(e, oif_known) /\ A!CreateSane(e, ip, p) /\ pkt' = [pkt EXCEPT ![p] = waits]
  <2>1. pkt' \in [Pkts -> A!PktFields] /\ pkt'[p] = waits /\ \A x \in Pkts \ {p} : pkt'[x] = pkt[x]
    BY <1>0, <1>6 DEF Typed, A!PktFields
  <2>2. A!RightMac'
    BY <1>0, <1>1, <2>1 DEF A!RightMac
  <2>3. CASE e = NoMac
    <3> DEFINE f == A!Sane(ip, p)
    <3>1. PICK n \in A!FreeEntries : entry' = [entry EXCEPT ![n] = f]
      BY <1>6, <2>3 DEF A!CreateSane
    <3>2. <<p>> \in Seq(Pkts)
      BY <1>4
    <3>3. f \in A!Fields
      BY <3>2 DEF A!Sane, A!Fields, A!Protos
    <3>4. f.ip_addr = ip /\ f.pending = <<p>> /\ f.is_sane /\ f.mac_addr = NoMac
      BY DEF A!Sane
    <3> HIDE DEF f
    <3>5. p \in A!ToSet(f.pending) /\ \A x \in A!ToSet(f.pending) : x = p
      BY <3>4 DEF A!ToSet
    <3>6. GoodEntry(f, pkt', announced', latest')
      BY <2>1, <3>3, <3>4, <3>5 DEF GoodEntry, A!IsInjective
    <3>7. Typed'
      BY <1>0, <1>1, <2>1, <3>1, <3>3 DEF Typed
    <3>8. ASSUME NEW x \in Pkts, pkt'[x].at = "pending"
          PROVE  x \in A!ToSet(f.pending) \/ \E d \in A!Table \ {n} : x \in A!ToSet(entry[d].pending)
      <4>1. CASE x = p
        BY <3>5, <4>1
      <4>2. CASE x # p
        BY <1>0, <1>4, <2>1, <3>8, <4>2 DEF NoneLost
      <4> QED
        BY <4>1, <4>2
    <3>9. \A d \in A!Table \ {n} : entry[d].ip_addr # f.ip_addr /\ GoodEntry(entry[d], pkt', announced', latest')
      BY <1>2, <1>5, <1>6, <2>3, <3>4
    <3> QED
      BY <1>4, <2>2, <3>1, <3>6, <3>7, <3>8, <3>9, PutKeeps
  <2>4. CASE e # NoMac
    <3> DEFINE f == A!refresh([entry[e] EXCEPT !.pending = <<p>> \o @])
    <3>1. entry' = [entry EXCEPT ![e] = f]
      BY <1>6, <2>4 DEF A!CreateSane
    <3>2. e \in A!Table /\ e \in Entries /\ entry[e] \in A!Fields /\ entry[e].is_sane
          /\ GoodEntry(entry[e], pkt', announced', latest')
      BY <1>0, <1>2, <1>5, <1>6, <2>4 DEF A!MustResolve
    <3>3. entry[e].pending \in Seq(Pkts) /\ <<p>> \o entry[e].pending \in Seq(Pkts)
      BY <1>4, <3>2 DEF A!Fields
    <3>4. /\ f \in A!Fields /\ f.ip_addr = ip /\ f.pending = <<p>> \o entry[e].pending /\ f.is_sane
          /\ f.mac_addr = entry[e].mac_addr
      BY <1>2, <2>4, <3>2, <3>3 DEF A!refresh, A!start_timer, A!Fields
    <3> HIDE DEF f
    <3>5. A!ToSet(f.pending) = {p} \union A!ToSet(entry[e].pending) /\ A!IsInjective(f.pending)
      <4>1. DEFINE s == entry[e].pending
                   t == <<p>> \o s
      <4>2. /\ s \in Seq(Pkts) /\ t \in Seq(Pkts) /\ Len(t) = Len(s) + 1 /\ t[1] = p
            /\ \A i \in 1..Len(s) : t[i + 1] = s[i]
            /\ \A i \in 2..Len(t) : t[i] = s[i - 1]
            /\ DOMAIN t = 1..Len(t) /\ DOMAIN s = 1..Len(s) /\ Len(s) \in Nat
        BY <1>4, <3>3
      <4>3. \A i \in 1..Len(s) : s[i] # p
        BY <1>3, <3>2, <4>2 DEF A!ToSet
      <4>4. \A i, j \in 1..Len(s) : s[i] = s[j] => i = j
        BY <3>2, <4>2 DEF GoodEntry, A!IsInjective
      <4> HIDE DEF s, t
      <4>5. A!IsInjective(t)
        <5>1. ASSUME NEW i \in 1..Len(t), NEW j \in 1..Len(t), t[i] = t[j] PROVE i = j
          <6>1. CASE i = 1 /\ j # 1
            BY <4>2, <4>3, <5>1, <6>1
          <6>2. CASE i # 1 /\ j = 1
            BY <4>2, <4>3, <5>1, <6>2
          <6>3. CASE i # 1 /\ j # 1
            BY <4>2, <4>4, <5>1, <6>3
          <6> QED
            BY <6>1, <6>2, <6>3
        <5> QED
          BY <4>2, <5>1 DEF A!IsInjective
      <4>6. A!ToSet(t) = {p} \union A!ToSet(s)
        <5>1. ASSUME NEW i \in 1..Len(t) PROVE t[i] \in {p} \union A!ToSet(s)
          <6>1. CASE i = 1
            BY <4>2, <6>1
          <6>2. CASE i # 1
            <7>1. i - 1 \in 1..Len(s) /\ t[i] = s[i - 1]
              BY <4>2, <6>2
            <7> QED
              BY <4>2, <7>1 DEF A!ToSet
          <6> QED
            BY <6>1, <6>2
        <5>2. 1 \in 1..Len(t) /\ \A i \in 1..Len(s) : i + 1 \in 1..Len(t)
          BY <4>2
        <5>3. p \in A!ToSet(t) /\ \A i \in 1..Len(s) : s[i] \in A!ToSet(t)
          BY <4>2, <5>2 DEF A!ToSet
        <5> QED
          BY <4>2, <5>1, <5>3 DEF A!ToSet
      <4> QED
        BY <3>4, <4>5, <4>6 DEF s, t
    <3>6. GoodEntry(f, pkt', announced', latest')
      <4>1. \A x \in A!ToSet(f.pending) : pkt'[x].at = "pending" /\ pkt'[x].ip = ip
        BY <1>2, <2>1, <2>4, <3>2, <3>5 DEF GoodEntry
      <4> QED
        BY <1>2, <2>4, <3>2, <3>4, <3>5, <4>1 DEF GoodEntry
    <3>7. Typed'
      BY <1>0, <1>1, <2>1, <3>1, <3>4 DEF Typed
    <3>8. ASSUME NEW x \in Pkts, pkt'[x].at = "pending"
          PROVE  x \in A!ToSet(f.pending) \/ \E d \in A!Table \ {e} : x \in A!ToSet(entry[d].pending)
      BY <1>0, <2>1, <3>5, <3>8 DEF NoneLost
    <3>9. \A d \in A!Table \ {e} : entry[d].ip_addr # f.ip_addr /\ GoodEntry(entry[d], pkt', announced', latest')
      BY <1>2, <1>5, <1>6, <2>4, <3>4
    <3> QED
      BY <2>2, <3>1, <3>2, <3>6, <3>7, <3>8, <3>9, PutKeeps
  <2> QED
    BY <2>3, <2>4
<1>7. CASE /\ ~A!MustResolve(e, oif_known)
           /\ entry' = [entry EXCEPT ![e] = A!refresh(@)]
           /\ pkt' = [pkt EXCEPT ![p] = [at |-> "sent", ip |-> ip, oif_known |-> oif_known,
                                         mac |-> entry[e].mac_addr]]
  <2> DEFINE f == A!refresh(entry[e])
             gone == [at |-> "sent", ip |-> ip, oif_known |-> oif_known, mac |-> entry[e].mac_addr]
  <2>1. /\ e \in A!Table /\ e \in Entries /\ entry[e] \in A!Fields /\ e # NoMac
        /\ (~oif_known => ~entry[e].is_sane) /\ GoodEntry(entry[e], pkt', announced', latest')
    BY <1>0, <1>2, <1>5, <1>7 DEF A!MustResolve
  <2>2. /\ f \in A!Fields /\ f.ip_addr = ip /\ f.pending = entry[e].pending /\ f.proto = entry[e].proto
        /\ f.is_sane = entry[e].is_sane /\ f.mac_addr = entry[e].mac_addr
    BY <1>2, <2>1 DEF A!refresh, A!start_timer, A!Fields
  <2>3. entry' = [entry EXCEPT ![e] = f]
    BY <1>0, <1>7, <2>1 DEF Typed
  <2>4. gone \in A!PktFields
    BY <2>1 DEF A!PktFields, A!Fields
  <2>5. pkt' \in [Pkts -> A!PktFields] /\ pkt'[p] = gone /\ \A x \in Pkts \ {p} : pkt'[x] = pkt[x]
    BY <1>0, <1>7, <2>4 DEF Typed
  <2>6. A!RightMac'
    <3>1. A!Heard(announced, ip, entry[e].mac_addr) \/ (entry[e].mac_addr = NoMac /\ oif_known)
      BY <1>1, <1>2, <2>1 DEF GoodEntry
    <3> QED
      BY <1>0, <1>1, <2>5, <3>1 DEF A!RightMac
  <2> HIDE DEF f
  <2>7. GoodEntry(f, pkt', announced', latest')
    BY <1>2, <2>1, <2>2 DEF GoodEntry
  <2>8. Typed'
    BY <1>0, <1>1, <2>1, <2>2, <2>3, <2>5 DEF Typed
  <2>9. ASSUME NEW x \in Pkts, pkt'[x].at = "pending"
        PROVE  x \in A!ToSet(f.pending) \/ \E d \in A!Table \ {e} : x \in A!ToSet(entry[d].pending)
    BY <1>0, <2>2, <2>5, <2>9 DEF NoneLost
  <2>10. \A d \in A!Table \ {e} : entry[d].ip_addr # f.ip_addr /\ GoodEntry(entry[d], pkt', announced', latest')
    BY <1>2, <1>5, <1>7, <2>1, <2>2
  <2> QED
    BY <2>1, <2>3, <2>6, <2>7, <2>8, <2>9, <2>10, PutKeeps
<1> QED
  BY <1>6, <1>7 DEF A!Forward

\* The wheel fires, and the job with the entry's address is queued.
LEMMA TimerExpiresKeeps ==
  ASSUME A!ArpAssumption, ArpInv, NEW e \in Entries, A!TimerExpires(e)
  PROVE  ArpInv'
<1> DEFINE f == [entry[e] EXCEPT !.exp_timer = "expired"]
<1>0. /\ Typed /\ EntriesGood /\ OneEach /\ NoneLost /\ A!RightMac
      /\ e \in A!Table /\ entry[e] \in A!Fields /\ GoodEntry(entry[e], pkt, announced, latest)
  BY TableIs DEF ArpInv, A!TimerExpires, EntriesGood
<1>1. /\ entry' = [entry EXCEPT ![e] = f] /\ arp_jobs' = Append(arp_jobs, e)
      /\ pkt' = pkt /\ announced' = announced /\ latest' = latest
  BY DEF A!TimerExpires
<1>2. /\ f \in A!Fields /\ f.ip_addr = entry[e].ip_addr /\ f.pending = entry[e].pending
      /\ f.proto = entry[e].proto /\ f.is_sane = entry[e].is_sane /\ f.mac_addr = entry[e].mac_addr
  BY <1>0 DEF A!Fields
<1> HIDE DEF f
<1>3. arp_jobs' \in Seq(Entries)
  BY <1>0, <1>1 DEF Typed
<1>4. Typed'
  BY <1>0, <1>1, <1>2, <1>3 DEF Typed
<1>5. GoodEntry(f, pkt', announced', latest')
  BY <1>0, <1>1, <1>2 DEF GoodEntry
<1>6. \A d \in A!Table \ {e} : entry[d].ip_addr # f.ip_addr /\ GoodEntry(entry[d], pkt', announced', latest')
  BY <1>0, <1>1, <1>2 DEF OneEach, EntriesGood
<1>7. A!RightMac' /\ \A p \in Pkts : pkt'[p].at = "pending" =>
        p \in A!ToSet(f.pending) \/ \E d \in A!Table \ {e} : p \in A!ToSet(entry[d].pending)
  BY <1>0, <1>1, <1>2 DEF A!RightMac, NoneLost
<1> QED
  BY <1>1, <1>4, <1>5, <1>6, <1>7, PutKeeps

\* arp_entry_timer_delete_cbk
LEMMA ExpiryJobKeeps ==
  ASSUME A!ArpAssumption, ArpInv, A!ExpiryJob
  PROVE  ArpInv'
<1>0. Typed /\ EntriesGood /\ OneEach /\ NoneLost /\ A!RightMac
  BY DEF ArpInv
<1>1. announced' = announced /\ latest' = latest /\ arp_jobs' \in Seq(Entries)
      /\ latest' \in [Ips -> [A!Protos -> Macs \union {NoMac}]]
  <2>1. arp_jobs \in Seq(Entries) /\ arp_jobs # <<>> /\ arp_jobs' = Tail(arp_jobs)
    BY <1>0 DEF A!ExpiryJob, Typed
  <2>2. Tail(arp_jobs) \in Seq(Entries)
    BY <2>1
  <2> QED
    BY <1>0, <2>1, <2>2 DEF A!ExpiryJob, Typed
<1>2. CASE Head(arp_jobs) \in A!Table
  BY <1>1, <1>2, DeleteKeeps DEF A!ExpiryJob
<1>3. CASE Head(arp_jobs) \notin A!Table
  <2>1. entry' = entry /\ pkt' = pkt
    BY <1>3 DEF A!ExpiryJob
  <2>2. Typed'
    BY <1>0, <1>1, <2>1 DEF Typed
  <2> QED
    BY <1>0, <1>1, <2>1, <2>2 DEF ArpInv, EntriesGood, OneEach, NoneLost, A!RightMac, A!Table
<1> QED
  BY <1>2, <1>3

\* Every step of the ARP table keeps the invariant.
LEMMA ArpNext == A!ArpAssumption /\ ArpInv /\ [A!Next]_A!vars => ArpInv'
<1> SUFFICES ASSUME A!ArpAssumption, ArpInv, [A!Next]_A!vars PROVE ArpInv'
  OBVIOUS
<1>1. ASSUME NEW ip \in Ips, NEW mac \in Macs, A!ArpReply(ip, mac) PROVE ArpInv'
  BY <1>1, AddKeeps DEF A!ArpReply, A!Protos
<1>2. ASSUME NEW ip \in Ips, NEW mac \in Macs, A!AdjacencyUp(ip, mac) PROVE ArpInv'
  BY <1>2, AddKeeps DEF A!AdjacencyUp, A!Protos
<1>3. ASSUME NEW ip \in Ips, A!AdjacencyDown(ip) PROVE ArpInv'
  BY <1>3, AdjacencyDownKeeps
<1>4. ASSUME NEW p \in Pkts, NEW ip \in Ips, NEW oif_known \in BOOLEAN, A!Forward(p, ip, oif_known)
      PROVE  ArpInv'
  BY <1>4, ForwardKeeps
<1>5. ASSUME NEW e \in Entries, A!TimerExpires(e) PROVE ArpInv'
  BY <1>5, TimerExpiresKeeps
<1>6. CASE A!ExpiryJob
  BY <1>6, ExpiryJobKeeps
<1>7. CASE UNCHANGED A!vars
  BY <1>7 DEF A!vars, ArpInv, Typed, EntriesGood, OneEach, NoneLost, A!RightMac, A!Table
<1> QED
  BY <1>1, <1>2, <1>3, <1>4, <1>5, <1>6, <1>7 DEF A!Next

\* At first the table is empty.
LEMMA ArpInit == A!Init => ArpInv
<1> SUFFICES ASSUME A!Init PROVE ArpInv
  OBVIOUS
<1>1. A!Table = {}
  BY DEF A!Init, A!Table
<1>2. Typed
  BY DEF Typed, A!Init, A!PktFields
<1>3. \A p \in Pkts : pkt[p].at = "L3"
  BY DEF A!Init
<1> QED
  BY <1>1, <1>2, <1>3 DEF ArpInv, EntriesGood, OneEach, NoneLost, A!RightMac

\* arp_table_entry_add, arp_table_update_from_arp_reply, arp_entry_delete: in every order
\* of replies, adjacencies, packets and expiry jobs, an address has one entry, packets
\* wait in one unresolved entry, a resolved one says the latest of its owner, and frames
\* carry what was announced, the two up to the first zero byte of a MAC address.
THEOREM ArpCorrect ==
  ASSUME A!ArpAssumption
  PROVE  A!Spec => []EntriesSound
<1>1. ArpInv => EntriesSound
  BY ArpInvIs DEF EntriesSound
<1>2. ArpInv /\ [A!Next]_A!vars => ArpInv'
  BY ArpNext
<1> QED
  BY ArpInit, <1>1, <1>2, PTL DEF A!Spec

-----------------------------------------------------------------------------
(* The timer library. *)

TimerStates == {"INIT", "RUNNING", "CANCELLED", "PAUSED", "RESUMED", "DELETED"}

TimerTyped ==
  /\ config \in Configs
  /\ timer \in [state : TimerStates, value : Nat, interval : Nat, remaining : Nat,
                counter : Nat, backoff_time : Nat]
  /\ kernel \in [value : Nat, interval : Nat]
  /\ calls \in Nat
  /\ thread \in {"none", "entry", "callback"}

\* The calls are counted by the counter, unless it counts for a timer that is gone; and
\* a paused timer holds the milliseconds of the ticks it had left.
TimerInv ==
  /\ TimerTyped
  /\ config.threshold # 0 => calls <= timer.counter /\ calls <= config.threshold
  /\ kernel.value > 0 => timer.state \in {"RUNNING", "RESUMED"}
  /\ timer_crashed = "no" \/ (config.backoff /\ timer.state = "DELETED")
  /\ timer.state = "PAUSED" /\ frozen # NotFrozen =>
       /\ frozen \in Nat \ {0}
       /\ timer.remaining = frozen \div MS

\* A whole number of milliseconds is below the ticks it was made from, by less than one.
LEMMA WholeMs ==
  ASSUME NEW n \in Nat, NEW m \in Nat \ {0}
  PROVE  /\ n \div m \in Nat /\ n - m * (n \div m) \in 0..(m - 1)
         /\ n >= m <=> n \div m # 0
<1>1. /\ n \div m \in Nat
      /\ n % m \in 0..(m - 1)
      /\ (n \div m) * m + (n % m) = n
  OBVIOUS
<1> DEFINE q == n \div m
           r == n % m
<1> HIDE DEF q, r
<1>2. q \in Nat /\ r \in 0..(m - 1) /\ n = q * m + r
  BY <1>1 DEF q, r
<1>3. q = 0 => n < m
  BY <1>2
<1>4. q # 0 => n >= m
  <2>1. ASSUME q # 0 PROVE q * m >= m
    BY <1>2, <2>1
  <2> QED
    BY <1>2, <2>1
<1>5. m * q \in Nat /\ m * q = q * m
  BY <1>2
<1>6. n - m * q \in 0..(m - 1)
  BY <1>2, <1>5
<1> QED
  BY <1>2, <1>3, <1>4, <1>6 DEF q

\* Products of natural numbers are natural numbers.
LEMMA Products == \A a, b \in Nat : a * b \in Nat
  OBVIOUS

\* Whatever is set in a timer and told to the kernel.
LEMMA SetKeeps ==
  ASSUME T!TimerAssumption, TimerInv, NEW t, NEW s \in TimerStates,
         t \in [state : TimerStates, value : Nat, interval : Nat, remaining : Nat,
                counter : Nat, backoff_time : Nat],
         T!Set(t, s), config' = config, thread' \in {"none", "entry", "callback"},
         calls' \in {calls, 0}, calls' # 0 => t.counter = timer.counter,
         t.value = 0 \/ s \in {"RUNNING", "RESUMED"},
         timer_crashed' = "no",
         s = "PAUSED" /\ frozen' # NotFrozen => /\ frozen' \in Nat \ {0}
                                           /\ t.remaining = frozen' \div MS
  PROVE  TimerInv'
<1>1. /\ timer' = [t EXCEPT !.state = s]
      /\ kernel' = [value |-> MS * t.value, interval |-> MS * t.interval]
      /\ MS * t.value \in Nat /\ MS * t.interval \in Nat /\ t.counter \in Nat
      /\ t.value = 0 => MS * t.value = 0
  BY Products DEF T!Set, T!Armed, T!TimerAssumption
<1>2. /\ timer'.state = s /\ timer'.counter = t.counter /\ timer'.remaining = t.remaining
      /\ kernel'.value = MS * t.value
      /\ timer' \in [state : TimerStates, value : Nat, interval : Nat, remaining : Nat,
                     counter : Nat, backoff_time : Nat]
      /\ kernel' \in [value : Nat, interval : Nat]
  BY <1>1
<1>3. TimerTyped'
  BY <1>2 DEF TimerTyped, TimerInv
<1>4. config \in Configs /\ config.threshold \in Nat /\ calls \in Nat
  BY DEF TimerInv, TimerTyped, T!TimerAssumption
<1>5. config.threshold # 0 => calls' <= timer'.counter /\ calls' <= config.threshold
  BY <1>1, <1>2, <1>4 DEF TimerInv
<1>6. kernel'.value > 0 => timer'.state \in {"RUNNING", "RESUMED"}
  BY <1>1, <1>2
<1> QED
  BY <1>2, <1>3, <1>5, <1>6 DEF TimerInv

\* timerlib.c: what is cancelled or rescheduled keeps the types of its fields.
LEMMA TimerFields ==
  ASSUME T!TimerAssumption, TimerTyped, NEW v \in Nat, NEW w \in Nat
  PROVE  /\ T!Cancelled(timer) \in [state : TimerStates, value : Nat, interval : Nat,
                                    remaining : Nat, counter : Nat, backoff_time : Nat]
         /\ T!Cancelled(timer).value = 0
         /\ T!Rescheduled(v, w) \in [state : TimerStates, value : Nat, interval : Nat,
                                     remaining : Nat, counter : Nat, backoff_time : Nat]
         /\ T!Rescheduled(v, w).counter = timer.counter
  BY DEF TimerTyped, T!TimerAssumption, T!Cancelled, T!Rescheduled, T!Cancellable

\* A call of the application, whichever it is.
LEMMA ApplicationKeeps ==
  ASSUME T!TimerAssumption, TimerInv, timer_crashed = "no", T!Application
  PROVE  TimerInv'
<1>0. /\ TimerTyped /\ config' = config /\ thread' = thread /\ timer_crashed' = "no"
      /\ config.exp \in Nat /\ config.sec \in Nat /\ calls \in Nat /\ 0 \in Nat
      /\ thread' \in {"none", "entry", "callback"}
  BY DEF TimerInv, TimerTyped, T!Application, T!TimerAssumption
<1>1. CASE T!start_timer
  <2>1. T!Set(timer, "RUNNING") /\ frozen' = NotFrozen /\ calls' = calls
    BY <1>1 DEF T!start_timer
  <2> QED
    BY <1>0, <2>1, SetKeeps DEF TimerTyped, TimerStates
<1>2. CASE T!delete_timer
  BY <1>0, <1>2 DEF T!delete_timer, TimerInv, TimerTyped, TimerStates
<1>3. CASE T!cancel_timer
  <2>1. T!Set(T!Cancelled(timer), "CANCELLED") /\ frozen' = NotFrozen /\ calls' = 0
    BY <1>3 DEF T!cancel_timer
  <2> QED
    BY <1>0, <2>1, TimerFields, SetKeeps DEF TimerStates
<1>4. CASE T!pause_timer
  <2> DEFINE t == [timer EXCEPT !.remaining = T!time_remaining, !.value = 0, !.interval = 0]
  <2>1. /\ T!Set(t, "PAUSED") /\ calls' = calls
        /\ frozen' = IF kernel.value = 0 THEN NotFrozen ELSE kernel.value
    BY <1>4 DEF T!pause_timer
  <2>2. kernel.value \in Nat /\ MS \in Nat \ {0} /\ kernel.value \div MS \in Nat /\ T!Forever \in Nat
    BY <1>0, WholeMs DEF TimerTyped, T!TimerAssumption, T!Forever
  <2>3. T!time_remaining \in Nat /\ (kernel.value > 0 => T!time_remaining = kernel.value \div MS)
    BY <2>2 DEF T!time_remaining, TimerInv
  <2>4. /\ t \in [state : TimerStates, value : Nat, interval : Nat, remaining : Nat,
                  counter : Nat, backoff_time : Nat]
        /\ t.value = 0 /\ t.counter = timer.counter /\ t.remaining = T!time_remaining
    BY <1>0, <2>3 DEF TimerTyped
  <2> HIDE DEF t
  <2>5. frozen' # NotFrozen => /\ frozen' \in Nat \ {0}
                          /\ t.remaining = frozen' \div MS
    BY <2>1, <2>2, <2>3, <2>4
  <2> QED
    BY <1>0, <2>1, <2>4, <2>5, SetKeeps DEF TimerStates
<1>5. CASE T!resume_timer
  <2> DEFINE t == [timer EXCEPT !.value = T!resumed_value, !.interval = config.sec, !.remaining = 0]
  <2>1. T!Set(t, "RESUMED") /\ frozen' = NotFrozen /\ calls' = calls
    BY <1>5 DEF T!resume_timer
  <2>2. T!resumed_value \in Nat
    BY <1>0 DEF TimerTyped, T!resumed_value
  <2>3. /\ t \in [state : TimerStates, value : Nat, interval : Nat, remaining : Nat,
                  counter : Nat, backoff_time : Nat]
        /\ t.counter = timer.counter
    BY <1>0, <2>2 DEF TimerTyped
  <2> HIDE DEF t
  <2> QED
    BY <1>0, <2>1, <2>3, SetKeeps DEF TimerStates
<1>6. CASE T!restart_timer
  <2> DEFINE t == [timer EXCEPT !.value = config.exp, !.interval = IF config.backoff THEN 0 ELSE config.sec,
                                !.remaining = 0, !.counter = 0, !.backoff_time = config.exp]
  <2>1. T!Set(t, "RUNNING") /\ frozen' = NotFrozen /\ calls' = 0
    BY <1>6 DEF T!restart_timer
  <2>2. t \in [state : TimerStates, value : Nat, interval : Nat, remaining : Nat,
               counter : Nat, backoff_time : Nat]
    BY <1>0 DEF TimerTyped
  <2> HIDE DEF t
  <2> QED
    BY <1>0, <2>1, <2>2, SetKeeps DEF TimerStates
<1>7. CASE T!reschedule_timer
  <2>1. T!Set(T!Rescheduled(config.exp, config.sec), "RUNNING") /\ frozen' = NotFrozen /\ calls' = calls
    BY <1>7 DEF T!reschedule_timer
  <2> QED
    BY <1>0, <2>1, TimerFields, SetKeeps DEF TimerStates
<1> QED
  BY <1>1, <1>2, <1>3, <1>4, <1>5, <1>6, <1>7 DEF T!Application

\* timer_callback_wrapper, up to the callback and from it.
LEMMA WrapperKeeps ==
  ASSUME T!TimerAssumption, TimerInv, timer_crashed = "no", T!Wrapper \/ T!WrapperEnds
  PROVE  TimerInv'
<1>0. /\ TimerTyped /\ config' = config
      /\ config.exp \in Nat /\ config.sec \in Nat /\ config.threshold \in Nat
      /\ calls \in Nat /\ 0 \in Nat /\ timer.counter \in Nat
  BY DEF TimerInv, TimerTyped, T!Wrapper, T!WrapperEnds, T!TimerAssumption
<1>1. CASE T!Wrapper
  <2>1. timer_crashed' = "no"
    BY <1>1 DEF T!Wrapper
  <2>2. CASE config.threshold # 0 /\ timer.counter + 1 > config.threshold
    <3>1. thread' = "none" /\ calls' = 0 /\ frozen' = NotFrozen
      BY <1>1, <2>2 DEF T!Wrapper
    <3>2. CASE T!Cancellable
      <4>1. T!Set(T!Cancelled(timer), "CANCELLED")
        BY <1>1, <2>2, <3>2 DEF T!Wrapper
      <4> QED
        BY <1>0, <2>1, <3>1, <4>1, TimerFields, SetKeeps DEF TimerStates
    <3>3. CASE ~T!Cancellable
      <4>1. timer' = [timer EXCEPT !.counter = timer.counter + 1] /\ kernel' = kernel
        BY <1>1, <2>2, <3>3 DEF T!Wrapper
      <4> QED
        BY <1>0, <2>1, <3>1, <4>1 DEF TimerInv, TimerTyped
    <3> QED
      BY <3>2, <3>3
  <2>3. CASE ~(config.threshold # 0 /\ timer.counter + 1 > config.threshold)
    BY <1>0, <1>1, <2>1, <2>3 DEF T!Wrapper, TimerInv, TimerTyped
  <2> QED
    BY <2>2, <2>3
<1>2. CASE T!WrapperEnds
  <2>0. thread' = "none" /\ calls' = calls
    BY <1>2 DEF T!WrapperEnds
  <2>1. CASE config.backoff /\ timer.state = "DELETED"
    <3>1. timer' = timer /\ kernel' = kernel /\ frozen' = frozen
      BY <1>2, <2>1 DEF T!WrapperEnds
    <3> QED
      BY <1>0, <2>0, <2>1, <3>1 DEF TimerInv, TimerTyped
  <2>2. CASE config.backoff /\ timer.state # "DELETED"
    <3>1. T!Set(T!Rescheduled(2 * timer.backoff_time, 0), "RUNNING") /\ frozen' = NotFrozen /\ timer_crashed' = "no"
      BY <1>2, <2>2 DEF T!WrapperEnds
    <3>2. 2 * timer.backoff_time \in Nat
      BY <1>0 DEF TimerTyped
    <3> QED
      BY <1>0, <2>0, <3>1, <3>2, TimerFields, SetKeeps, ZenonT(40) DEF TimerStates
  <2>3. CASE ~config.backoff /\ timer.state = "RESUMED"
    <3>1. T!Set(T!Rescheduled(config.exp, config.sec), "RUNNING") /\ frozen' = NotFrozen /\ timer_crashed' = "no"
      BY <1>2, <2>3 DEF T!WrapperEnds
    <3> QED
      BY <1>0, <2>0, <3>1, TimerFields, SetKeeps DEF TimerStates
  <2>4. CASE ~config.backoff /\ timer.state # "RESUMED"
    <3>1. timer' = timer /\ kernel' = kernel /\ frozen' = frozen /\ timer_crashed' = "no"
      BY <1>2, <2>4 DEF T!WrapperEnds
    <3> QED
      BY <1>0, <2>0, <3>1 DEF TimerInv, TimerTyped
  <2> QED
    BY <2>1, <2>2, <2>3, <2>4
<1> QED
  BY <1>1, <1>2

\* Every step of a timer keeps the invariant, the first state has it.
LEMMA TimerNext ==
  T!TimerAssumption => /\ T!Init => TimerInv
                       /\ TimerInv /\ [T!Next]_T!vars => TimerInv'
<1> SUFFICES ASSUME T!TimerAssumption
             PROVE  /\ T!Init => TimerInv
                    /\ TimerInv /\ [T!Next]_T!vars => TimerInv'
  OBVIOUS
<1>1. T!Init => TimerInv
  BY DEF T!TimerAssumption, T!Init, TimerInv, TimerTyped, TimerStates
<1>2. ASSUME TimerInv, T!Tick, timer_crashed = "no" PROVE TimerInv'
  BY <1>2 DEF T!Tick, TimerInv, TimerTyped
<1>3. ASSUME TimerInv, UNCHANGED T!vars PROVE TimerInv'
  BY <1>3 DEF T!vars, TimerInv, TimerTyped
<1> QED
  BY <1>1, <1>2, <1>3, ApplicationKeeps, WrapperKeeps DEF T!Next

\* timerlib.c: whatever times and thresholds a timer is set up with, and whatever is called
\* while it runs, from its callback or beside it, it calls back as often as its
\* threshold allows, and is not armed when it is paused, cancelled or deleted.
THEOREM TimerCorrect ==
  ASSUME T!TimerAssumption
  PROVE  T!Spec => []CallsBounded
<1>1. TimerInv => CallsBounded
  BY DEF TimerInv, CallsBounded, T!CallsBounded
<1> QED
  BY TimerNext, <1>1, PTL DEF T!Spec

\* pause_timer, resume_timer: however long a pause lasts, a timer goes on with the time it
\* had, less than a millisecond lost; with less than one left it starts over.
THEOREM PausesKeepTime ==
  ASSUME T!TimerAssumption
  PROVE  T!Spec => TimeKept
<1> DEFINE Kept == timer.state = "PAUSED" /\ timer'.state = "RESUMED" /\ frozen # NotFrozen =>
                     IF frozen >= MS THEN frozen - kernel'.value \in 0..(MS - 1)
                     ELSE kernel'.value = MS * config.exp
<1>1. ASSUME TimerInv, T!Next, timer.state = "PAUSED", timer'.state = "RESUMED", frozen # NotFrozen PROVE Kept
  <2>1. T!resume_timer
    BY <1>1 DEF T!Next, T!Application, T!start_timer, T!delete_timer, T!cancel_timer, T!pause_timer,
                T!restart_timer, T!reschedule_timer, T!Tick, T!Wrapper, T!WrapperEnds, T!Set,
                T!Rescheduled, T!Cancelled, TimerInv, TimerTyped
  <2>2. kernel'.value = MS * T!resumed_value
    BY <2>1 DEF T!resume_timer, T!Set, T!Armed, TimerInv, TimerTyped
  <2>3. frozen \in Nat \ {0} /\ timer.remaining = frozen \div MS /\ MS \in Nat \ {0}
    BY <1>1 DEF TimerInv, T!TimerAssumption
  <2> QED
    BY <2>2, <2>3, WholeMs DEF T!resumed_value
<1>2. TimerInv /\ [T!Next]_T!vars => [Kept]_T!vars
  BY <1>1 DEF Kept
<1> QED
  BY TimerNext, <1>2, PTL DEF T!Spec, TimeKept, T!TimeKept

-----------------------------------------------------------------------------
(* Sequences. *)

\* a stands before b in s.
Before(s, a, b) == \E i, j \in DOMAIN s : i < j /\ s[i] = a /\ s[j] = b

\* What is left of the elements and of the order of s in u.
Within(u, s) == /\ ToSet(u) \subseteq ToSet(s)
                /\ IsInjective(s) => IsInjective(u)
                /\ \A a, b : Before(u, a, b) => Before(s, a, b)

\* A set of numbers has a least one.
LEMMA MinIs ==
  ASSUME NEW N, N \subseteq Nat, N # {}
  PROVE  Min(N) \in N /\ \A k \in N : Min(N) <= k
<1>1. PICK n \in N : \A m \in N : ~(<<m, n>> \in OpToRel(<, Nat))
  BY WFMin, NatLessThanWellFounded
<1>2. \A m \in N : ~(m < n)
  <2>1. ASSUME NEW m \in N, m < n PROVE FALSE
    <3>1. m \in Nat /\ n \in Nat
      OBVIOUS
    <3>2. <<m, n>> \in OpToRel(<, Nat)
      BY <2>1, <3>1, Zenon DEF OpToRel
    <3> QED
      BY <1>1, <2>1, <3>2
  <2> QED
    BY <2>1
<1>3. \A m \in N : n <= m
  BY <1>2
<1> QED
  BY <1>3 DEF Min

\* glthread_add_next puts an element before the others.
LEMMA ConsIs ==
  ASSUME NEW S, NEW s \in Seq(S), NEW e \in S
  PROVE  /\ <<e>> \o s \in Seq(S)
         /\ ToSet(<<e>> \o s) = {e} \union ToSet(s)
         /\ IsInjective(s) /\ e \notin ToSet(s) => IsInjective(<<e>> \o s)
         /\ \A a, b : Before(<<e>> \o s, a, b) => (a = e /\ b \in ToSet(s)) \/ Before(s, a, b)
<1> DEFINE t == <<e>> \o s
<1>1. /\ t \in Seq(S) /\ Len(t) = Len(s) + 1 /\ t[1] = e /\ Len(s) \in Nat
      /\ DOMAIN t = 1..Len(t) /\ DOMAIN s = 1..Len(s)
      /\ \A i \in 1..Len(s) : t[i + 1] = s[i]
  OBVIOUS
<1> HIDE DEF t
<1>2. \A i \in DOMAIN t : i = 1 \/ (i - 1 \in DOMAIN s /\ t[i] = s[i - 1])
  <2>1. ASSUME NEW i \in DOMAIN t, i # 1 PROVE i - 1 \in DOMAIN s /\ t[i] = s[i - 1]
    <3>1. i - 1 \in 1..Len(s) /\ (i - 1) + 1 = i
      BY <1>1, <2>1
    <3> QED
      BY <1>1, <3>1
  <2> QED
    BY <2>1
<1>3. ToSet(t) = {e} \union ToSet(s)
  <2>1. ToSet(t) \subseteq {e} \union ToSet(s)
    BY <1>1, <1>2 DEF ToSet
  <2>2. 1 \in DOMAIN t /\ \A i \in DOMAIN s : i + 1 \in DOMAIN t
    BY <1>1
  <2> QED
    BY <1>1, <2>1, <2>2, ZenonT(40) DEF ToSet
<1>4. IsInjective(s) /\ e \notin ToSet(s) => IsInjective(t)
  <2> SUFFICES ASSUME IsInjective(s), e \notin ToSet(s), NEW i \in DOMAIN t, NEW j \in DOMAIN t, t[i] = t[j]
               PROVE  i = j
    BY DEF IsInjective
  <2>1. i = 1 => j = 1
    BY <1>1, <1>2 DEF ToSet
  <2>2. j = 1 => i = 1
    BY <1>1, <1>2 DEF ToSet
  <2>3. CASE i # 1 /\ j # 1
    <3>1. i - 1 = j - 1
      BY <1>2, <2>3 DEF IsInjective
    <3> QED
      BY <1>1, <3>1
  <2> QED
    BY <2>1, <2>2, <2>3
<1>5. ASSUME NEW a, NEW b, Before(t, a, b) PROVE (a = e /\ b \in ToSet(s)) \/ Before(s, a, b)
  <2>1. PICK i, j \in DOMAIN t : i < j /\ t[i] = a /\ t[j] = b
    BY <1>5 DEF Before
  <2>2. j # 1 /\ j - 1 \in DOMAIN s /\ s[j - 1] = b
    BY <1>1, <1>2, <2>1
  <2>3. CASE i = 1
    BY <1>1, <2>1, <2>2, <2>3 DEF ToSet
  <2>4. CASE i # 1
    <3>1. i - 1 \in DOMAIN s /\ s[i - 1] = a
      BY <1>2, <2>1, <2>4
    <3>2. i - 1 < j - 1
      BY <1>1, <2>1
    <3> QED
      BY <2>2, <3>1, <3>2 DEF Before
  <2> QED
    BY <2>3, <2>4
<1> QED
  BY <1>1, <1>3, <1>4, <1>5 DEF t

\* remove_glthread unlinks an element.
LEMMA RemoveIs ==
  ASSUME NEW S, NEW s \in Seq(S), NEW e
  PROVE  /\ RemoveFirst(s, e) \in Seq(S)
         /\ Within(RemoveFirst(s, e), s)
         /\ ToSet(s) \ {e} \subseteq ToSet(RemoveFirst(s, e))
         /\ IsInjective(s) => e \notin ToSet(RemoveFirst(s, e))
<1> DEFINE u == RemoveFirst(s, e)
           n == Len(s)
<1>0. n \in Nat /\ DOMAIN s = 1..n /\ \A i \in 1..n : s[i] \in S
  OBVIOUS
<1>1. CASE e \notin ToSet(s)
  <2>1. u = s
    BY <1>0, <1>1 DEF RemoveFirst, ToSet
  <2> QED
    BY <1>1, <2>1 DEF Within
<1>2. CASE e \in ToSet(s)
  <2> DEFINE at == {i \in 1..n : s[i] = e}
             m == Min(at)
  <2>1. at \subseteq Nat /\ at # {}
    BY <1>0, <1>2 DEF ToSet
  <2>2. m \in 1..n /\ s[m] = e
    BY <2>1, MinIs
  <2>3. u = SubSeq(s, 1, m - 1) \o SubSeq(s, m + 1, n)
    BY <2>1 DEF RemoveFirst, RemoveAt, SelectInSeq
  <2> HIDE DEF at, m, u
  <2>4. /\ u \in Seq(S) /\ Len(u) = n - 1 /\ DOMAIN u = 1..(n - 1)
        /\ \A i \in 1..(n - 1) : u[i] = IF i < m THEN s[i] ELSE s[i + 1]
    <3> DEFINE v == SubSeq(s, 1, m - 1)
               w == SubSeq(s, m + 1, n)
    <3>1. v \in Seq(S) /\ Len(v) = m - 1 /\ \A i \in 1..(m - 1) : v[i] = s[i]
      BY <1>0, <2>2
    <3>2. w \in Seq(S) /\ Len(w) = n - m /\ \A i \in 1..(n - m) : w[i] = s[i + m]
      <4>1. m \in Nat /\ n \in Nat /\ 1 <= m /\ m <= n
        BY <1>0, <2>2
      <4>2. w \in Seq(S) /\ Len(w) = n - m
        <5>1. m + 1 \in 1..(n + 1) /\ n \in ((m + 1) - 1)..n
          BY <4>1
        <5> QED
          BY <4>1, <5>1, SubSeqProperties
      <4>3. \A i \in 1..(n - m) : w[i] = s[i + m]
        BY <1>0, <4>1
      <4> QED
        BY <4>2, <4>3
    <3> HIDE DEF v, w
    <3>3. u = v \o w
      BY <2>3 DEF v, w
    <3>4. u \in Seq(S) /\ Len(u) = n - 1 /\ DOMAIN u = 1..(n - 1)
      <4>1. v \o w \in Seq(S)
        BY <3>1, <3>2, ConcatProperties
      <4>2. Len(v \o w) = Len(v) + Len(w)
        BY <3>1, <3>2, ConcatProperties
      <4>3. Len(u) = n - 1
        BY <1>0, <2>2, <3>1, <3>2, <3>3, <4>2
      <4> QED
        BY <3>3, <4>1, <4>3
    <3>5. ASSUME NEW i \in 1..(n - 1) PROVE u[i] = IF i < m THEN s[i] ELSE s[i + 1]
      <4>1. CASE i < m
        BY <1>0, <2>2, <3>1, <3>2, <3>3, <3>5, <4>1
      <4>2. CASE i >= m
        <5>1. i - (m - 1) \in 1..(n - m) /\ (i - (m - 1)) + m = i + 1
          BY <1>0, <2>2, <3>5, <4>2
        <5>2. u[i] = w[i - (m - 1)]
          BY <1>0, <2>2, <3>1, <3>2, <3>3, <3>5, <4>2
        <5> QED
          BY <1>0, <2>2, <3>2, <3>5, <4>2, <5>1, <5>2
      <4> QED
        BY <1>0, <2>2, <4>1, <4>2
    <3> QED
      BY <3>4, <3>5
  <2> DEFINE f(i) == IF i < m THEN i ELSE i + 1
  <2>5. \A i \in DOMAIN u : f(i) \in DOMAIN s /\ f(i) # m /\ u[i] = s[f(i)]
    BY <1>0, <2>2, <2>4
  <2>6. \A i, j \in DOMAIN u : (f(i) = f(j) => i = j) /\ (i < j => f(i) < f(j))
    BY <1>0, <2>2, <2>4
  <2>7. \A k \in DOMAIN s : k # m => \E i \in DOMAIN u : f(i) = k
    <3>1. ASSUME NEW k \in DOMAIN s, k # m PROVE \E i \in DOMAIN u : f(i) = k
      <4>1. CASE k < m
        <5>1. k \in DOMAIN u /\ f(k) = k
          BY <1>0, <2>2, <2>4, <3>1, <4>1
        <5> QED
          BY <5>1
      <4>2. CASE k > m
        <5>1. k - 1 \in DOMAIN u /\ f(k - 1) = k
          BY <1>0, <2>2, <2>4, <3>1, <4>2
        <5> QED
          BY <5>1
      <4> QED
        BY <1>0, <2>2, <3>1, <4>1, <4>2
    <3> QED
      BY <3>1
  <2> HIDE DEF f
  <2>8. Within(u, s)
    <3>1. ToSet(u) \subseteq ToSet(s)
      BY <2>5 DEF ToSet
    <3>2. IsInjective(s) => IsInjective(u)
      BY <2>5, <2>6 DEF IsInjective
    <3>3. ASSUME NEW a, NEW b, Before(u, a, b) PROVE Before(s, a, b)
      BY <2>5, <2>6, <3>3 DEF Before
    <3> QED
      BY <3>1, <3>2, <3>3 DEF Within
  <2>9. ToSet(s) \ {e} \subseteq ToSet(u)
    BY <2>2, <2>5, <2>7 DEF ToSet
  <2>10. IsInjective(s) => e \notin ToSet(u)
    BY <1>0, <2>2, <2>5 DEF IsInjective, ToSet
  <2> QED
    BY <2>4, <2>8, <2>9, <2>10 DEF u
<1> QED
  BY <1>1, <1>2

\* A picture of the table has its routes, the other way round.
LEMMA ReverseIs ==
  ASSUME NEW S, NEW s \in Seq(S)
  PROVE  /\ Reverse(s) \in Seq(S) /\ ToSet(Reverse(s)) = ToSet(s)
         /\ IsInjective(s) => IsInjective(Reverse(s))
<1> DEFINE n == Len(s)
           f(i) == (n - i) + 1
           t == Reverse(s)
<1>1. n \in Nat /\ DOMAIN s = 1..n /\ \A i \in 1..n : s[i] \in S /\ f(i) \in 1..n /\ f(f(i)) = i
  OBVIOUS
<1>2. t = [i \in 1..n |-> s[f(i)]]
  BY DEF Reverse
<1> HIDE DEF t
<1>3. DOMAIN t = 1..n /\ \A i \in 1..n : t[i] = s[f(i)]
  BY <1>2
<1>4. t \in Seq(S)
  <2>1. \A i \in 1..n : t[i] \in S
    BY <1>1, <1>3
  <2> QED
    BY <1>1, <1>2, <2>1
<1> HIDE DEF f
<1>5. ToSet(t) = ToSet(s)
  BY <1>1, <1>3 DEF ToSet
<1>6. IsInjective(s) => IsInjective(t)
  BY <1>1, <1>3 DEF IsInjective
<1> QED
  BY <1>4, <1>5, <1>6 DEF t

-----------------------------------------------------------------------------
(* The table as a value. *)

RtType == [route_list : Seq(Routes), rt_notify_list : Seq(Routes), rt_flash_list : Seq(Routes),
           flash_requests : Seq(Clients), nfc_rt_updates : Seq(Clients)]
Kinds == {"notif", "flash"}
TabType == [route : [Routes -> Fields \union {Freed}], rt : RtType, jobs : Seq(Kinds)]

InTable(t) == ToSet(t.rt.route_list)
ToTell(t) == ToSet(t.rt.rt_notify_list)
ToFlash(t) == ToSet(t.rt.rt_flash_list)

\* The lists hold allocated routes, each once.
Listed(t) ==
  /\ IsInjective(t.rt.route_list) /\ IsInjective(t.rt.rt_notify_list) /\ IsInjective(t.rt.rt_flash_list)
  /\ \A r \in InTable(t) \union ToTell(t) \union ToFlash(t) : t.route[r] # Freed

\* The flags of a route say where it is.
Flagged(t) ==
  \A r \in Routes : t.route[r] # Freed =>
    /\ r \in ToTell(t) <=> t.route[r].rt_flags \intersect {"ADD", "DEL", "UPDATE"} # {}
    /\ r \in ToFlash(t) <=> "FLASH" \in t.route[r].rt_flags
    /\ r \in InTable(t) <=> "DEL" \notin t.route[r].rt_flags

\* The table has one route to a destination.
OnePerDest(t) ==
  \A r, q \in InTable(t) : t.route[r].dest = t.route[q].dest => r = q

\* Of the changes of one destination the first in the list is the last that was made.
Latest(t) ==
  /\ \A a, b : Before(t.rt.rt_notify_list, a, b) /\ t.route[a].dest = t.route[b].dest
                 => "DEL" \in t.route[b].rt_flags
  /\ \A a \in ToTell(t) : \A b \in InTable(t) :
       "DEL" \in t.route[a].rt_flags /\ t.route[a].dest = t.route[b].dest => b \in ToTell(t)

\* One job flashes as long as there are requests, and only it needs the picture.
JobsOK(t) ==
  /\ IsInjective(t.jobs)
  /\ "flash" \in ToSet(t.jobs) <=> t.rt.flash_requests # <<>>
  /\ "flash" \notin ToSet(t.jobs) => t.rt.rt_flash_list = <<>>

TabOK(t) ==
  t \in TabType /\ Listed(t) /\ Flagged(t) /\ OnePerDest(t) /\ Latest(t) /\ JobsOK(t)

\* What is installed for a destination, and the destinations with a change to tell.
InstalledIn(t, p) ==
  LET r == rt_table_lookup(t, p)
  IN IF r = NULL THEN NoRoute
     ELSE [is_direct |-> t.route[r].is_direct, nexthops |-> t.route[r].nexthops]
StaleIn(t) == {t.route[r].dest : r \in ToTell(t)}

\* From t to u only routes changed that are to be told.
Follows(t, u) ==
  /\ u.rt.nfc_rt_updates = t.rt.nfc_rt_updates
  /\ u.rt.flash_requests = t.rt.flash_requests
  /\ u.rt.rt_flash_list = t.rt.rt_flash_list
  /\ StaleIn(t) \subseteq StaleIn(u)
  /\ \A p \in Dests \ StaleIn(u) :
       /\ rt_table_lookup(u, p) = rt_table_lookup(t, p)
       /\ InstalledIn(u, p) = InstalledIn(t, p)

\* u is t with route r, now new, first in the list of changes, and L for the table.
Moved(t, u, r, new, L) ==
  /\ r \in Routes /\ new \in Fields /\ L \in Seq(Routes) /\ IsInjective(L)
  /\ u = [route |-> [t.route EXCEPT ![r] = new],
          rt |-> [t.rt EXCEPT !.route_list = L, !.rt_notify_list = <<r>> \o RemoveFirst(@, r)],
          jobs |-> kick(t.jobs, "notif")]
  /\ new.rt_flags \intersect {"ADD", "DEL", "UPDATE"} # {}
  /\ "FLASH" \in new.rt_flags <=> r \in ToFlash(t)
  /\ ToSet(L) \ {r} = InTable(t) \ {r}
  /\ r \in ToSet(L) <=> "DEL" \notin new.rt_flags
  /\ t.route[r] # Freed => t.route[r].dest = new.dest
  /\ \A q \in InTable(t) : q # r => t.route[q].dest # new.dest

LEMMA ToSetIs ==
  ASSUME NEW S, NEW s \in Seq(S)
  PROVE  ToSet(s) \subseteq S /\ \A a, b : Before(s, a, b) => a \in ToSet(s) /\ b \in ToSet(s)
BY DEF ToSet, Before

\* rt_table_lookup finds the route to a destination.
LEMMA RouteIs ==
  ASSUME NEW t, TabOK(t), NEW p \in Dests
  PROVE  /\ \A r \in InTable(t) : t.route[r].dest = p => rt_table_lookup(t, p) = r
         /\ rt_table_lookup(t, p) # NULL =>
              /\ rt_table_lookup(t, p) \in InTable(t)
              /\ rt_table_lookup(t, p) \in Routes
              /\ t.route[rt_table_lookup(t, p)] \in Fields
              /\ t.route[rt_table_lookup(t, p)].dest = p
<1>1. InTable(t) \subseteq Routes /\ \A r \in InTable(t) : r # NULL /\ t.route[r] \in Fields
  <2>1. t.rt.route_list \in Seq(Routes) /\ \A r \in Routes : t.route[r] \in Fields \union {Freed}
    BY DEF TabOK, TabType, RtType
  <2>2. InTable(t) \subseteq Routes
    BY <2>1, ToSetIs DEF InTable
  <2> QED
    BY <2>1, <2>2, RouteAssumption DEF TabOK, Listed
<1>2. CASE \E r \in InTable(t) : t.route[r].dest = p
  <2>1. PICK r \in InTable(t) : t.route[r].dest = p
    BY <1>2
  <2>2. rt_table_lookup(t, p) = CHOOSE q \in InTable(t) : t.route[q].dest = p
    BY <1>2 DEF rt_table_lookup, InTable
  <2>3. rt_table_lookup(t, p) \in InTable(t) /\ t.route[rt_table_lookup(t, p)].dest = p
    BY <1>2, <2>2
  <2>4. \A q \in InTable(t) : t.route[q].dest = p => rt_table_lookup(t, p) = q
    BY <2>3 DEF TabOK, OnePerDest
  <2> QED
    BY <1>1, <2>3, <2>4
<1>3. CASE ~\E r \in InTable(t) : t.route[r].dest = p
  <2>1. rt_table_lookup(t, p) = NULL
    BY <1>3 DEF rt_table_lookup, InTable
  <2> QED
    BY <1>3, <2>1
<1> QED
  BY <1>2, <1>3

\* A job is put last, an element is put last.
LEMMA AppendIs ==
  ASSUME NEW S, NEW s \in Seq(S), NEW e \in S
  PROVE  /\ Append(s, e) \in Seq(S) /\ ToSet(Append(s, e)) = ToSet(s) \union {e}
         /\ IsInjective(s) /\ e \notin ToSet(s) => IsInjective(Append(s, e))
<1> DEFINE t == Append(s, e)
           n == Len(s)
<1>1. /\ t \in Seq(S) /\ n \in Nat /\ DOMAIN s = 1..n /\ DOMAIN t = 1..(n + 1)
      /\ t[n + 1] = e /\ \A i \in 1..n : t[i] = s[i]
  OBVIOUS
<1> HIDE DEF t, n
<1>2. \A i \in DOMAIN t : i = n + 1 \/ i \in DOMAIN s
  BY <1>1
<1>3. n + 1 \in DOMAIN t /\ \A i \in DOMAIN s : i \in DOMAIN t
  BY <1>1
<1>4. ToSet(t) = ToSet(s) \union {e}
  <2>1. ToSet(t) \subseteq ToSet(s) \union {e}
    BY <1>1, <1>2 DEF ToSet
  <2>2. ToSet(s) \union {e} \subseteq ToSet(t)
    BY <1>1, <1>3 DEF ToSet
  <2> QED
    BY <2>1, <2>2
<1>5. IsInjective(s) /\ e \notin ToSet(s) => IsInjective(t)
  BY <1>1, <1>2 DEF IsInjective, ToSet
<1> QED
  BY <1>1, <1>4, <1>5 DEF t

LEMMA KickIs ==
  ASSUME NEW S, NEW s \in Seq(S), NEW e \in S
  PROVE  /\ kick(s, e) \in Seq(S) /\ ToSet(kick(s, e)) = ToSet(s) \union {e}
         /\ IsInjective(s) => IsInjective(kick(s, e))
BY AppendIs DEF kick

\* A change of a route keeps the table in order, whatever the change is.
LEMMA MovedKeeps ==
  ASSUME NEW t, NEW u, NEW r, NEW new, NEW L, TabOK(t), Moved(t, u, r, new, L)
  PROVE  TabOK(u) /\ Follows(t, u)
<1> DEFINE N == t.rt.rt_notify_list
           M == RemoveFirst(N, r)
<1>1. /\ t.route \in [Routes -> Fields \union {Freed}] /\ t.rt \in RtType
      /\ t.jobs \in Seq(Kinds)
      /\ N \in Seq(Routes) /\ t.rt.route_list \in Seq(Routes) /\ t.rt.rt_flash_list \in Seq(Routes)
  BY DEF TabOK, TabType, RtType
<1>2. /\ u.route = [t.route EXCEPT ![r] = new]
      /\ u.rt = [t.rt EXCEPT !.route_list = L, !.rt_notify_list = <<r>> \o RemoveFirst(@, r)]
      /\ u.jobs = kick(t.jobs, "notif")
      /\ u = [route |-> u.route, rt |-> u.rt, jobs |-> u.jobs]
  BY DEF Moved
<1>3. /\ u.rt.route_list = L /\ u.rt.rt_notify_list = <<r>> \o M
      /\ u.rt.rt_flash_list = t.rt.rt_flash_list /\ u.rt.flash_requests = t.rt.flash_requests
      /\ u.rt.nfc_rt_updates = t.rt.nfc_rt_updates
  BY <1>1, <1>2 DEF RtType
<1>4. r \in Routes /\ new \in Fields /\ L \in Seq(Routes) /\ IsInjective(L)
  BY DEF Moved
<1>5. /\ M \in Seq(Routes) /\ IsInjective(M) /\ r \notin ToSet(M)
      /\ ToSet(M) = ToSet(N) \ {r} /\ \A a, b : Before(M, a, b) => Before(N, a, b)
  <2>1. IsInjective(N)
    BY DEF TabOK, Listed
  <2> QED
    BY <1>1, <2>1, RemoveIs DEF Within
<1> HIDE DEF M, N
<1>6. /\ u.rt.rt_notify_list \in Seq(Routes) /\ IsInjective(u.rt.rt_notify_list)
      /\ ToTell(u) = {r} \union ToTell(t)
      /\ \A a, b : Before(u.rt.rt_notify_list, a, b) =>
           b \in ToTell(t) \ {r} /\ (a = r \/ (a \in ToTell(t) \ {r} /\ Before(N, a, b)))
  <2>1. ToSet(u.rt.rt_notify_list) = {r} \union ToSet(N) /\ IsInjective(u.rt.rt_notify_list)
        /\ u.rt.rt_notify_list \in Seq(Routes)
    BY <1>3, <1>4, <1>5, ConsIs
  <2>2. ASSUME NEW a, NEW b, Before(u.rt.rt_notify_list, a, b)
        PROVE  b \in ToSet(N) \ {r} /\ (a = r \/ (a \in ToSet(N) \ {r} /\ Before(N, a, b)))
    <3>1. (a = r /\ b \in ToSet(M)) \/ Before(M, a, b)
      BY <1>3, <1>4, <1>5, <2>2, ConsIs
    <3>2. CASE a = r /\ b \in ToSet(M)
      BY <1>5, <3>2
    <3>3. CASE Before(M, a, b)
      <4>1. a \in ToSet(M) /\ b \in ToSet(M)
        BY <1>5, <3>3, ToSetIs
      <4> QED
        BY <1>5, <3>3, <4>1
    <3> QED
      BY <3>1, <3>2, <3>3
  <2> QED
    BY <2>1, <2>2 DEF ToTell, N
<1>7. u.route[r] = new /\ \A q \in Routes : q # r => u.route[q] = t.route[q]
  BY <1>1, <1>2, <1>4
<1>8. new # Freed /\ new.dest \in Dests
  BY <1>4, RouteAssumption DEF Fields, Freed
<1>9. /\ InTable(t) \subseteq Routes /\ ToTell(t) \subseteq Routes /\ ToFlash(t) \subseteq Routes
      /\ InTable(u) \subseteq Routes /\ ToFlash(u) = ToFlash(t)
      /\ InTable(u) \ {r} = InTable(t) \ {r}
      /\ (r \in InTable(u) <=> "DEL" \notin new.rt_flags)
  <2>1. /\ InTable(t) \subseteq Routes /\ ToTell(t) \subseteq Routes /\ ToFlash(t) \subseteq Routes
        /\ InTable(u) \subseteq Routes
    BY <1>1, <1>3, <1>4, ToSetIs DEF InTable, ToTell, ToFlash, N
  <2> QED
    BY <1>3, <2>1 DEF InTable, ToFlash, Moved
<1>10. \A q \in InTable(t) \union ToTell(t) \union ToFlash(t) :
          t.route[q] # Freed /\ u.route[q].dest = t.route[q].dest
  BY <1>7, <1>9 DEF TabOK, Listed, Moved
<1>11. u \in TabType
  <2>1. u.jobs \in Seq(Kinds)
    <3>1. "notif" \in Kinds
      BY DEF Kinds
    <3> QED
      BY <1>1, <1>2, <3>1, KickIs
  <2>2. u.route \in [Routes -> Fields \union {Freed}]
    BY <1>1, <1>2, <1>4
  <2>3. u.rt \in RtType
    BY <1>1, <1>2, <1>3, <1>4, <1>6 DEF RtType
  <2> QED
    BY <1>2, <2>1, <2>2, <2>3 DEF TabType
<1>12. Listed(u)
  <2>1. \A q \in InTable(u) \union ToTell(u) \union ToFlash(u) : u.route[q] # Freed
    BY <1>6, <1>7, <1>8, <1>9, <1>10
  <2>2. IsInjective(u.rt.rt_flash_list)
    BY <1>3 DEF TabOK, Listed
  <2> QED
    BY <1>3, <1>4, <1>6, <2>1, <2>2 DEF Listed
<1>13. Flagged(u)
  <2>1. ASSUME NEW q \in Routes, u.route[q] # Freed
        PROVE  /\ q \in ToTell(u) <=> u.route[q].rt_flags \intersect {"ADD", "DEL", "UPDATE"} # {}
               /\ q \in ToFlash(u) <=> "FLASH" \in u.route[q].rt_flags
               /\ q \in InTable(u) <=> "DEL" \notin u.route[q].rt_flags
    <3>1. CASE q = r
      BY <1>6, <1>7, <1>9, <3>1 DEF Moved
    <3>2. CASE q # r
      BY <1>6, <1>7, <1>9, <2>1, <3>2 DEF TabOK, Flagged
    <3> QED
      BY <3>1, <3>2
  <2> QED
    BY <2>1 DEF Flagged
<1>14. OnePerDest(u)
  <2>1. \A q \in InTable(u) : q # r => q \in InTable(t) /\ u.route[q].dest # new.dest
    BY <1>7, <1>9 DEF Moved
  <2> QED
    BY <1>7, <1>9, <2>1 DEF TabOK, OnePerDest
<1>15. Latest(u)
  <2>1. ASSUME NEW q \in ToTell(t), q # r, u.route[q].dest = new.dest PROVE "DEL" \in u.route[q].rt_flags
    <3>1. q \notin InTable(t)
      BY <1>10, <2>1 DEF Moved
    <3> QED
      BY <1>7, <1>9, <1>10, <2>1, <3>1 DEF TabOK, Flagged
  <2>2. ASSUME NEW a, NEW b, Before(u.rt.rt_notify_list, a, b), u.route[a].dest = u.route[b].dest
        PROVE  "DEL" \in u.route[b].rt_flags
    <3>1. b \in ToTell(t) /\ b # r
      BY <1>6, <2>2
    <3>2. CASE a = r
      BY <1>7, <2>1, <2>2, <3>1, <3>2
    <3>3. CASE a \in ToTell(t) \ {r} /\ Before(N, a, b)
      BY <1>7, <1>9, <2>2, <3>1, <3>3 DEF TabOK, Latest, N
    <3> QED
      BY <1>6, <2>2, <3>2, <3>3
  <2>3. ASSUME NEW a \in ToTell(u), NEW b \in InTable(u),
               "DEL" \in u.route[a].rt_flags, u.route[a].dest = u.route[b].dest
        PROVE  b \in ToTell(u)
    <3>1. CASE b = r
      BY <1>6, <3>1
    <3>2. CASE b # r
      <4>1. b \in InTable(t) /\ u.route[b] = t.route[b] /\ t.route[b].dest # new.dest
        BY <1>7, <1>9, <3>2 DEF Moved
      <4>2. a # r /\ a \in ToTell(t)
        BY <1>6, <1>7, <2>3, <4>1
      <4>3. u.route[a] = t.route[a]
        BY <1>7, <1>9, <4>2
      <4> QED
        BY <1>6, <2>3, <4>1, <4>2, <4>3 DEF TabOK, Latest
    <3> QED
      BY <3>1, <3>2
  <2> QED
    BY <2>2, <2>3 DEF Latest
<1>16. JobsOK(u)
  <2>1. IsInjective(t.jobs)
    BY DEF TabOK, JobsOK
  <2>2. IsInjective(u.jobs) /\ ToSet(u.jobs) = ToSet(t.jobs) \union {"notif"}
    <3>1. "notif" \in Kinds
      BY DEF Kinds
    <3>2. u.jobs = kick(t.jobs, "notif")
      BY <1>2
    <3> QED
      BY ONLY <1>1, <2>1, <3>1, <3>2, KickIs
  <2> QED
    BY <1>3, <2>2 DEF TabOK, JobsOK
<1>17. TabOK(u)
  BY <1>11, <1>12, <1>13, <1>14, <1>15, <1>16 DEF TabOK
<1>18. StaleIn(t) \subseteq StaleIn(u) /\ new.dest \in StaleIn(u)
  BY <1>6, <1>7, <1>10 DEF StaleIn
<1>19. ASSUME NEW p \in Dests \ StaleIn(u)
       PROVE  rt_table_lookup(u, p) = rt_table_lookup(t, p) /\ InstalledIn(u, p) = InstalledIn(t, p)
  <2> DEFINE x == rt_table_lookup(t, p)
             y == rt_table_lookup(u, p)
  <2>1. p # new.dest /\ p \in Dests
    BY <1>18, <1>19
  <2>2. x # NULL => x \in InTable(t) /\ x \in Routes /\ t.route[x].dest = p
    BY <2>1, RouteIs
  <2>3. y # NULL => y \in InTable(u) /\ y \in Routes /\ u.route[y].dest = p
    BY <1>17, <2>1, RouteIs
  <2> HIDE DEF x, y
  <2>4. CASE x # NULL
    <3>1. x # r
      BY <1>7, <1>10, <2>1, <2>2, <2>4
    <3>2. x \in InTable(u) /\ u.route[x] = t.route[x]
      BY <1>7, <1>9, <2>2, <2>4, <3>1
    <3>3. y = x
      BY <1>17, <2>1, <2>2, <2>4, <3>2, RouteIs DEF y
    <3> QED
      BY <2>4, <3>2, <3>3 DEF InstalledIn, x, y
  <2>5. CASE y # NULL
    <3>1. y # r
      BY <1>7, <2>1, <2>3, <2>5
    <3>2. y \in InTable(t) /\ u.route[y] = t.route[y]
      BY <1>7, <1>9, <2>3, <2>5, <3>1
    <3>3. x = y
      BY <2>1, <2>3, <2>5, <3>2, RouteIs DEF x
    <3> QED
      BY <2>5, <3>2, <3>3 DEF InstalledIn, x, y
  <2>6. CASE x = NULL /\ y = NULL
    BY <2>6 DEF InstalledIn, x, y
  <2> QED
    BY <2>4, <2>5, <2>6
<1>20. Follows(t, u)
  BY <1>3, <1>18, <1>19 DEF Follows
<1> QED
  BY <1>17, <1>20

LEMMA NotifyIs ==
  ASSUME NEW v \in TabType, NEW r \in Routes, NEW flag, v.route[r] \in Fields,
         ~("DEL" \in v.route[r].rt_flags /\ flag = "ADD")
  PROVE  notify(v, r, flag) =
           [route |-> [v.route EXCEPT ![r] = [v.route[r] EXCEPT !.rt_flags =
                         (v.route[r].rt_flags \ {"ADD", "DEL", "UPDATE"}) \union {flag}]],
            rt |-> [v.rt EXCEPT !.rt_notify_list = <<r>> \o RemoveFirst(@, r)],
            jobs |-> kick(v.jobs, "notif")]
  BY DEF notify, TabType

LEMMA FollowsSame == ASSUME NEW t PROVE Follows(t, t)
  BY DEF Follows

LEMMA FollowsBoth ==
  ASSUME NEW t, NEW u, NEW v, Follows(t, u), Follows(u, v)
  PROVE  Follows(t, v)
  BY DEF Follows

\* rt_table_delete_route keeps the table in order.
LEMMA DeletedKeeps ==
  ASSUME NEW t, NEW p \in Dests, TabOK(t)
  PROVE  TabOK(delete_route(t, p)) /\ Follows(t, delete_route(t, p))
<1> DEFINE r == rt_table_lookup(t, p)
           u == delete_route(t, p)
           L == RemoveFirst(t.rt.route_list, r)
           v == [t EXCEPT !.rt.route_list = RemoveFirst(@, r)]
           new == [t.route[r] EXCEPT !.rt_flags = (t.route[r].rt_flags \ {"ADD", "DEL", "UPDATE"}) \union {"DEL"}]
<1>1. CASE r = NULL
  BY <1>1, FollowsSame DEF delete_route
<1>2. CASE r # NULL
  <2>1. r \in InTable(t) /\ r \in Routes /\ t.route[r] \in Fields
    BY <1>2, RouteIs
  <2>2. t.rt.route_list \in Seq(Routes) /\ IsInjective(t.rt.route_list) /\ t \in TabType
    BY DEF TabOK, TabType, RtType, Listed
  <2> HIDE DEF r
  <2>3. L \in Seq(Routes) /\ IsInjective(L) /\ ToSet(L) = InTable(t) \ {r}
    BY <2>2, RemoveIs DEF Within, InTable
  <2> HIDE DEF L
  <2>4. /\ v = [route |-> t.route, rt |-> [t.rt EXCEPT !.route_list = L], jobs |-> t.jobs]
        /\ v \in TabType
    <3>1. v = [route |-> t.route, rt |-> [t.rt EXCEPT !.route_list = L], jobs |-> t.jobs]
      BY <2>2 DEF TabType, L
    <3>2. [t.rt EXCEPT !.route_list = L] \in RtType
      BY <2>2, <2>3 DEF TabType, RtType
    <3> HIDE DEF v
    <3> QED
      BY <2>2, <3>1, <3>2 DEF TabType
  <2>5. u = notify(v, r, "DEL")
    BY <1>2 DEF delete_route, r
  <2> HIDE DEF v
  <2>6. u = [route |-> [t.route EXCEPT ![r] = new],
             rt |-> [t.rt EXCEPT !.route_list = L, !.rt_notify_list = <<r>> \o RemoveFirst(@, r)],
             jobs |-> kick(t.jobs, "notif")]
    <3>1. v.route = t.route /\ v.jobs = t.jobs /\ v.rt = [t.rt EXCEPT !.route_list = L]
          /\ t.rt \in RtType
      BY <2>2, <2>4 DEF TabType
    <3>2. u = [route |-> [v.route EXCEPT ![r] = new],
               rt |-> [v.rt EXCEPT !.rt_notify_list = <<r>> \o RemoveFirst(@, r)],
               jobs |-> kick(v.jobs, "notif")]
      BY <2>1, <2>4, <2>5, <3>1, NotifyIs
    <3>3. [v.rt EXCEPT !.rt_notify_list = <<r>> \o RemoveFirst(@, r)]
            = [t.rt EXCEPT !.route_list = L, !.rt_notify_list = <<r>> \o RemoveFirst(@, r)]
      BY <3>1 DEF RtType
    <3> QED
      BY <3>1, <3>2, <3>3
  <2> HIDE DEF u
  <2>7. new \in Fields /\ new.dest = t.route[r].dest /\ "DEL" \in new.rt_flags
        /\ ("FLASH" \in new.rt_flags <=> "FLASH" \in t.route[r].rt_flags)
    BY <2>1 DEF Fields, Flags
  <2>8. r \in ToFlash(t) <=> "FLASH" \in t.route[r].rt_flags
    BY <2>1, RouteAssumption DEF TabOK, Flagged, Listed
  <2>9. \A q \in InTable(t) : q # r => t.route[q].dest # t.route[r].dest
    BY <2>1 DEF TabOK, OnePerDest
  <2> HIDE DEF new
  <2>10. Moved(t, u, r, new, L)
    BY <2>1, <2>3, <2>6, <2>7, <2>8, <2>9 DEF Moved
  <2> QED
    BY <2>10, MovedKeeps DEF u
<1> QED
  BY <1>1, <1>2

\* rt_table_add_route keeps the table in order.
LEMMA AddedKeeps ==
  ASSUME NEW t, NEW p \in Dests, NEW hop \in Hops \union {NULL}, TabOK(t)
  PROVE  TabOK(add_route(t, p, hop)) /\ Follows(t, add_route(t, p, hop))
<1> DEFINE r == rt_table_lookup(t, p)
           free == CHOOSE f \in Routes : t.route[f] = Freed
           hops == IF hop = NULL THEN {} ELSE {hop}
           u == add_route(t, p, hop)
<1>0. /\ t.rt.route_list \in Seq(Routes) /\ IsInjective(t.rt.route_list) /\ t \in TabType
      /\ t.rt \in RtType /\ t.route \in [Routes -> Fields \union {Freed}]
  BY DEF TabOK, TabType, RtType, Listed
<1>h. hops \in SUBSET Hops /\ hop \in Hops \union {NULL}
  OBVIOUS
<1>1. CASE r = NULL /\ Room(t)
  <2> DEFINE L == <<free>> \o t.rt.route_list
             fresh == [dest |-> p, is_direct |-> hop = NULL, nexthops |-> hops, rt_flags |-> {}]
             new == [dest |-> p, is_direct |-> hop = NULL, nexthops |-> hops, rt_flags |-> {"ADD"}]
             v == [route |-> [t.route EXCEPT ![free] = fresh],
                   rt |-> [t.rt EXCEPT !.route_list = <<free>> \o @], jobs |-> t.jobs]
  <2>1. free \in Routes /\ t.route[free] = Freed
    BY <1>1 DEF Room
  <2>2. u = notify(v, free, "ADD")
    BY <1>1 DEF add_route
  <2> HIDE DEF free, hops, u
  <2>3. fresh \in Fields /\ new \in Fields
    BY <1>h DEF Fields, Flags
  <2>4. /\ free \notin InTable(t) /\ free \notin ToFlash(t)
    BY <2>1 DEF TabOK, Listed
  <2>5. L \in Seq(Routes) /\ ToSet(L) = InTable(t) \union {free} /\ IsInjective(L)
    BY <1>0, <2>1, <2>4, ConsIs DEF InTable
  <2>6. \A q \in InTable(t) : t.route[q].dest # p
    BY <1>1, RouteIs, RouteAssumption, ToSetIs, <1>0 DEF InTable
  <2> HIDE DEF L, fresh
  <2>7. /\ v = [route |-> [t.route EXCEPT ![free] = fresh],
                rt |-> [t.rt EXCEPT !.route_list = L], jobs |-> t.jobs]
        /\ v \in TabType
    <3>1. v = [route |-> [t.route EXCEPT ![free] = fresh],
                rt |-> [t.rt EXCEPT !.route_list = L], jobs |-> t.jobs]
      BY DEF L
    <3>2. [t.route EXCEPT ![free] = fresh] \in [Routes -> Fields \union {Freed}]
      BY <1>0, <2>3
    <3>3. [t.rt EXCEPT !.route_list = L] \in RtType
      BY <1>0, <2>5 DEF RtType
    <3> QED
      BY <1>0, <3>1, <3>2, <3>3 DEF TabType
  <2> HIDE DEF v
  <2>8. v.route[free] = fresh /\ v.route[free] \in Fields
    BY <1>0, <2>1, <2>3, <2>7
  <2>9. u = [route |-> [t.route EXCEPT ![free] = new],
             rt |-> [t.rt EXCEPT !.route_list = L, !.rt_notify_list = <<free>> \o RemoveFirst(@, free)],
             jobs |-> kick(t.jobs, "notif")]
    <3>1. v.route = [t.route EXCEPT ![free] = fresh] /\ v.jobs = t.jobs
          /\ v.rt = [t.rt EXCEPT !.route_list = L]
      BY <2>7
    <3>2. u = [route |-> [v.route EXCEPT ![free] = [v.route[free] EXCEPT !.rt_flags =
                            (v.route[free].rt_flags \ {"ADD", "DEL", "UPDATE"}) \union {"ADD"}]],
               rt |-> [v.rt EXCEPT !.rt_notify_list = <<free>> \o RemoveFirst(@, free)],
               jobs |-> kick(v.jobs, "notif")]
      <4>1. "DEL" \notin v.route[free].rt_flags
        BY <2>8 DEF fresh
      <4> QED
        BY <2>1, <2>2, <2>7, <2>8, <4>1 DEF notify, TabType
    <3>3. fresh.rt_flags = {}
          /\ [fresh EXCEPT !.rt_flags = ({} \ {"ADD", "DEL", "UPDATE"}) \union {"ADD"}] = new
      BY DEF fresh
    <3>4. [v.route EXCEPT ![free] = new] = [t.route EXCEPT ![free] = new]
      BY <1>0, <2>1, <3>1
    <3>5. [v.rt EXCEPT !.rt_notify_list = <<free>> \o RemoveFirst(@, free)]
            = [t.rt EXCEPT !.route_list = L, !.rt_notify_list = <<free>> \o RemoveFirst(@, free)]
      BY <1>0, <3>1 DEF RtType
    <3> QED
      BY <2>8, <3>1, <3>2, <3>3, <3>4, <3>5
  <2>10. new.rt_flags = {"ADD"} /\ new.dest = p
    OBVIOUS
  <2> HIDE DEF new
  <2>11. Moved(t, u, free, new, L)
    BY <2>1, <2>3, <2>4, <2>5, <2>6, <2>9, <2>10 DEF Moved
  <2> QED
    BY <2>11, MovedKeeps DEF u
<1>2. CASE r # NULL /\ hop # NULL /\ hop \notin t.route[r].nexthops
           /\ Cardinality(t.route[r].nexthops) < MaxHops
  <2> DEFINE route1 == [t.route[r] EXCEPT !.is_direct = FALSE, !.nexthops = @ \union {hop}]
             v == [t EXCEPT !.route[r] = [t.route[r] EXCEPT !.is_direct = FALSE, !.nexthops = @ \union {hop}]]
             new == [route1 EXCEPT !.rt_flags = (route1.rt_flags \ {"ADD", "DEL", "UPDATE"}) \union {"UPDATE"}]
  <2>1. r \in InTable(t) /\ r \in Routes /\ t.route[r] \in Fields
    BY <1>2, RouteIs
  <2>2. u = notify(v, r, "UPDATE")
    BY <1>2 DEF add_route
  <2> HIDE DEF r, u
  <2>3. /\ route1 \in Fields /\ new \in Fields /\ new.dest = t.route[r].dest
        /\ route1.rt_flags = t.route[r].rt_flags
        /\ new.rt_flags = (t.route[r].rt_flags \ {"ADD", "DEL", "UPDATE"}) \union {"UPDATE"}
    BY <1>2, <1>h, <2>1 DEF Fields, Flags
  <2> HIDE DEF new
  <2>4. /\ v = [route |-> [t.route EXCEPT ![r] = route1], rt |-> t.rt, jobs |-> t.jobs]
        /\ v \in TabType
    <3>1. v = [t EXCEPT !.route[r] = route1]
      OBVIOUS
    <3> HIDE DEF route1, v
    <3>3. v = [route |-> [t.route EXCEPT ![r] = route1], rt |-> t.rt, jobs |-> t.jobs]
      BY <1>0, <3>1 DEF TabType
    <3>2. [t.route EXCEPT ![r] = route1] \in [Routes -> Fields \union {Freed}]
      BY <1>0, <2>1, <2>3
    <3> QED
      BY <1>0, <3>2, <3>3 DEF TabType
  <2> HIDE DEF v, route1
  <2>5. v.route[r] = route1
    BY <1>0, <2>1, <2>4
  <2>6. u = [route |-> [t.route EXCEPT ![r] = new],
             rt |-> [t.rt EXCEPT !.route_list = t.rt.route_list, !.rt_notify_list = <<r>> \o RemoveFirst(@, r)],
             jobs |-> kick(t.jobs, "notif")]
    <3>1. v.route = [t.route EXCEPT ![r] = route1] /\ v.jobs = t.jobs /\ v.rt = t.rt
      BY <2>4
    <3>2. u = [route |-> [v.route EXCEPT ![r] = [v.route[r] EXCEPT !.rt_flags =
                            (v.route[r].rt_flags \ {"ADD", "DEL", "UPDATE"}) \union {"UPDATE"}]],
               rt |-> [v.rt EXCEPT !.rt_notify_list = <<r>> \o RemoveFirst(@, r)],
               jobs |-> kick(v.jobs, "notif")]
      BY <2>1, <2>2, <2>3, <2>4, <2>5 DEF notify, TabType
    <3>3. [v.route EXCEPT ![r] = new] = [t.route EXCEPT ![r] = new]
      BY <1>0, <2>1, <3>1
    <3>4. [t.rt EXCEPT !.rt_notify_list = <<r>> \o RemoveFirst(@, r)]
            = [t.rt EXCEPT !.route_list = t.rt.route_list, !.rt_notify_list = <<r>> \o RemoveFirst(@, r)]
      BY <1>0 DEF RtType
    <3> QED
      BY <2>5, <3>1, <3>2, <3>3, <3>4 DEF new
  <2>7. r \in ToFlash(t) <=> "FLASH" \in t.route[r].rt_flags
    BY <2>1 DEF TabOK, Flagged, Listed
  <2>8. "DEL" \notin t.route[r].rt_flags
    BY <2>1 DEF TabOK, Flagged, Listed
  <2>9. \A q \in InTable(t) : q # r => t.route[q].dest # t.route[r].dest
    BY <2>1 DEF TabOK, OnePerDest
  <2>10. Moved(t, u, r, new, t.rt.route_list)
    BY <1>0, <2>1, <2>3, <2>6, <2>7, <2>8, <2>9 DEF Moved, InTable
  <2> QED
    BY <2>10, MovedKeeps DEF u
<1>3. CASE ~(r = NULL /\ Room(t)) /\ ~(r # NULL /\ hop # NULL /\ hop \notin t.route[r].nexthops
              /\ Cardinality(t.route[r].nexthops) < MaxHops)
  <2>1. u = t
    BY <1>3 DEF add_route
  <2> QED
    BY <2>1, FollowsSame
<1> QED
  BY <1>1, <1>2, <1>3

Asks == {Deletion(p) : p \in Dests} \union {Clearing(p) : p \in Dests}
          \union {Addition(p, hop) : p \in Dests, hop \in Hops \union {NULL}}

LEMMA DoneKeeps ==
  ASSUME NEW t, NEW ask \in Asks, TabOK(t)
  PROVE  TabOK(Done(t, ask)) /\ Follows(t, Done(t, ask))
<1>1. CASE \E p \in Dests : ask = Deletion(p)
  BY <1>1, DeletedKeeps DEF Done, Deletion
<1>2. CASE \E p \in Dests : ask = Clearing(p)
  <2>1. PICK p \in Dests : ask = Clearing(p)
    BY <1>2
  <2>2. Done(t, ask) = t \/ Done(t, ask) = delete_route(t, p)
    BY <2>1 DEF Done, Clearing
  <2> QED
    BY <2>1, <2>2, DeletedKeeps, FollowsSame
<1>3. CASE \E p \in Dests, hop \in Hops \union {NULL} : ask = Addition(p, hop)
  BY <1>3, AddedKeeps DEF Done, Addition
<1>4. \/ \E p \in Dests : ask = Deletion(p)
      \/ \E p \in Dests : ask = Clearing(p)
      \/ \E p \in Dests, hop \in Hops \union {NULL} : ask = Addition(p, hop)
  BY DEF Asks
<1> QED
  BY <1>1, <1>2, <1>3, <1>4

-----------------------------------------------------------------------------
(* Handlers. *)

\* A handler, step by step: the first step that would break the order of the table
\* is none.
LEMMA CourseKeeps ==
  ASSUME NEW t, NEW asked \in Seq(Asks), TabOK(t)
  PROVE  \A k \in 0..Len(asked) : TabOK(Course(t, asked)[k]) /\ Follows(t, Course(t, asked)[k])
<1> DEFINE n == Len(asked)
           u == Course(t, asked)
           Upto(k, h) == h = [j \in 0..k |-> IF j = 0 THEN t ELSE Done(h[j - 1], asked[j])]
<1>0. n \in Nat /\ \A k \in 1..n : asked[k] \in Asks
  OBVIOUS
<1>1. \A k \in 0..n : \E f : Upto(k, f)
  <2> DEFINE bad == {k \in 0..n : ~\E f : Upto(k, f)}
  <2> SUFFICES ASSUME bad # {} PROVE FALSE
    OBVIOUS
  <2>1. bad \subseteq Nat
    BY <1>0
  <2> DEFINE m == Min(bad)
  <2>2. m \in bad /\ \A k \in bad : m <= k
    BY <2>1, MinIs
  <2> HIDE DEF m
  <2>3. m \in 0..n /\ ~\E f : Upto(m, f)
    BY <2>2
  <2>4. m # 0
    <3>1. Upto(0, [j \in 0..0 |-> t])
      OBVIOUS
    <3> QED
      BY <2>3, <3>1
  <2>5. m - 1 \in 0..n /\ m - 1 \notin bad
    <3> HIDE DEF bad
    <3> QED
      BY <1>0, <2>2, <2>3, <2>4
  <2>6. PICK f : Upto(m - 1, f)
    BY <2>5
  <2> DEFINE g == [j \in 0..m |-> IF j = m THEN Done(f[m - 1], asked[m]) ELSE f[j]]
  <2>7. \A j \in 0..m : g[j] = IF j = 0 THEN t ELSE Done(g[j - 1], asked[j])
    <3>1. ASSUME NEW j \in 0..m PROVE g[j] = IF j = 0 THEN t ELSE Done(g[j - 1], asked[j])
      <4>1. CASE j = 0
        BY <1>0, <2>3, <2>4, <2>6, <4>1
      <4>2. CASE j # 0 /\ j # m
        <5>1. j \in 0..(m - 1) /\ j - 1 \in 0..m /\ j - 1 # m
          BY <1>0, <2>3, <3>1, <4>2
        <5>2. f[j] = Done(f[j - 1], asked[j])
          BY <2>6, <4>2, <5>1
        <5> QED
          BY <4>2, <5>1, <5>2
      <4>3. CASE j = m
        <5>1. m - 1 \in 0..m /\ m - 1 # m /\ m \in 0..m
          BY <1>0, <2>3, <2>4
        <5> QED
          BY <2>4, <4>3, <5>1
      <4> QED
        BY <4>1, <4>2, <4>3
    <3> QED
      BY <3>1
  <2>8. Upto(m, g)
    <3>1. g = [j \in 0..m |-> g[j]]
      OBVIOUS
    <3> HIDE DEF g
    <3> QED
      BY <2>7, <3>1
  <2> QED
    BY <2>3, <2>8
<1>2. u = [k \in 0..n |-> IF k = 0 THEN t ELSE Done(u[k - 1], asked[k])]
  <2>1. PICK g : Upto(n, g)
    BY <1>0, <1>1
  <2>2. u = CHOOSE h : Upto(n, h)
    BY DEF Course
  <2> HIDE DEF u
  <2>3. Upto(n, u)
    BY <2>1, <2>2
  <2> QED
    BY <2>3
<1> HIDE DEF u, Upto
<1>3. u[0] = t /\ \A k \in 1..n : u[k] = Done(u[k - 1], asked[k])
  <2>1. \A k \in 0..n : u[k] = IF k = 0 THEN t ELSE Done(u[k - 1], asked[k])
    BY <1>2
  <2> QED
    BY <1>0, <2>1
<1> DEFINE bad == {k \in 0..n : ~(TabOK(u[k]) /\ Follows(t, u[k]))}
<1>4. ASSUME bad # {} PROVE FALSE
  <2>1. bad \subseteq Nat
    BY <1>0
  <2> DEFINE m == Min(bad)
  <2>2. m \in bad /\ \A k \in bad : m <= k
    BY <1>4, <2>1, MinIs
  <2> HIDE DEF m
  <2>3. m # 0
    BY <1>3, <2>2, FollowsSame
  <2>4. m \in 1..n /\ m - 1 \in 0..n /\ m - 1 \notin bad
    BY <1>0, <2>2, <2>3
  <2>5. TabOK(u[m - 1]) /\ Follows(t, u[m - 1])
    BY <2>4
  <2>6. TabOK(u[m]) /\ Follows(u[m - 1], u[m])
    BY <1>0, <1>3, <2>4, <2>5, DoneKeeps
  <2> QED
    BY <2>2, <2>5, <2>6, FollowsBoth
<1> QED
  BY <1>4 DEF u

LEMMA DoesKeeps ==
  ASSUME NEW t, NEW asked \in Seq(Asks), TabOK(t), Does(t, asked)
  PROVE  TabOK([route |-> route', rt |-> rt', jobs |-> jobs'])
         /\ Follows(t, [route |-> route', rt |-> rt', jobs |-> jobs'])
<1> DEFINE last == Course(t, asked)[Len(asked)]
<1>1. TabOK(last) /\ Follows(t, last)
  BY CourseKeeps
<1>2. route' = last.route /\ rt' = last.rt /\ jobs' = last.jobs
  BY DEF Does
<1> HIDE DEF last
<1>3. last = [route |-> last.route, rt |-> last.rt, jobs |-> last.jobs]
  BY <1>1 DEF TabOK, TabType
<1> QED
  BY <1>1, <1>2, <1>3

\* The result of a calculation, in some order.
LEMMA ResultIs ==
  ASSUME NEW result \in SUBSET (Dests \X Hops)
  PROVE  SetToSeq(result) \in Seq(Dests \X Hops)
<1>1. IsFiniteSet(result)
  BY FS_Product, FS_Subset, RouteAssumption
<1> DEFINE n == Cardinality(result)
<1>2. n \in Nat /\ ExistsBijection(1..n, result)
  BY <1>1, FS_CardinalityType
<1>3. \E f \in [1..n -> result] : IsInjective(f)
  BY <1>2 DEF ExistsBijection, Bijection, Injection, IsInjective
<1>4. SetToSeq(result) \in [1..n -> result]
  BY <1>3 DEF SetToSeq
<1> HIDE DEF n
<1>5. SetToSeq(result) \in [1..n -> Dests \X Hops]
  BY <1>4
<1> QED
  BY <1>2, <1>5

\* Tables whose routes say the same have the same installed.
LEMMA SameTable ==
  ASSUME NEW t, NEW u, TabOK(t), TabOK(u), InTable(u) = InTable(t),
         \A r \in InTable(t) : /\ u.route[r].dest = t.route[r].dest
                               /\ u.route[r].is_direct = t.route[r].is_direct
                               /\ u.route[r].nexthops = t.route[r].nexthops
  PROVE  \A p \in Dests : rt_table_lookup(u, p) = rt_table_lookup(t, p) /\ InstalledIn(u, p) = InstalledIn(t, p)
<1> SUFFICES ASSUME NEW p \in Dests
             PROVE  rt_table_lookup(u, p) = rt_table_lookup(t, p) /\ InstalledIn(u, p) = InstalledIn(t, p)
  OBVIOUS
<1> DEFINE x == rt_table_lookup(t, p)
           y == rt_table_lookup(u, p)
<1>1. x # NULL => x \in InTable(t) /\ t.route[x].dest = p
  BY RouteIs
<1>2. y # NULL => y \in InTable(t) /\ t.route[y].dest = p
  BY RouteIs
<1>3. x # NULL => y = x
  BY <1>1, RouteIs
<1>4. y # NULL => y = x
  BY <1>2, RouteIs
<1>5. x = y
  BY <1>3, <1>4
<1> HIDE DEF x, y
<1>6. InstalledIn(u, p) = InstalledIn(t, p)
  BY <1>1, <1>5 DEF InstalledIn, x, y
<1> QED
  BY <1>5, <1>6 DEF x, y

\* What is installed is the content of a route, or none.
LEMMA InstalledIs ==
  ASSUME NEW t, TabOK(t), NEW p \in Dests
  PROVE  InstalledIn(t, p) \in Contents \union {NoRoute}
<1>1. CASE rt_table_lookup(t, p) = NULL
  BY <1>1 DEF InstalledIn
<1>2. CASE rt_table_lookup(t, p) # NULL
  <2>1. t.route[rt_table_lookup(t, p)] \in Fields
    BY <1>2, RouteIs
  <2> QED
    BY <1>2, <2>1 DEF InstalledIn, Contents, Fields
<1> QED
  BY <1>1, <1>2

-----------------------------------------------------------------------------
(* Steps. *)

\* The table with its jobs, what clients know, and which of them wait for the flash.
AskedSound ==
  \A c \in asked_first :
    /\ c \in Subscribers /\ c \in ToSet(rt.flash_requests)
    /\ \A p \in Dests \ Stale : Installed(p) # NoRoute =>
         rt_table_lookup(Tab, p) \in ToSet(rt.rt_flash_list) \/ view[c][p] = Installed(p)
RouteInv ==
  /\ TabOK(Tab) /\ AssertsHold
  /\ if_ip \in [Ports -> Dests \union {NULL}]
  /\ view \in [Clients -> [Dests -> View!Seen]]
  /\ AskedSound

\* What the theorems say of a step.
RouteStep ==
  /\ [View!Next]_View!vars
  /\ \A c \in asked_first \ asked_first' : c \in Subscribers' =>
       \A p \in Dests : Installed(p)' # NoRoute /\ p \notin Stale' => view'[c][p] = Installed(p)'

TabNow == [route |-> route', rt |-> rt', jobs |-> jobs']

LEMMA TabTypes ==
  ASSUME NEW t, TabOK(t)
  PROVE  /\ t.route \in [Routes -> Fields \union {Freed}] /\ t.rt \in RtType /\ t.jobs \in Seq(Kinds)
         /\ t.rt.route_list \in Seq(Routes) /\ t.rt.rt_notify_list \in Seq(Routes)
         /\ t.rt.rt_flash_list \in Seq(Routes) /\ t.rt.flash_requests \in Seq(Clients)
         /\ t.rt.nfc_rt_updates \in Seq(Clients)
         /\ InTable(t) \subseteq Routes /\ ToTell(t) \subseteq Routes /\ ToFlash(t) \subseteq Routes
<1>1. /\ t.route \in [Routes -> Fields \union {Freed}] /\ t.rt \in RtType /\ t.jobs \in Seq(Kinds)
      /\ t.rt.route_list \in Seq(Routes) /\ t.rt.rt_notify_list \in Seq(Routes)
      /\ t.rt.rt_flash_list \in Seq(Routes) /\ t.rt.flash_requests \in Seq(Clients)
      /\ t.rt.nfc_rt_updates \in Seq(Clients)
  BY DEF TabOK, TabType, RtType
<1> QED
  BY <1>1, ToSetIs DEF InTable, ToTell, ToFlash

\* The variables of RouteView, now and after the step.
LEMMA ViewNow ==
  /\ \A p : Installed(p) = InstalledIn(Tab, p)
  /\ Stale = StaleIn(Tab)
  /\ Rib = [p \in Dests |-> InstalledIn(Tab, p)]
  /\ Subscribers = ToSet(rt.nfc_rt_updates)
BY DEF Installed, InstalledIn, Stale, StaleIn, ToTell, Rib, Tab, Content, Subscribers

LEMMA ViewThen ==
  /\ \A p : Installed(p)' = InstalledIn(TabNow, p)
  /\ Stale' = StaleIn(TabNow)
  /\ Rib' = [p \in Dests |-> InstalledIn(TabNow, p)]
  /\ Subscribers' = ToSet(rt.nfc_rt_updates)'
BY DEF Installed, InstalledIn, Stale, StaleIn, ToTell, Rib, Tab, TabNow, Content, Subscribers

\* Steps that end the program.
LEMMA CrashKeeps ==
  ASSUME RouteInv, crashed # "glue", UNCHANGED <<route, rt, jobs, if_ip, view, asked_first>>,
         crashed' = "glue" => \E r \in ToSet(rt.rt_flash_list) : "DEL" \in route[r].rt_flags
  PROVE  RouteInv' /\ RouteStep
<1>1. TabNow = Tab /\ Tab' = Tab
  BY DEF TabNow, Tab
<1>2. Stale' = Stale /\ Rib' = Rib /\ Subscribers' = Subscribers /\ \A p : Installed(p)' = Installed(p)
  BY <1>1, ViewNow, ViewThen
<1>3. AskedSound'
  BY <1>1, <1>2 DEF RouteInv, AskedSound
<1>4. RouteInv'
  BY <1>1, <1>3 DEF RouteInv, AssertsHold, View!Seen
<1>5. RouteStep
  BY <1>2 DEF RouteStep, View!vars
<1> QED
  BY <1>4, <1>5

\* Handlers that change the table are changes of RouteView.
LEMMA ChangeKeeps ==
  ASSUME RouteInv, NEW asked \in Seq(Asks), NEW t, TabOK(t), Does(t, asked),
         t.route = route, t.rt = rt, crashed' = "no",
         if_ip' \in [Ports -> Dests \union {NULL}], UNCHANGED <<view, asked_first>>
  PROVE  RouteInv' /\ RouteStep
<1> DEFINE u == TabNow
<1>1. TabOK(u) /\ Follows(t, u) /\ u = Tab'
  BY DoesKeeps DEF TabNow, Tab
<1>2. StaleIn(t) = Stale /\ \A p : InstalledIn(t, p) = Installed(p) /\ rt_table_lookup(t, p) = rt_table_lookup(Tab, p)
  BY DEF StaleIn, Stale, ToTell, InstalledIn, Installed, Content, Tab, rt_table_lookup
<1>3. StaleIn(u) = Stale' /\ \A p : InstalledIn(u, p) = Installed(p)'
  BY ViewThen
<1>4. u.rt = rt'
  BY DEF TabNow
<1> HIDE DEF u
<1>5. /\ Stale \subseteq Stale'
      /\ \A p \in Dests \ Stale' : rt_table_lookup(Tab, p)' = rt_table_lookup(Tab, p) /\ Installed(p)' = Installed(p)
      /\ rt'.nfc_rt_updates = rt.nfc_rt_updates /\ rt'.flash_requests = rt.flash_requests
      /\ rt'.rt_flash_list = rt.rt_flash_list
  BY <1>1, <1>2, <1>3, <1>4 DEF Follows
<1>6. Subscribers' = Subscribers
  BY <1>5 DEF Subscribers
<1>7. AskedSound'
  BY <1>5, <1>6 DEF RouteInv, AskedSound
<1>8. RouteInv'
  BY <1>1, <1>7 DEF RouteInv, AssertsHold, View!Seen
<1>9. View!Change(Stale') /\ Stale' \in SUBSET Dests
  <2>1. Stale' \subseteq Dests
    <3>1. u.route \in [Routes -> Fields \union {Freed}] /\ ToTell(u) \subseteq Routes
      BY <1>1, TabTypes
    <3>2. \A r \in ToTell(u) : u.route[r].dest \in Dests
      BY <1>1, <3>1 DEF TabOK, Listed, Fields
    <3> QED
      BY <1>3, <3>2 DEF StaleIn
  <2>2. Rib' \in [Dests -> Contents \union {NoRoute}]
    BY <1>1, ViewThen, InstalledIs DEF u
  <2>3. \A p \in Dests \ Stale' : Rib'[p] = Rib[p]
    BY <1>5 DEF Rib
  <2> QED
    BY <1>5, <1>6, <2>1, <2>2, <2>3 DEF View!Change
<1>10. RouteStep
  BY <1>9 DEF RouteStep, View!Next
<1> QED
  BY <1>8, <1>10

LEMMA AsksAre ==
  /\ \A p \in Dests : Deletion(p) \in Asks /\ Clearing(p) \in Asks
  /\ \A p \in Dests, hop \in Hops \union {NULL} : Addition(p, hop) \in Asks
BY DEF Asks

LEMMA AddRouteKeeps ==
  ASSUME RouteInv, NEW p \in Dests, NEW hop \in Hops, AddRoute(p, hop)
  PROVE  RouteInv' /\ RouteStep
<1>1. <<Addition(p, hop)>> \in Seq(Asks)
  BY AsksAre
<1>2. TabOK(Tab) /\ Tab.route = route /\ Tab.rt = rt /\ if_ip' \in [Ports -> Dests \union {NULL}]
  BY DEF RouteInv, Tab, AddRoute
<1> QED
  BY <1>1, <1>2, ChangeKeeps DEF AddRoute

LEMMA DeleteRouteKeeps ==
  ASSUME RouteInv, NEW p \in Dests, DeleteRoute(p)
  PROVE  RouteInv' /\ RouteStep
<1>1. <<Deletion(p)>> \in Seq(Asks)
  BY AsksAre
<1>2. TabOK(Tab) /\ Tab.route = route /\ Tab.rt = rt /\ if_ip' \in [Ports -> Dests \union {NULL}]
  BY DEF RouteInv, Tab, DeleteRoute
<1> QED
  BY <1>1, <1>2, ChangeKeeps DEF DeleteRoute

LEMMA InstallRoutesKeeps ==
  ASSUME RouteInv, NEW result \in SUBSET (Dests \X Hops), InstallRoutes(result)
  PROVE  RouteInv' /\ RouteStep
<1> DEFINE found == SetToSeq(result)
           t == [Tab EXCEPT !.jobs = kick(@, "notif")]
           cleared == [k \in DOMAIN rt.route_list |-> Clearing(route[rt.route_list[k]].dest)]
           added == [k \in DOMAIN found |-> Addition(found[k][1], found[k][2])]
<1>1. TabOK(Tab) /\ Tab.route = route /\ Tab.rt = rt /\ Tab.jobs = jobs
  BY DEF RouteInv, Tab
<1>2. t = [route |-> route, rt |-> rt, jobs |-> kick(jobs, "notif")]
  BY DEF Tab
<1> HIDE DEF t
<1>3. TabOK(t) /\ t.route = route /\ t.rt = rt
  <2>1. /\ kick(jobs, "notif") \in Seq(Kinds) /\ ToSet(kick(jobs, "notif")) = ToSet(jobs) \union {"notif"}
        /\ IsInjective(kick(jobs, "notif"))
    <3>1. "notif" \in Kinds /\ jobs \in Seq(Kinds) /\ IsInjective(jobs)
      BY <1>1, TabTypes DEF Kinds, TabOK, JobsOK
    <3> QED
      BY <3>1, KickIs
  <2>2. t.route = route /\ t.rt = rt /\ t.jobs = kick(jobs, "notif")
    BY <1>2
  <2>3. t \in TabType
    BY <1>1, <1>2, <2>1 DEF TabOK, TabType
  <2>4. Listed(t) /\ Flagged(t) /\ OnePerDest(t) /\ Latest(t)
    BY <1>1, <2>2 DEF TabOK, Listed, Flagged, OnePerDest, Latest, InTable, ToTell, ToFlash
  <2>5. JobsOK(t)
    BY <1>1, <2>1, <2>2 DEF TabOK, JobsOK
  <2> QED
    BY <2>2, <2>3, <2>4, <2>5 DEF TabOK
<1>4. cleared \in Seq(Asks)
  <2>1. /\ rt.route_list \in Seq(Routes) /\ route \in [Routes -> Fields \union {Freed}]
        /\ \A r \in ToSet(rt.route_list) : route[r] # Freed
    BY <1>1, TabTypes DEF TabOK, Listed, InTable
  <2>2. ASSUME NEW k \in DOMAIN rt.route_list PROVE cleared[k] \in Asks
    <3>1. rt.route_list[k] \in Routes /\ route[rt.route_list[k]] # Freed
      BY <2>1 DEF ToSet
    <3>2. route[rt.route_list[k]].dest \in Dests
      BY <2>1, <3>1 DEF Fields
    <3> QED
      BY <3>2, AsksAre
  <2>3. cleared = [k \in 1..Len(rt.route_list) |-> cleared[k]] /\ Len(rt.route_list) \in Nat
        /\ DOMAIN rt.route_list = 1..Len(rt.route_list)
    BY <2>1
  <2> HIDE DEF cleared
  <2> QED
    BY <2>2, <2>3
<1>5. added \in Seq(Asks)
  <2>1. found \in Seq(Dests \X Hops)
    BY ResultIs
  <2> HIDE DEF found
  <2>2. ASSUME NEW k \in DOMAIN found PROVE added[k] \in Asks
    <3>1. found[k] \in Dests \X Hops
      BY <2>1
    <3>2. found[k][1] \in Dests /\ found[k][2] \in Hops
      BY <3>1
    <3> QED
      BY <3>2, AsksAre
  <2>3. added = [k \in 1..Len(found) |-> added[k]] /\ Len(found) \in Nat /\ DOMAIN found = 1..Len(found)
    BY <2>1
  <2> HIDE DEF added
  <2> QED
    BY <2>2, <2>3
<1> HIDE DEF found
<1>6. Does(t, cleared \o added) /\ crashed' = "no" /\ UNCHANGED <<if_ip, view, asked_first>>
  BY DEF InstallRoutes, t, found
<1> HIDE DEF cleared, added
<1>7. cleared \o added \in Seq(Asks)
  BY <1>4, <1>5, ConcatProperties
<1>8. if_ip' \in [Ports -> Dests \union {NULL}]
  BY <1>6 DEF RouteInv
<1> QED
  BY <1>3, <1>6, <1>7, <1>8, ChangeKeeps

LEMMA SetAddressKeeps ==
  ASSUME RouteInv, NEW i \in Ports, NEW p \in Dests, SetAddress(i, p)
  PROVE  RouteInv' /\ RouteStep
<1> DEFINE old == IF if_ip[i] = NULL THEN <<>> ELSE <<Deletion(if_ip[i])>>
<1>1. TabOK(Tab) /\ Tab.route = route /\ Tab.rt = rt /\ if_ip \in [Ports -> Dests \union {NULL}]
  BY DEF RouteInv, Tab
<1>2. CASE null_gw(Course(Tab, old)[Len(old)], p, NULL)
  <2>1. crashed = "no" /\ crashed' = "null gateway" /\ UNCHANGED <<route, rt, jobs, if_ip, view, asked_first>>
    BY <1>2 DEF SetAddress
  <2> QED
    BY <2>1, CrashKeeps
<1>3. CASE ~null_gw(Course(Tab, old)[Len(old)], p, NULL)
  <2>1. /\ Does(Tab, Append(old, Addition(p, NULL))) /\ crashed' = "no"
        /\ if_ip' = [if_ip EXCEPT ![i] = p] /\ UNCHANGED <<view, asked_first>>
    BY <1>3 DEF SetAddress
  <2>2. old \in Seq(Asks)
    <3>1. <<>> \in Seq(Asks)
      OBVIOUS
    <3>2. if_ip[i] # NULL => <<Deletion(if_ip[i])>> \in Seq(Asks)
      BY <1>1, AsksAre
    <3> QED
      BY <3>1, <3>2
  <2> HIDE DEF old
  <2>3. Append(old, Addition(p, NULL)) \in Seq(Asks)
    BY <2>2, AsksAre
  <2>4. if_ip' \in [Ports -> Dests \union {NULL}]
    BY <1>1, <2>1
  <2> QED
    BY <1>1, <2>1, <2>3, <2>4, ChangeKeeps
<1> QED
  BY <1>2, <1>3

LEMMA UnsetAddressKeeps ==
  ASSUME RouteInv, NEW i \in Ports, UnsetAddress(i)
  PROVE  RouteInv' /\ RouteStep
<1>1. /\ TabOK(Tab) /\ Tab.route = route /\ Tab.rt = rt /\ if_ip[i] \in Dests
      /\ if_ip' \in [Ports -> Dests \union {NULL}]
  BY DEF RouteInv, Tab, UnsetAddress
<1>2. <<Deletion(if_ip[i])>> \in Seq(Asks)
  BY <1>1, AsksAre
<1> QED
  BY <1>1, <1>2, ChangeKeeps DEF UnsetAddress

-----------------------------------------------------------------------------
(* Applications and jobs. *)

\* Nothing that RouteView sees of the table changes.
LEMMA SameView ==
  ASSUME TabOK(Tab), TabOK(TabNow),
         ToSet(rt'.route_list) = ToSet(rt.route_list), ToSet(rt'.rt_notify_list) = ToSet(rt.rt_notify_list),
         \A r \in ToSet(rt.route_list) \union ToSet(rt.rt_notify_list) :
           /\ route'[r].dest = route[r].dest /\ route'[r].is_direct = route[r].is_direct
           /\ route'[r].nexthops = route[r].nexthops
  PROVE  /\ Rib' = Rib /\ Stale' = Stale
         /\ \A p \in Dests : Installed(p)' = Installed(p) /\ rt_table_lookup(Tab, p)' = rt_table_lookup(Tab, p)
<1>1. /\ TabNow.route = route' /\ TabNow.rt = rt' /\ Tab.route = route /\ Tab.rt = rt /\ Tab' = TabNow
  BY DEF Tab, TabNow
<1>2. \A p \in Dests : /\ rt_table_lookup(TabNow, p) = rt_table_lookup(Tab, p)
                       /\ InstalledIn(TabNow, p) = InstalledIn(Tab, p)
  BY <1>1, SameTable DEF InTable
<1>3. StaleIn(TabNow) = StaleIn(Tab)
  BY <1>1 DEF StaleIn, ToTell
<1> QED
  BY <1>1, <1>2, <1>3, ViewNow, ViewThen

\* The chain of subscribers is another.
LEMMA ChainKeeps ==
  ASSUME RouteInv, NEW s \in Seq(Clients), rt' = [rt EXCEPT !.nfc_rt_updates = s], UNCHANGED <<route, jobs>>
  PROVE  /\ TabOK(Tab)' /\ Rib' = Rib /\ Stale' = Stale /\ Subscribers' = ToSet(s)
         /\ \A p \in Dests : Installed(p)' = Installed(p) /\ rt_table_lookup(Tab, p)' = rt_table_lookup(Tab, p)
         /\ rt'.rt_flash_list = rt.rt_flash_list /\ rt'.flash_requests = rt.flash_requests
<1>1. TabOK(Tab) /\ Tab.route = route /\ Tab.rt = rt /\ Tab.jobs = jobs /\ rt \in RtType
  BY TabTypes DEF RouteInv, Tab
<1>2. /\ rt'.route_list = rt.route_list /\ rt'.rt_notify_list = rt.rt_notify_list
      /\ rt'.rt_flash_list = rt.rt_flash_list /\ rt'.flash_requests = rt.flash_requests
      /\ rt'.nfc_rt_updates = s /\ rt' \in RtType
  BY <1>1 DEF RtType
<1>3. TabOK(TabNow) /\ TabNow = Tab'
  <2>1. TabNow.route = route /\ TabNow.rt = rt' /\ TabNow.jobs = jobs
    BY DEF TabNow
  <2>2. TabNow \in TabType
    BY <1>1, <1>2, TabTypes DEF TabNow, TabType
  <2>3. TabNow = Tab'
    BY DEF TabNow, Tab
  <2> QED
    BY <1>1, <1>2, <2>1, <2>2, <2>3
    DEF TabOK, Listed, Flagged, OnePerDest, Latest, JobsOK, InTable, ToTell, ToFlash
<1> QED
  BY <1>1, <1>2, <1>3, SameView DEF Subscribers

LEMMA SubscribeKeeps ==
  ASSUME RouteInv, NEW c \in Clients, Subscribe(c)
  PROVE  RouteInv' /\ RouteStep
<1> DEFINE s == <<c>> \o rt.nfc_rt_updates
           unknown == [p \in Dests |-> Unknown]
<1>1. rt.nfc_rt_updates \in Seq(Clients)
  BY TabTypes DEF RouteInv, Tab
<1>2. s \in Seq(Clients) /\ ToSet(s) = {c} \union Subscribers
  BY <1>1, ConsIs DEF Subscribers
<1>3. /\ rt' = [rt EXCEPT !.nfc_rt_updates = s] /\ UNCHANGED <<route, jobs, if_ip, asked_first, crashed>>
      /\ view' = IF c \in Subscribers THEN view ELSE [view EXCEPT ![c] = unknown]
  BY DEF Subscribe
<1> HIDE DEF s
<1>4. /\ TabOK(Tab)' /\ Rib' = Rib /\ Stale' = Stale /\ Subscribers' = {c} \union Subscribers
      /\ \A p \in Dests : Installed(p)' = Installed(p) /\ rt_table_lookup(Tab, p)' = rt_table_lookup(Tab, p)
      /\ rt'.rt_flash_list = rt.rt_flash_list /\ rt'.flash_requests = rt.flash_requests
  BY <1>2, <1>3, ChainKeeps
<1>5. unknown \in [Dests -> View!Seen] /\ view \in [Clients -> [Dests -> View!Seen]]
  BY DEF View!Seen, RouteInv
<1> HIDE DEF unknown
<1>6. view' \in [Clients -> [Dests -> View!Seen]] /\ \A d \in Subscribers : view'[d] = view[d]
  BY <1>3, <1>5
<1>7. AskedSound'
  BY <1>3, <1>4, <1>6 DEF RouteInv, AskedSound
<1>8. RouteInv'
  BY <1>3, <1>4, <1>6, <1>7 DEF RouteInv, AssertsHold, View!Seen
<1>9. [View!Next]_View!vars
  <2>1. CASE c \in Subscribers
    BY <1>3, <1>4, <2>1 DEF View!vars
  <2>2. CASE c \notin Subscribers
    <3>1. View!Subscribe(c)
      BY <1>3, <1>4, <2>2 DEF View!Subscribe, unknown
    <3> QED
      BY <3>1 DEF View!Next
  <2> QED
    BY <2>1, <2>2
<1> QED
  BY <1>3, <1>8, <1>9 DEF RouteStep

LEMMA UnsubscribeKeeps ==
  ASSUME RouteInv, NEW c \in Clients, Unsubscribe(c)
  PROVE  RouteInv' /\ RouteStep
<1> DEFINE s == RemoveFirst(rt.nfc_rt_updates, c)
<1>1. rt.nfc_rt_updates \in Seq(Clients)
  BY TabTypes DEF RouteInv, Tab
<1>2. s \in Seq(Clients) /\ ToSet(s) \subseteq Subscribers /\ Subscribers \ {c} \subseteq ToSet(s)
  BY <1>1, RemoveIs DEF Subscribers, Within
<1>3. /\ rt' = [rt EXCEPT !.nfc_rt_updates = s] /\ UNCHANGED <<route, jobs, if_ip, view, crashed>>
      /\ asked_first' = IF c \in ToSet(s) THEN asked_first ELSE asked_first \ {c}
  BY DEF Unsubscribe
<1> HIDE DEF s
<1>4. /\ TabOK(Tab)' /\ Rib' = Rib /\ Stale' = Stale /\ Subscribers' = ToSet(s)
      /\ \A p \in Dests : Installed(p)' = Installed(p) /\ rt_table_lookup(Tab, p)' = rt_table_lookup(Tab, p)
      /\ rt'.rt_flash_list = rt.rt_flash_list /\ rt'.flash_requests = rt.flash_requests
  BY <1>2, <1>3, ChainKeeps
<1>5. \A d \in asked_first' : d \in asked_first /\ d \in Subscribers'
  BY <1>2, <1>3, <1>4 DEF RouteInv, AskedSound
<1>6. AskedSound'
  BY <1>3, <1>4, <1>5 DEF RouteInv, AskedSound
<1>7. RouteInv'
  BY <1>3, <1>4, <1>6 DEF RouteInv, AssertsHold, View!Seen
<1>8. [View!Next]_View!vars
  <2>1. CASE c \in ToSet(s)
    <3>1. Subscribers' = Subscribers
      BY <1>2, <1>4, <2>1
    <3> QED
      BY <1>3, <1>4, <3>1 DEF View!vars
  <2>2. CASE c \notin ToSet(s)
    <3>1. Subscribers' = Subscribers \ {c}
      BY <1>2, <1>4, <2>2
    <3>2. View!Unsubscribe(c)
      BY <1>3, <1>4, <3>1 DEF View!Unsubscribe
    <3> QED
      BY <3>2 DEF View!Next
  <2> QED
    BY <2>1, <2>2
<1>9. \A d \in asked_first \ asked_first' : d \notin Subscribers'
  BY <1>3, <1>4
<1> QED
  BY <1>7, <1>8, <1>9 DEF RouteStep

\* What a client is told of a destination is what the first route of the list says.
LEMMA ToldIs ==
  ASSUME NEW v, NEW list \in Seq(Routes), NEW p \in Dests
  PROVE  \/ Told(v, list)[p] = v[p] /\ \A b \in ToSet(list) : route[b].dest # p
         \/ \E a \in ToSet(list) :
              /\ route[a].dest = p /\ Told(v, list)[p] = Says(a)
              /\ \A b \in ToSet(list) : route[b].dest = p => b = a \/ Before(list, a, b)
<1> DEFINE about == {k \in DOMAIN list : route[list[k]].dest = p}
           m == Min(about)
<1>1. Told(v, list)[p] = IF about = {} THEN v[p] ELSE Says(list[m])
  BY DEF Told
<1>2. about \subseteq Nat
  OBVIOUS
<1>3. CASE about = {}
  <2>1. \A b \in ToSet(list) : route[b].dest # p
    BY <1>3 DEF ToSet
  <2> QED
    BY <1>1, <1>3, <2>1
<1>4. CASE about # {}
  <2>1. m \in about /\ \A k \in about : m <= k
    BY <1>2, <1>4, MinIs
  <2>2. m \in DOMAIN list /\ route[list[m]].dest = p
    BY <2>1
  <2> HIDE DEF m
  <2>3. list[m] \in ToSet(list)
    BY <2>2 DEF ToSet
  <2>4. ASSUME NEW b \in ToSet(list), route[b].dest = p PROVE b = list[m] \/ Before(list, list[m], b)
    <3>1. PICK k \in DOMAIN list : list[k] = b
      BY <2>4 DEF ToSet
    <3>2. m <= k /\ m \in Nat /\ k \in Nat
      BY <1>2, <2>1, <2>4, <3>1
    <3>3. m = k \/ m < k
      BY <3>2
    <3> QED
      BY <2>2, <3>1, <3>3 DEF Before
  <2> QED
    BY <1>1, <1>4, <2>2, <2>3, <2>4
<1> QED
  BY <1>3, <1>4

\* What subscribers are told brings them up to date.
LEMMA ChangesSay ==
  ASSUME TabOK(Tab), NEW v, NEW p \in Dests
  PROVE  Told(v, rt.rt_notify_list)[p] = IF p \in Stale THEN Installed(p) ELSE v[p]
<1> DEFINE list == rt.rt_notify_list
<1>1. /\ list \in Seq(Routes) /\ Tab.route = route /\ Tab.rt = rt /\ ToTell(Tab) = ToSet(list)
      /\ ToSet(list) \subseteq Routes
  BY TabTypes DEF Tab, ToTell
<1>2. p \in Stale <=> \E b \in ToSet(list) : route[b].dest = p
  BY DEF Stale
<1>3. CASE \A b \in ToSet(list) : route[b].dest # p
  BY <1>1, <1>2, <1>3, ToldIs
<1>4. CASE \E a \in ToSet(list) :
             /\ route[a].dest = p /\ Told(v, list)[p] = Says(a)
             /\ \A b \in ToSet(list) : route[b].dest = p => b = a \/ Before(list, a, b)
  <2>1. PICK a \in ToSet(list) :
             /\ route[a].dest = p /\ Told(v, list)[p] = Says(a)
             /\ \A b \in ToSet(list) : route[b].dest = p => b = a \/ Before(list, a, b)
    BY <1>4
  <2>2. route[a] # Freed /\ a \in Routes
    BY <1>1 DEF TabOK, Listed
  <2>3. CASE "DEL" \notin route[a].rt_flags
    <3>1. a \in InTable(Tab)
      BY <1>1, <2>2, <2>3 DEF TabOK, Flagged
    <3>2. rt_table_lookup(Tab, p) = a /\ a # NULL
      BY <1>1, <2>1, <2>2, <3>1, RouteIs, RouteAssumption
    <3> QED
      BY <1>2, <2>1, <2>3, <3>2 DEF Says, Installed
  <2>4. CASE "DEL" \in route[a].rt_flags
    <3>1. ASSUME NEW q \in InTable(Tab), route[q].dest = p PROVE FALSE
      <4>1. q \in ToSet(list)
        BY <1>1, <2>1, <2>4, <3>1 DEF TabOK, Latest
      <4>2. "DEL" \notin route[q].rt_flags
        BY <1>1, <3>1, TabTypes DEF TabOK, Flagged, Listed
      <4>3. Before(list, a, q)
        BY <2>1, <2>4, <3>1, <4>1, <4>2
      <4> QED
        BY <1>1, <2>1, <3>1, <4>2, <4>3 DEF TabOK, Latest
    <3>2. rt_table_lookup(Tab, p) = NULL
      BY <1>1, <3>1, RouteIs
    <3> QED
      BY <1>2, <2>1, <2>4, <3>2 DEF Says, Installed
  <2> QED
    BY <2>3, <2>4
<1> QED
  BY <1>1, <1>3, <1>4, ToldIs

\* What the flash says of a destination is what is installed, but for changes that are
\* to be told, and it says something of every route of the picture.
LEMMA PictureSays ==
  ASSUME TabOK(Tab), NEW v, NEW p \in Dests \ Stale
  PROVE  /\ Told(v, rt.rt_flash_list)[p] \in {v[p], Installed(p)}
         /\ rt_table_lookup(Tab, p) \in ToFlash(Tab) /\ Installed(p) # NoRoute
              => Told(v, rt.rt_flash_list)[p] = Installed(p)
<1> DEFINE list == rt.rt_flash_list
<1>1. /\ list \in Seq(Routes) /\ Tab.route = route /\ Tab.rt = rt /\ ToFlash(Tab) = ToSet(list)
      /\ ToSet(list) \subseteq Routes
  BY TabTypes DEF Tab, ToFlash
<1>2. \A a \in ToTell(Tab) : route[a].dest # p
  BY <1>1 DEF Stale, ToTell
<1>3. CASE \A b \in ToSet(list) : route[b].dest # p
  <2>1. Told(v, list)[p] = v[p]
    BY <1>1, <1>3, ToldIs
  <2>2. Installed(p) # NoRoute => route[rt_table_lookup(Tab, p)].dest = p
    BY <1>1, RouteIs DEF Installed
  <2> QED
    BY <1>1, <1>3, <2>1, <2>2
<1>4. CASE \E a \in ToSet(list) : route[a].dest = p /\ Told(v, list)[p] = Says(a)
  <2>1. PICK a \in ToSet(list) : route[a].dest = p /\ Told(v, list)[p] = Says(a)
    BY <1>4
  <2>2. route[a] # Freed /\ a \in Routes /\ a \notin ToTell(Tab)
    BY <1>1, <1>2, <2>1 DEF TabOK, Listed
  <2>3. "DEL" \notin route[a].rt_flags
    BY <1>1, <2>2 DEF TabOK, Flagged
  <2>4. a \in InTable(Tab)
    BY <1>1, <2>2, <2>3 DEF TabOK, Flagged
  <2>5. rt_table_lookup(Tab, p) = a /\ a # NULL
    BY <1>1, <2>1, <2>2, <2>4, RouteIs, RouteAssumption
  <2> QED
    BY <2>1, <2>3, <2>5 DEF Says, Installed
<1> QED
  BY <1>1, <1>3, <1>4, ToldIs

\* What a client knows after it was told something.
LEMMA ToldTypes ==
  ASSUME TabOK(Tab), NEW list \in Seq(Routes), \A r \in ToSet(list) : route[r] # Freed,
         NEW v \in [Dests -> View!Seen]
  PROVE  Told(v, list) \in [Dests -> View!Seen]
<1>1. ToSet(list) \subseteq Routes /\ route \in [Routes -> Fields \union {Freed}]
  BY ToSetIs, TabTypes DEF Tab
<1>2. ASSUME NEW p \in Dests PROVE Told(v, list)[p] \in View!Seen
  <2>1. CASE Told(v, list)[p] = v[p]
    BY <2>1
  <2>2. CASE \E a \in ToSet(list) : Told(v, list)[p] = Says(a)
    <3>1. PICK a \in ToSet(list) : Told(v, list)[p] = Says(a)
      BY <2>2
    <3>2. route[a] \in Fields
      BY <1>1
    <3>3. Content(a) \in Contents
      BY <3>2 DEF Content, Contents, Fields
    <3> QED
      BY <3>1, <3>3 DEF Says, View!Seen
  <2> QED
    BY <2>1, <2>2, ToldIs
<1>3. Told(v, list) = [p \in Dests |-> Told(v, list)[p]]
  BY DEF Told
<1> QED
  BY <1>2, <1>3

LEMMA RequestFlashKeeps ==
  ASSUME RouteInv, NEW c \in Clients, RequestFlash(c)
  PROVE  RouteInv' /\ RouteStep
<1> DEFINE requests == Append(rt.flash_requests, c)
<1>1. TabOK(Tab) /\ Tab.route = route /\ Tab.rt = rt /\ Tab.jobs = jobs /\ TabNow = Tab'
  BY DEF RouteInv, Tab, TabNow
<1>2. /\ rt \in RtType /\ route \in [Routes -> Fields \union {Freed}] /\ jobs \in Seq(Kinds)
      /\ rt.flash_requests \in Seq(Clients) /\ rt.route_list \in Seq(Routes)
      /\ InTable(Tab) \subseteq Routes /\ ToTell(Tab) \subseteq Routes /\ ToFlash(Tab) \subseteq Routes
  BY <1>1, TabTypes
<1>3. /\ requests \in Seq(Clients) /\ ToSet(requests) = ToSet(rt.flash_requests) \union {c} /\ requests # <<>>
  <2> DEFINE q == rt.flash_requests
  <2>1. q \in Seq(Clients)
    BY <1>2
  <2> HIDE DEF q
  <2>2. Append(q, c) \in Seq(Clients) /\ ToSet(Append(q, c)) = ToSet(q) \union {c}
    BY <2>1, AppendIs
  <2>3. Append(q, c) # <<>>
    <3>1. ToSet(<<>>) = {}
      BY DEF ToSet
    <3>2. c \in ToSet(Append(q, c))
      BY <2>2
    <3> QED
      BY <3>1, <3>2
  <2>4. requests = Append(q, c)
    BY DEF q
  <2> HIDE DEF requests
  <2> QED
    BY <2>2, <2>3, <2>4 DEF q
<1> HIDE DEF requests
<1>4. UNCHANGED <<if_ip, view, crashed>> /\ crashed = "no"
  BY DEF RequestFlash
<1>5. /\ TabNow.route = route' /\ TabNow.rt = rt' /\ TabNow.jobs = jobs'
  BY DEF TabNow
<1>6. CASE "flash" \in ToSet(jobs)
  <2>1. rt' = [rt EXCEPT !.flash_requests = requests] /\ UNCHANGED <<route, jobs, asked_first>>
    BY <1>6 DEF RequestFlash, requests
  <2>2. /\ rt'.route_list = rt.route_list /\ rt'.rt_notify_list = rt.rt_notify_list
        /\ rt'.rt_flash_list = rt.rt_flash_list /\ rt'.flash_requests = requests
        /\ rt'.nfc_rt_updates = rt.nfc_rt_updates /\ rt' \in RtType
    BY <1>2, <1>3, <2>1 DEF RtType
  <2>3. TabOK(TabNow)
    <3>1. TabNow \in TabType
      BY <1>1, <1>2, <2>1, <2>2, TabTypes DEF TabNow, TabType
    <3> QED
      BY <1>1, <1>3, <1>5, <1>6, <2>1, <2>2, <3>1
      DEF TabOK, Listed, Flagged, OnePerDest, Latest, JobsOK, InTable, ToTell, ToFlash
  <2>4. /\ Rib' = Rib /\ Stale' = Stale /\ Subscribers' = Subscribers
        /\ \A p \in Dests : Installed(p)' = Installed(p) /\ rt_table_lookup(Tab, p)' = rt_table_lookup(Tab, p)
    BY <1>1, <2>1, <2>2, <2>3, SameView DEF Subscribers
  <2>5. AskedSound'
    BY <1>3, <1>4, <2>1, <2>2, <2>4 DEF RouteInv, AskedSound
  <2>6. RouteInv'
    BY <1>1, <1>4, <2>3, <2>5 DEF RouteInv, AssertsHold, View!Seen
  <2> QED
    BY <1>4, <2>1, <2>4, <2>6 DEF RouteStep, View!vars
<1>7. CASE "flash" \notin ToSet(jobs)
  <2> DEFINE new == picture \o rt.rt_flash_list
  <2>1. /\ rt' = [rt EXCEPT !.flash_requests = requests, !.rt_flash_list = picture \o @]
        /\ route' = [r \in Routes |-> IF r \in ToSet(picture)
                       THEN [route[r] EXCEPT !.rt_flags = @ \union {"FLASH"}] ELSE route[r]]
        /\ jobs' = Append(jobs, "flash")
        /\ asked_first' = IF c \in Subscribers THEN asked_first \union {c} ELSE asked_first
    BY <1>7 DEF RequestFlash, requests
  <2>2. /\ picture \in Seq(Routes) /\ ToSet(picture) = InTable(Tab) /\ IsInjective(picture)
    BY <1>1, <1>2, ReverseIs DEF picture, InTable, TabOK, Listed
  <2>3. rt.rt_flash_list = <<>> /\ rt.flash_requests = <<>>
    BY <1>1, <1>7 DEF TabOK, JobsOK
  <2>4. new = picture
    BY <2>2, <2>3, ConcatEmptySeq
  <2> HIDE DEF new
  <2>5. /\ rt'.route_list = rt.route_list /\ rt'.rt_notify_list = rt.rt_notify_list
        /\ rt'.rt_flash_list = picture /\ rt'.flash_requests = requests
        /\ rt'.nfc_rt_updates = rt.nfc_rt_updates /\ rt' \in RtType
    <3>1. rt' = [rt EXCEPT !.flash_requests = requests, !.rt_flash_list = picture]
      BY <2>1, <2>4 DEF new
    <3> QED
      BY <1>2, <1>3, <2>2, <3>1 DEF RtType
  <2>6. /\ jobs' \in Seq(Kinds) /\ ToSet(jobs') = ToSet(jobs) \union {"flash"} /\ IsInjective(jobs')
    <3>1. "flash" \in Kinds /\ IsInjective(jobs)
      BY <1>1 DEF Kinds, TabOK, JobsOK
    <3> QED
      BY <1>2, <1>7, <2>1, <3>1, AppendIs
  <2>7. \A r \in InTable(Tab) : route[r] \in Fields
    BY <1>1, <1>2 DEF TabOK, Listed
  <2>8. /\ \A r \in InTable(Tab) : /\ route'[r] \in Fields /\ route'[r].dest = route[r].dest
                                   /\ route'[r].is_direct = route[r].is_direct
                                   /\ route'[r].nexthops = route[r].nexthops
                                   /\ route'[r].rt_flags = route[r].rt_flags \union {"FLASH"}
        /\ \A r \in Routes \ InTable(Tab) : route'[r] = route[r]
    <3>1. ASSUME NEW r \in InTable(Tab)
          PROVE /\ route'[r] \in Fields /\ route'[r].dest = route[r].dest
                /\ route'[r].is_direct = route[r].is_direct
                /\ route'[r].nexthops = route[r].nexthops
                /\ route'[r].rt_flags = route[r].rt_flags \union {"FLASH"}
      <4>1. route'[r] = [route[r] EXCEPT !.rt_flags = route[r].rt_flags \union {"FLASH"}]
        BY <1>2, <2>1, <2>2
      <4>2. route[r] \in Fields
        BY <2>7
      <4> QED
        BY <4>1, <4>2 DEF Fields, Flags
    <3>2. \A r \in Routes \ InTable(Tab) : route'[r] = route[r]
      BY <2>1, <2>2
    <3> QED
      BY <3>1, <3>2
  <2>9. /\ InTable(TabNow) = InTable(Tab) /\ ToTell(TabNow) = ToTell(Tab) /\ ToFlash(TabNow) = InTable(Tab)
        /\ ToFlash(Tab) = {}
    <3>1. ToSet(<<>>) = {}
      BY DEF ToSet
    <3> QED
      BY <1>1, <1>5, <2>2, <2>3, <2>5, <3>1 DEF InTable, ToTell, ToFlash
  <2>10. \A r \in Routes : route[r] # Freed =>
           /\ route'[r] # Freed /\ route'[r].dest = route[r].dest
           /\ \A f \in {"ADD", "DEL", "UPDATE"} : f \in route'[r].rt_flags <=> f \in route[r].rt_flags
    BY <2>8, RouteAssumption DEF Fields, Freed
  <2>11. \A r \in Routes : route'[r] # Freed => route[r] # Freed
    BY <2>7, <2>8, RouteAssumption DEF Fields, Freed
  <2>12. TabOK(TabNow)
    <3>1. TabNow \in TabType
      <4>1. route' = [r \in Routes |-> route'[r]]
        BY <2>1
      <4>2. \A r \in Routes : route'[r] \in Fields \union {Freed}
        BY <1>2, <2>8
      <4>3. route' \in [Routes -> Fields \union {Freed}]
        BY <4>1, <4>2
      <4> QED
        BY <1>5, <2>5, <2>6, <4>3 DEF TabNow, TabType
    <3>2. Listed(TabNow)
      BY <1>1, <1>2, <1>5, <2>2, <2>5, <2>9, <2>10 DEF TabOK, Listed
    <3>3. Flagged(TabNow)
      <4>1. ASSUME NEW r \in Routes, route'[r] # Freed
            PROVE  /\ r \in ToTell(Tab) <=> route'[r].rt_flags \intersect {"ADD", "DEL", "UPDATE"} # {}
                   /\ r \in InTable(Tab) <=> "FLASH" \in route'[r].rt_flags
                   /\ r \in InTable(Tab) <=> "DEL" \notin route'[r].rt_flags
        <5>1. route[r] # Freed
          BY <2>11, <4>1
        <5>2. /\ r \in ToTell(Tab) <=> route[r].rt_flags \intersect {"ADD", "DEL", "UPDATE"} # {}
              /\ "FLASH" \notin route[r].rt_flags
              /\ r \in InTable(Tab) <=> "DEL" \notin route[r].rt_flags
          BY <1>1, <2>9, <5>1 DEF TabOK, Flagged
        <5> QED
          BY <2>8, <2>10, <5>1, <5>2
      <4> QED
        BY <1>5, <2>9, <4>1 DEF Flagged
    <3>4. OnePerDest(TabNow)
      BY <1>1, <1>5, <2>8, <2>9 DEF TabOK, OnePerDest
    <3>5. Latest(TabNow)
      <4>1. \A r \in ToTell(Tab) \union InTable(Tab) :
              r \in Routes /\ route'[r].dest = route[r].dest
              /\ ("DEL" \in route'[r].rt_flags <=> "DEL" \in route[r].rt_flags)
        BY <1>1, <1>2, <2>10 DEF TabOK, Listed
      <4>2. ASSUME NEW a, NEW b, Before(rt.rt_notify_list, a, b), route'[a].dest = route'[b].dest
            PROVE  "DEL" \in route'[b].rt_flags
        <5>1. a \in ToTell(Tab) /\ b \in ToTell(Tab)
          BY <1>1, <4>2, TabTypes, ToSetIs DEF ToTell
        <5> QED
          BY <1>1, <4>1, <4>2, <5>1 DEF TabOK, Latest
      <4>3. \A a \in ToTell(Tab) : \A b \in InTable(Tab) :
               "DEL" \in route'[a].rt_flags /\ route'[a].dest = route'[b].dest => b \in ToTell(Tab)
        BY <1>1, <4>1 DEF TabOK, Latest
      <4> QED
        BY <1>5, <2>5, <2>9, <4>2, <4>3 DEF Latest
    <3>6. JobsOK(TabNow)
      BY <1>3, <1>5, <2>5, <2>6 DEF JobsOK
    <3> QED
      BY <3>1, <3>2, <3>3, <3>4, <3>5, <3>6 DEF TabOK
  <2>13. /\ Rib' = Rib /\ Stale' = Stale
         /\ \A p \in Dests : Installed(p)' = Installed(p) /\ rt_table_lookup(Tab, p)' = rt_table_lookup(Tab, p)
    <3>1. \A r \in ToTell(Tab) : route'[r].dest = route[r].dest /\ route'[r].is_direct = route[r].is_direct
                                 /\ route'[r].nexthops = route[r].nexthops
      BY <1>2, <2>8
    <3>2. /\ ToSet(rt.route_list) = InTable(Tab) /\ ToSet(rt.rt_notify_list) = ToTell(Tab)
          /\ rt'.route_list = rt.route_list /\ rt'.rt_notify_list = rt.rt_notify_list
      BY <1>1, <2>5 DEF InTable, ToTell
    <3> QED
      BY <1>1, <2>8, <2>12, <3>1, <3>2, SameView
  <2>14. Subscribers' = Subscribers /\ ToSet(rt'.rt_flash_list) = InTable(Tab) /\ c \in ToSet(rt'.flash_requests)
    BY <1>3, <2>2, <2>5 DEF Subscribers
  <2>15. AskedSound'
    <3>1. asked_first = {}
      BY <2>3 DEF RouteInv, AskedSound, ToSet
    <3>2. \A d \in asked_first' : d = c /\ c \in Subscribers
      BY <2>1, <3>1
    <3>3. ASSUME NEW p \in Dests, Installed(p) # NoRoute PROVE rt_table_lookup(Tab, p) \in InTable(Tab)
      BY <1>1, <3>3, RouteIs DEF Installed
    <3> QED
      BY <2>13, <2>14, <3>2, <3>3 DEF AskedSound
  <2>16. RouteInv'
    BY <1>1, <1>4, <2>12, <2>15 DEF RouteInv, AssertsHold, View!Seen
  <2>17. asked_first \ asked_first' = {}
    BY <2>1
  <2> QED
    BY <1>4, <2>13, <2>14, <2>16, <2>17 DEF RouteStep, View!vars
<1> QED
  BY <1>6, <1>7

LEMMA TailIs ==
  ASSUME NEW S, NEW s \in Seq(S), s # <<>>
  PROVE  /\ Tail(s) \in Seq(S) /\ Head(s) \in S /\ ToSet(s) = {Head(s)} \union ToSet(Tail(s))
         /\ IsInjective(s) => IsInjective(Tail(s)) /\ Head(s) \notin ToSet(Tail(s))
<1> DEFINE n == Len(s)
           t == Tail(s)
<1>1. n \in Nat /\ n # 0 /\ DOMAIN s = 1..n /\ Head(s) = s[1]
  OBVIOUS
<1>2. t \in Seq(S) /\ Len(t) = n - 1
  BY <1>1
<1>3. DOMAIN t = 1..(n - 1) /\ \A i \in 1..(n - 1) : t[i] = s[i + 1]
  BY <1>1, <1>2
<1> HIDE DEF t
<1>4. \A i \in DOMAIN s : i = 1 \/ (i - 1 \in DOMAIN t /\ s[i] = t[i - 1])
  <2>1. ASSUME NEW i \in DOMAIN s, i # 1 PROVE i - 1 \in DOMAIN t /\ s[i] = t[i - 1]
    <3>1. i - 1 \in 1..(n - 1) /\ (i - 1) + 1 = i
      BY <1>1, <2>1
    <3> QED
      BY <1>3, <3>1
  <2> QED
    BY <2>1
<1>5. 1 \in DOMAIN s /\ \A i \in DOMAIN t : i + 1 \in DOMAIN s /\ i + 1 # 1 /\ t[i] = s[i + 1]
  BY <1>1, <1>3
<1>6. ToSet(s) = {s[1]} \union ToSet(t)
  <2>1. ToSet(s) \subseteq {s[1]} \union ToSet(t)
    BY <1>4 DEF ToSet
  <2>2. {s[1]} \union ToSet(t) \subseteq ToSet(s)
    BY <1>5 DEF ToSet
  <2> QED
    BY <2>1, <2>2
<1>7. IsInjective(s) => IsInjective(t) /\ s[1] \notin ToSet(t)
  <2> SUFFICES ASSUME IsInjective(s) PROVE IsInjective(t) /\ s[1] \notin ToSet(t)
    OBVIOUS
  <2>1. ASSUME NEW i \in DOMAIN t, NEW j \in DOMAIN t, t[i] = t[j] PROVE i = j
    <3>1. i + 1 = j + 1
      BY <1>5, <2>1 DEF IsInjective
    <3> QED
      BY <1>1, <1>3, <3>1
  <2>2. s[1] \notin ToSet(t)
    BY <1>5 DEF IsInjective, ToSet
  <2> QED
    BY <2>1, <2>2 DEF IsInjective
<1>8. s[1] \in S
  BY <1>1, <1>5
<1> QED
  BY <1>1, <1>2, <1>6, <1>7, <1>8 DEF t

LEMMA NotifJobKeeps ==
  ASSUME RouteInv, NotifJob
  PROVE  RouteInv' /\ RouteStep
<1> DEFINE list == ToSet(rt.rt_notify_list)
           gone == {r \in list : "DEL" \in route[r].rt_flags}
<1>1. /\ TabOK(Tab) /\ Tab.route = route /\ Tab.rt = rt /\ Tab.jobs = jobs /\ TabNow = Tab'
      /\ TabNow.route = route' /\ TabNow.rt = rt' /\ TabNow.jobs = jobs'
  BY DEF RouteInv, Tab, TabNow
<1>2. /\ rt \in RtType /\ route \in [Routes -> Fields \union {Freed}] /\ jobs \in Seq(Kinds)
      /\ InTable(Tab) \subseteq Routes /\ ToTell(Tab) \subseteq Routes /\ ToFlash(Tab) \subseteq Routes
      /\ list = ToTell(Tab)
  BY <1>1, TabTypes DEF ToTell
<1>3. crashed = "no" /\ jobs # <<>> /\ Head(jobs) = "notif" /\ UNCHANGED <<if_ip, asked_first>>
  BY DEF NotifJob
<1>4. CASE \E r \in gone : ~Freeable(r, {"route_list", "rt_flash_list"})
  <2>1. crashed' = "glue" /\ UNCHANGED <<route, rt, jobs, view>>
    BY <1>4 DEF NotifJob
  <2>2. PICK r \in gone : ~Freeable(r, {"route_list", "rt_flash_list"})
    BY <1>4
  <2>3. r \in ToSet(rt["route_list"]) \/ r \in ToSet(rt["rt_flash_list"])
    BY <2>2 DEF Freeable
  <2>4. r \in InTable(Tab) \/ r \in ToSet(rt.rt_flash_list)
    BY <1>1, <2>3 DEF InTable
  <2>5. r \notin InTable(Tab)
    BY <1>1, <1>2, <2>2 DEF TabOK, Flagged, Listed
  <2> QED
    BY <1>3, <2>1, <2>2, <2>4, <2>5, CrashKeeps
<1>5. CASE ~\E r \in gone : ~Freeable(r, {"route_list", "rt_flash_list"})
  <2>1. /\ view' = [c \in Clients |-> IF c \in Subscribers
                      THEN Told(view[c], rt.rt_notify_list) ELSE view[c]]
        /\ route' = [r \in Routes |-> CASE r \in gone -> Freed
                       [] r \in list \ gone -> [route[r] EXCEPT !.rt_flags = settled_flags(r)]
                       [] OTHER -> route[r]]
        /\ rt' = [rt EXCEPT !.rt_notify_list = <<>>]
        /\ jobs' = Tail(jobs) /\ UNCHANGED crashed
    BY <1>5 DEF NotifJob
  <2>2. \A r \in gone : r \notin InTable(Tab) /\ r \notin ToFlash(Tab)
    <3>1. \A r \in gone : Freeable(r, {"route_list", "rt_flash_list"})
      BY <1>5
    <3>2. \A r \in gone : r \notin ToSet(rt["route_list"]) /\ r \notin ToSet(rt["rt_flash_list"])
      BY <3>1 DEF Freeable
    <3> QED
      BY <1>1, <3>2 DEF InTable, ToFlash
  <2>3. /\ rt'.route_list = rt.route_list /\ rt'.rt_notify_list = <<>>
        /\ rt'.rt_flash_list = rt.rt_flash_list /\ rt'.flash_requests = rt.flash_requests
        /\ rt'.nfc_rt_updates = rt.nfc_rt_updates /\ rt' \in RtType
    <3>1. <<>> \in Seq(Routes)
      OBVIOUS
    <3> QED
      BY <1>2, <2>1, <3>1 DEF RtType
  <2>4. /\ jobs' \in Seq(Kinds) /\ IsInjective(jobs') /\ ("flash" \in ToSet(jobs') <=> "flash" \in ToSet(jobs))
    <3>1. IsInjective(jobs)
      BY <1>1 DEF TabOK, JobsOK
    <3> QED
      BY <1>2, <1>3, <2>1, <3>1, TailIs
  <2>5. \A r \in list : route[r] \in Fields
    BY <1>1, <1>2 DEF TabOK, Listed
  <2> DEFINE Rest(r) == [route[r] EXCEPT !.rt_flags = settled_flags(r)]
  <2>6. \A r \in list \ gone : /\ Rest(r) \in Fields /\ Rest(r).dest = route[r].dest
                               /\ Rest(r).is_direct = route[r].is_direct
                               /\ Rest(r).nexthops = route[r].nexthops
                               /\ Rest(r).rt_flags = route[r].rt_flags \ {"ADD", "UPDATE"}
    BY <2>5 DEF Fields, Flags, settled_flags
  <2>7. \A r \in Routes : route'[r] = IF r \in gone THEN Freed ELSE IF r \in list THEN Rest(r) ELSE route[r]
    BY <2>1
  <2> HIDE DEF Rest, gone, list
  <2>8. \A r \in Routes \ gone : /\ route[r] # Freed <=> route'[r] # Freed
                                 /\ route[r] # Freed =>
                                      /\ route'[r].dest = route[r].dest
                                      /\ route'[r].is_direct = route[r].is_direct
                                      /\ route'[r].nexthops = route[r].nexthops
                                      /\ "DEL" \in route'[r].rt_flags <=> "DEL" \in route[r].rt_flags
                                      /\ "FLASH" \in route'[r].rt_flags <=> "FLASH" \in route[r].rt_flags
    BY <2>5, <2>6, <2>7, RouteAssumption DEF Fields, Freed
  <2>9. /\ InTable(TabNow) = InTable(Tab) /\ ToTell(TabNow) = {} /\ ToFlash(TabNow) = ToFlash(Tab)
    <3>1. ToSet(<<>>) = {}
      BY DEF ToSet
    <3> QED
      BY <1>1, <2>3, <3>1 DEF InTable, ToTell, ToFlash
  <2>10. TabOK(TabNow)
    <3>1. TabNow \in TabType
      <4>1. \A r \in Routes : route'[r] \in Fields \union {Freed}
        BY <1>2, <2>6, <2>7
      <4>2. route' = [r \in Routes |-> route'[r]]
        BY <2>1
      <4>3. route' \in [Routes -> Fields \union {Freed}]
        BY <4>1, <4>2
      <4> QED
        BY <2>3, <2>4, <4>3 DEF TabNow, TabType
    <3>2. Listed(TabNow)
      <4>1. IsInjective(<<>>)
        BY DEF IsInjective
      <4> QED
        BY <1>1, <1>2, <2>2, <2>3, <2>8, <2>9, <4>1 DEF TabOK, Listed
    <3>3. Flagged(TabNow)
      <4>1. ASSUME NEW r \in Routes, route'[r] # Freed
            PROVE  /\ route'[r].rt_flags \intersect {"ADD", "DEL", "UPDATE"} = {}
                   /\ r \in ToFlash(Tab) <=> "FLASH" \in route'[r].rt_flags
                   /\ r \in InTable(Tab) <=> "DEL" \notin route'[r].rt_flags
        <5>1. r \notin gone
          BY <2>7, <4>1
        <5>2. route[r] # Freed
          BY <2>8, <4>1, <5>1
        <5>3. /\ r \in list <=> route[r].rt_flags \intersect {"ADD", "DEL", "UPDATE"} # {}
              /\ r \in ToFlash(Tab) <=> "FLASH" \in route[r].rt_flags
              /\ r \in InTable(Tab) <=> "DEL" \notin route[r].rt_flags
          BY <1>1, <1>2, <5>2 DEF TabOK, Flagged
        <5>4. route'[r].rt_flags \intersect {"ADD", "DEL", "UPDATE"} = {}
          <6>1. CASE r \in list
            <7>1. "DEL" \notin route[r].rt_flags
              BY <5>1, <6>1 DEF gone
            <7>2. route'[r].rt_flags = route[r].rt_flags \ {"ADD", "UPDATE"}
              BY <2>6, <2>7, <5>1, <6>1
            <7> QED
              BY <7>1, <7>2
          <6>2. CASE r \notin list
            BY <2>7, <5>1, <5>3, <6>2
          <6> QED
            BY <6>1, <6>2
        <5> QED
          BY <2>8, <5>1, <5>2, <5>3, <5>4
      <4> QED
        BY <1>1, <2>9, <4>1 DEF Flagged
    <3>4. \A r \in InTable(Tab) : route'[r].dest = route[r].dest
      BY <1>1, <1>2, <2>2, <2>8 DEF TabOK, Listed
    <3>5. OnePerDest(TabNow)
      BY <1>1, <2>9, <3>4 DEF TabOK, OnePerDest
    <3>6. Latest(TabNow)
      <4>1. ~Before(<<>>, 0, 0) /\ \A a, b : ~Before(<<>>, a, b)
        BY DEF Before
      <4> QED
        BY <1>1, <2>3, <2>9, <4>1 DEF Latest
    <3>7. JobsOK(TabNow)
      BY <1>1, <2>3, <2>4 DEF TabOK, JobsOK
    <3> QED
      BY <3>1, <3>2, <3>3, <3>5, <3>6, <3>7 DEF TabOK
  <2>11. /\ Rib' = Rib /\ Stale' = {} /\ Subscribers' = Subscribers
         /\ \A p \in Dests : Installed(p)' = Installed(p) /\ rt_table_lookup(Tab, p)' = rt_table_lookup(Tab, p)
    <3>1. \A r \in InTable(Tab) : /\ route'[r].dest = route[r].dest
                                  /\ route'[r].is_direct = route[r].is_direct
                                  /\ route'[r].nexthops = route[r].nexthops
      BY <1>1, <1>2, <2>2, <2>8 DEF TabOK, Listed
    <3>2. \A p \in Dests : rt_table_lookup(TabNow, p) = rt_table_lookup(Tab, p) /\ InstalledIn(TabNow, p) = InstalledIn(Tab, p)
      BY <1>1, <2>9, <2>10, <3>1, SameTable
    <3>3. StaleIn(TabNow) = {}
      BY <2>9 DEF StaleIn
    <3> QED
      BY <1>1, <2>3, <3>2, <3>3, ViewNow, ViewThen DEF Subscribers
  <2>12. view' = [c \in Clients |-> [p \in Dests |->
                   IF c \in Subscribers /\ p \in Stale THEN Rib[p] ELSE view[c][p]]]
    <3>1. ASSUME NEW c \in Clients
          PROVE  view'[c] = [p \in Dests |-> IF c \in Subscribers /\ p \in Stale THEN Rib[p] ELSE view[c][p]]
      <4>1. view[c] = [p \in Dests |-> view[c][p]]
        BY DEF RouteInv
      <4>2. CASE c \in Subscribers
        <5>1. view'[c] = Told(view[c], rt.rt_notify_list)
          BY <2>1, <4>2
        <5>2. Told(view[c], rt.rt_notify_list) = [p \in Dests |-> Told(view[c], rt.rt_notify_list)[p]]
          BY DEF Told
        <5>3. \A p \in Dests : Told(view[c], rt.rt_notify_list)[p] = IF p \in Stale THEN Rib[p] ELSE view[c][p]
          BY <1>1, ChangesSay DEF Rib
        <5> QED
          BY <4>2, <5>1, <5>2, <5>3
      <4>3. CASE c \notin Subscribers
        BY <2>1, <4>1, <4>3
      <4> QED
        BY <4>2, <4>3
    <3>2. view' = [c \in Clients |-> view'[c]]
      BY <2>1
    <3> QED
      BY <3>1, <3>2
  <2>13. view' \in [Clients -> [Dests -> View!Seen]]
    <3>1. \A p \in Dests : Rib[p] \in View!Seen
      BY <1>1, InstalledIs, ViewNow DEF View!Seen
    <3> QED
      BY <2>12, <3>1 DEF RouteInv
  <2>14. AskedSound'
    <3>1. ASSUME NEW c \in asked_first, NEW p \in Dests, Installed(p) # NoRoute
          PROVE  rt_table_lookup(Tab, p) \in ToSet(rt.rt_flash_list) \/ view'[c][p] = Installed(p)
      <4>1. c \in Subscribers /\ c \in Clients
        BY <1>1, TabTypes, ToSetIs DEF RouteInv, AskedSound, Subscribers
      <4>2. view'[c][p] = IF p \in Stale THEN Installed(p) ELSE view[c][p]
        BY <2>12, <4>1 DEF Rib
      <4> QED
        BY <3>1, <4>1, <4>2 DEF RouteInv, AskedSound
    <3>2. \A c \in asked_first : c \in Subscribers /\ c \in ToSet(rt.flash_requests)
      BY DEF RouteInv, AskedSound
    <3> QED
      BY <1>3, <2>3, <2>11, <3>1, <3>2 DEF AskedSound
  <2>15. RouteInv'
    BY <1>1, <1>3, <2>1, <2>10, <2>13, <2>14 DEF RouteInv, AssertsHold, View!Seen
  <2>16. [View!Next]_View!vars
    <3>1. CASE Stale = {}
      <4>1. view' = view
        <5>1. view = [c \in Clients |-> [p \in Dests |-> view[c][p]]]
          BY DEF RouteInv
        <5> QED
          BY <2>12, <3>1, <5>1
      <4> QED
        BY <2>11, <3>1, <4>1 DEF View!vars
    <3>2. CASE Stale # {}
      <4>1. View!Deliver
        BY <2>11, <2>12, <3>2 DEF View!Deliver
      <4> QED
        BY <4>1 DEF View!Next
    <3> QED
      BY <3>1, <3>2
  <2> QED
    BY <1>3, <2>15, <2>16 DEF RouteStep
<1> QED
  BY <1>4, <1>5

LEMMA FlashJobKeeps ==
  ASSUME RouteInv, FlashJob
  PROVE  RouteInv' /\ RouteStep
<1> DEFINE c == Head(rt.flash_requests)
           rest == Tail(rt.flash_requests)
           last == Len(rt.flash_requests) = 1
           list == ToSet(rt.rt_flash_list)
           gone == {r \in list : "DEL" \in route[r].rt_flags}
           stripped == IF last THEN list ELSE {}
<1>1. /\ TabOK(Tab) /\ Tab.route = route /\ Tab.rt = rt /\ Tab.jobs = jobs /\ TabNow = Tab'
      /\ TabNow.route = route' /\ TabNow.rt = rt' /\ TabNow.jobs = jobs'
  BY DEF RouteInv, Tab, TabNow
<1>2. /\ rt \in RtType /\ route \in [Routes -> Fields \union {Freed}] /\ jobs \in Seq(Kinds)
      /\ rt.flash_requests \in Seq(Clients) /\ rt.rt_flash_list \in Seq(Routes)
      /\ InTable(Tab) \subseteq Routes /\ ToTell(Tab) \subseteq Routes /\ ToFlash(Tab) \subseteq Routes
      /\ list = ToFlash(Tab)
  BY <1>1, TabTypes DEF ToFlash
<1>3. crashed = "no" /\ jobs # <<>> /\ Head(jobs) = "flash" /\ UNCHANGED if_ip
  BY DEF FlashJob
<1>4. /\ Tail(jobs) \in Seq(Kinds) /\ IsInjective(Tail(jobs)) /\ "flash" \notin ToSet(Tail(jobs))
      /\ "flash" \in ToSet(jobs)
  <2>1. IsInjective(jobs)
    BY <1>1 DEF TabOK, JobsOK
  <2> QED
    BY <1>2, <1>3, <2>1, TailIs
<1>5. /\ rt.flash_requests # <<>> /\ c \in Clients /\ rest \in Seq(Clients)
      /\ ToSet(rt.flash_requests) = {c} \union ToSet(rest)
  <2>1. rt.flash_requests # <<>>
    BY <1>1, <1>4 DEF TabOK, JobsOK
  <2> QED
    BY <1>2, <2>1, TailIs
<1>6. (last <=> rest = <<>>) /\ (last => ToSet(rest) = {})
  <2>1. last <=> rest = <<>>
    <3>1. Len(rest) = Len(rt.flash_requests) - 1
      BY <1>2, <1>5
    <3>2. rest = <<>> <=> Len(rest) = 0
      BY <1>5, EmptySeq
    <3>3. Len(rt.flash_requests) \in Nat
      BY <1>2
    <3> QED
      BY <3>1, <3>2, <3>3
  <2>2. ToSet(<<>>) = {}
    BY DEF ToSet
  <2> QED
    BY <2>1, <2>2
<1>7. CASE last /\ \E r \in gone : ~Freeable(r, {"route_list", "rt_notify_list"})
  <2>1. crashed' = "glue" /\ UNCHANGED <<route, rt, jobs, view, asked_first>>
    BY <1>7 DEF FlashJob
  <2> QED
    BY <1>3, <1>7, <2>1, CrashKeeps
<1>8. CASE ~(last /\ \E r \in gone : ~Freeable(r, {"route_list", "rt_notify_list"}))
  <2>1. /\ view' = [view EXCEPT ![c] = Told(view[c], rt.rt_flash_list)]
        /\ route' = [r \in Routes |-> CASE last /\ r \in gone -> Freed
                       [] last /\ r \in list \ gone -> [route[r] EXCEPT !.rt_flags = @ \ {"FLASH"}]
                       [] OTHER -> route[r]]
        /\ rt' = [rt EXCEPT !.flash_requests = rest, !.rt_flash_list = IF last THEN <<>> ELSE @]
        /\ jobs' = IF last THEN Tail(jobs) ELSE Append(Tail(jobs), "flash")
        /\ asked_first' = asked_first \ {c} /\ UNCHANGED crashed
    BY <1>8 DEF FlashJob
  <2>2. last => gone = {}
    <3>1. ASSUME last, NEW r \in gone PROVE FALSE
      <4>1. Freeable(r, {"route_list", "rt_notify_list"})
        BY <1>8, <3>1
      <4>2. r \notin ToTell(Tab)
        BY <1>1, <4>1 DEF Freeable, ToTell
      <4>3. route[r].rt_flags \intersect {"ADD", "DEL", "UPDATE"} = {}
        BY <1>1, <1>2, <4>2 DEF TabOK, Listed, Flagged
      <4> QED
        BY <4>3
    <3> QED
      BY <3>1
  <2> DEFINE Rest(r) == [route[r] EXCEPT !.rt_flags = @ \ {"FLASH"}]
  <2>3. \A r \in Routes : route'[r] = IF r \in stripped THEN Rest(r) ELSE route[r]
    BY <2>1, <2>2
  <2>4. \A r \in list : route[r] \in Fields /\ r \in Routes
    BY <1>1, <1>2 DEF TabOK, Listed
  <2>5. \A r \in stripped : /\ Rest(r) \in Fields /\ Rest(r).dest = route[r].dest
                            /\ Rest(r).is_direct = route[r].is_direct
                            /\ Rest(r).nexthops = route[r].nexthops
                            /\ Rest(r).rt_flags = route[r].rt_flags \ {"FLASH"}
    BY <2>4 DEF Fields, Flags
  <2>6. stripped \subseteq list /\ (~last => stripped = {}) /\ (last => stripped = list)
    OBVIOUS
  <2> HIDE DEF Rest, gone, stripped
  <2>7. \A r \in Routes :
          /\ route[r] # Freed <=> route'[r] # Freed
          /\ route[r] # Freed =>
               /\ route'[r].dest = route[r].dest
               /\ route'[r].is_direct = route[r].is_direct
               /\ route'[r].nexthops = route[r].nexthops
               /\ route'[r].rt_flags = IF r \in stripped THEN route[r].rt_flags \ {"FLASH"} ELSE route[r].rt_flags
    <3>1. ASSUME NEW r \in stripped
          PROVE /\ route[r] # Freed /\ route'[r] # Freed /\ route'[r].dest = route[r].dest
                /\ route'[r].is_direct = route[r].is_direct /\ route'[r].nexthops = route[r].nexthops
                /\ route'[r].rt_flags = route[r].rt_flags \ {"FLASH"}
      <4>1. r \in Routes /\ route'[r] = Rest(r) /\ route[r] \in Fields /\ Rest(r) \in Fields
        BY <2>3, <2>4, <2>5, <2>6
      <4>2. route[r] # Freed /\ Rest(r) # Freed
        BY <4>1, RouteAssumption DEF Fields, Freed
      <4> QED
        BY <2>5, <4>1, <4>2
    <3>2. \A r \in Routes \ stripped : route'[r] = route[r]
      BY <2>3
    <3> QED
      BY <3>1, <3>2
  <2>8. /\ rt'.route_list = rt.route_list /\ rt'.rt_notify_list = rt.rt_notify_list
        /\ rt'.rt_flash_list = (IF last THEN <<>> ELSE rt.rt_flash_list)
        /\ rt'.flash_requests = rest
        /\ rt'.nfc_rt_updates = rt.nfc_rt_updates /\ rt' \in RtType
    <3>1. <<>> \in Seq(Routes)
      OBVIOUS
    <3> HIDE DEF last, rest
    <3> QED
      BY <1>2, <1>5, <2>1, <3>1 DEF RtType
  <2>9. jobs' \in Seq(Kinds) /\ IsInjective(jobs') /\ ("flash" \in ToSet(jobs') <=> ~last)
    <3>1. "flash" \in Kinds
      BY DEF Kinds
    <3>2. CASE last
      BY <1>4, <2>1, <3>2
    <3>3. CASE ~last
      <4>1. jobs' = Append(Tail(jobs), "flash")
        BY <2>1, <3>3
      <4> DEFINE js == Tail(jobs)
      <4>2. js \in Seq(Kinds) /\ IsInjective(js) /\ "flash" \notin ToSet(js) /\ jobs' = Append(js, "flash")
        BY <1>4, <4>1
      <4> HIDE DEF js
      <4> QED
        BY <3>1, <3>3, <4>2, AppendIs
    <3> QED
      BY <3>2, <3>3
  <2> HIDE DEF last, rest, c, list
  <2>10. /\ InTable(TabNow) = InTable(Tab) /\ ToTell(TabNow) = ToTell(Tab)
         /\ ToFlash(TabNow) = ToFlash(Tab) \ stripped
    <3>1. ToSet(<<>>) = {}
      BY DEF ToSet
    <3> QED
      BY <1>1, <1>2, <2>6, <2>8, <3>1 DEF InTable, ToTell, ToFlash
  <2>11. TabOK(TabNow)
    <3>1. TabNow \in TabType
      <4>1. \A r \in Routes : route'[r] \in Fields \union {Freed}
        BY <1>2, <2>3, <2>5
      <4>2. route' = [r \in Routes |-> route'[r]]
        BY <2>1
      <4>3. route' \in [Routes -> Fields \union {Freed}]
        BY <4>1, <4>2
      <4> QED
        BY <2>8, <2>9, <4>3 DEF TabNow, TabType
    <3>2. Listed(TabNow)
      <4>1. IsInjective(<<>>)
        BY DEF IsInjective
      <4> QED
        BY <1>1, <1>2, <2>7, <2>8, <2>10, <4>1 DEF TabOK, Listed
    <3>3. Flagged(TabNow)
      <4>1. ASSUME NEW r \in Routes, route'[r] # Freed
            PROVE  /\ r \in ToTell(Tab) <=> route'[r].rt_flags \intersect {"ADD", "DEL", "UPDATE"} # {}
                   /\ r \in ToFlash(Tab) \ stripped <=> "FLASH" \in route'[r].rt_flags
                   /\ r \in InTable(Tab) <=> "DEL" \notin route'[r].rt_flags
        <5>1. route[r] # Freed
          BY <2>7, <4>1
        <5>2. /\ r \in ToTell(Tab) <=> route[r].rt_flags \intersect {"ADD", "DEL", "UPDATE"} # {}
              /\ r \in ToFlash(Tab) <=> "FLASH" \in route[r].rt_flags
              /\ r \in InTable(Tab) <=> "DEL" \notin route[r].rt_flags
          BY <1>1, <5>1 DEF TabOK, Flagged
        <5>3. route'[r].rt_flags = IF r \in stripped THEN route[r].rt_flags \ {"FLASH"} ELSE route[r].rt_flags
          BY <2>7, <5>1
        <5> QED
          BY <5>2, <5>3
      <4> QED
        BY <1>1, <2>10, <4>1 DEF Flagged
    <3>4. OnePerDest(TabNow)
      <4>1. \A r \in InTable(Tab) : r \in Routes /\ route[r] # Freed
        BY <1>1, <1>2 DEF TabOK, Listed
      <4>2. \A r \in InTable(Tab) : route'[r].dest = route[r].dest
        BY <2>7, <4>1
      <4> QED
        BY <1>1, <2>10, <4>2 DEF TabOK, OnePerDest
    <3>5. Latest(TabNow)
      <4>1. \A r \in ToTell(Tab) \union InTable(Tab) :
              r \in Routes /\ route'[r].dest = route[r].dest
              /\ ("DEL" \in route'[r].rt_flags <=> "DEL" \in route[r].rt_flags)
        <5>1. \A r \in ToTell(Tab) \union InTable(Tab) : r \in Routes /\ route[r] # Freed
          BY <1>1, <1>2 DEF TabOK, Listed
        <5> QED
          BY <2>7, <5>1
      <4>2. ASSUME NEW a, NEW b, Before(rt.rt_notify_list, a, b), route'[a].dest = route'[b].dest
            PROVE  "DEL" \in route'[b].rt_flags
        <5>1. a \in ToTell(Tab) /\ b \in ToTell(Tab)
          BY <1>1, <4>2, TabTypes, ToSetIs DEF ToTell
        <5> QED
          BY <1>1, <4>1, <4>2, <5>1 DEF TabOK, Latest
      <4>3. \A a \in ToTell(Tab) : \A b \in InTable(Tab) :
               "DEL" \in route'[a].rt_flags /\ route'[a].dest = route'[b].dest => b \in ToTell(Tab)
        BY <1>1, <4>1 DEF TabOK, Latest
      <4> QED
        BY <1>1, <2>8, <2>10, <4>2, <4>3 DEF Latest
    <3>6. JobsOK(TabNow)
      BY <1>1, <1>6, <2>8, <2>9 DEF JobsOK
    <3> QED
      BY <3>1, <3>2, <3>3, <3>4, <3>5, <3>6 DEF TabOK
  <2>12. /\ Rib' = Rib /\ Stale' = Stale /\ Subscribers' = Subscribers
         /\ \A p \in Dests : Installed(p)' = Installed(p) /\ rt_table_lookup(Tab, p)' = rt_table_lookup(Tab, p)
    <3>1. \A r \in ToSet(rt.route_list) \union ToSet(rt.rt_notify_list) :
            /\ route'[r].dest = route[r].dest /\ route'[r].is_direct = route[r].is_direct
            /\ route'[r].nexthops = route[r].nexthops
      BY <1>1, <1>2, <2>7 DEF TabOK, Listed, InTable, ToTell
    <3> QED
      BY <1>1, <2>8, <2>11, <3>1, SameView DEF Subscribers
  <2>13. /\ view' \in [Clients -> [Dests -> View!Seen]]
         /\ view'[c] = Told(view[c], rt.rt_flash_list)
         /\ \A d \in Clients \ {c} : view'[d] = view[d]
    <3>1. view \in [Clients -> [Dests -> View!Seen]] /\ view[c] \in [Dests -> View!Seen]
      BY <1>5 DEF RouteInv
    <3>2. \A r \in ToSet(rt.rt_flash_list) : route[r] # Freed
      BY <1>1 DEF TabOK, Listed, ToFlash
    <3>3. Told(view[c], rt.rt_flash_list) \in [Dests -> View!Seen]
      BY <1>1, <1>2, <3>1, <3>2, ToldTypes
    <3> QED
      BY <1>5, <2>1, <3>1, <3>3
  <2>14. AskedSound'
    <3>1. ASSUME NEW d \in asked_first \ {c}
          PROVE  d \in Subscribers /\ d \in Clients /\ d \in ToSet(rest) /\ ~last /\ view'[d] = view[d]
      <4>1. d \in Subscribers /\ d \in ToSet(rt.flash_requests)
        BY <3>1 DEF RouteInv, AskedSound
      <4> QED
        BY <1>2, <1>5, <1>6, <2>13, <3>1, <4>1, ToSetIs
    <3> QED
      BY <2>1, <2>8, <2>12, <3>1 DEF RouteInv, AskedSound
  <2>15. RouteInv'
    BY <1>1, <1>3, <2>1, <2>11, <2>13, <2>14 DEF RouteInv, AssertsHold, View!Seen
  <2>16. View!Flash(c)
    <3>1. \A p \in Dests \ Stale : view'[c][p] \in {view[c][p], Installed(p)}
      BY <1>1, <2>13, PictureSays
    <3> QED
      BY <2>12, <2>13, <3>1 DEF View!Flash, Rib, View!Seen
  <2>17. ASSUME c \in asked_first, NEW p \in Dests, Installed(p)' # NoRoute, p \notin Stale'
         PROVE  view'[c][p] = Installed(p)'
    <3>1. Installed(p) # NoRoute /\ p \notin Stale
      BY <2>12, <2>17
    <3>2. rt_table_lookup(Tab, p) \in ToFlash(Tab) \/ view[c][p] = Installed(p)
      BY <1>1, <2>17, <3>1 DEF RouteInv, AskedSound, ToFlash
    <3> QED
      BY <1>1, <2>12, <2>13, <3>1, <3>2, PictureSays
  <2>18. \A d \in asked_first \ asked_first' : d = c
    BY <2>1
  <2>19. View!Next
    BY <1>5, <2>16 DEF View!Next
  <2> QED
    BY <2>15, <2>17, <2>18, <2>19 DEF RouteStep
<1> QED
  BY <1>7, <1>8

LEMMA RouteInit == Init => RouteInv /\ View!Init
<1> SUFFICES ASSUME Init PROVE RouteInv /\ View!Init
  OBVIOUS
<1>1. /\ Tab.route = [r \in Routes |-> Freed] /\ Tab.jobs = <<>>
      /\ Tab.rt = [route_list |-> <<>>, rt_notify_list |-> <<>>, rt_flash_list |-> <<>>,
                   flash_requests |-> <<>>, nfc_rt_updates |-> <<>>]
      /\ Tab = [route |-> Tab.route, rt |-> Tab.rt, jobs |-> Tab.jobs]
  BY DEF Init, Tab
<1>2. ToSet(<<>>) = {} /\ IsInjective(<<>>) /\ \A a, b : ~Before(<<>>, a, b)
  BY DEF ToSet, IsInjective, Before
<1>3. <<>> \in Seq(Routes) /\ <<>> \in Seq(Clients) /\ <<>> \in Seq(Kinds)
  OBVIOUS
<1>4. InTable(Tab) = {} /\ ToTell(Tab) = {} /\ ToFlash(Tab) = {}
  BY <1>1, <1>2 DEF InTable, ToTell, ToFlash
<1>5. TabOK(Tab)
  <2>1. Tab \in TabType
    <3>1. Tab.route \in [Routes -> Fields \union {Freed}]
      BY <1>1
    <3>2. Tab.rt \in RtType
      BY <1>1, <1>3 DEF RtType
    <3> QED
      BY <1>1, <1>3, <3>1, <3>2 DEF TabType
  <2>2. \A r \in Routes : Tab.route[r] = Freed
    BY <1>1
  <2> QED
    BY <1>1, <1>2, <1>4, <2>1, <2>2 DEF TabOK, Listed, Flagged, OnePerDest, Latest, JobsOK
<1>6. Stale = {} /\ Subscribers = {} /\ \A p \in Dests : Installed(p) = NoRoute
  <2>1. \A p \in Dests : rt_table_lookup(Tab, p) = NULL
    BY <1>4, <1>5, RouteIs
  <2>2. Subscribers = {}
    BY <1>2 DEF Init, Subscribers
  <2>3. Stale = {}
    BY <1>2 DEF Init, Stale
  <2> QED
    BY <2>1, <2>2, <2>3 DEF Installed
<1>7. view = [d \in Clients |-> [p \in Dests |-> Unknown]] /\ if_ip = [i \in Ports |-> NULL]
      /\ asked_first = {} /\ crashed = "no"
  BY DEF Init
<1>8. RouteInv
  BY <1>5, <1>7 DEF RouteInv, AssertsHold, AskedSound, View!Seen
<1>9. View!Init
  BY <1>6, <1>7 DEF View!Init, Rib
<1> QED
  BY <1>8, <1>9

LEMMA RouteNext == RouteInv /\ [Next]_vars => RouteInv' /\ RouteStep
<1> SUFFICES ASSUME RouteInv, [Next]_vars PROVE RouteInv' /\ RouteStep
  OBVIOUS
<1>1. CASE \E p \in Dests : (\E hop \in Hops : AddRoute(p, hop)) \/ DeleteRoute(p)
  BY <1>1, AddRouteKeeps, DeleteRouteKeeps
<1>2. CASE \E result \in SUBSET (Dests \X Hops) : InstallRoutes(result)
  BY <1>2, InstallRoutesKeeps
<1>3. CASE \E i \in Ports : (\E p \in Dests : SetAddress(i, p)) \/ UnsetAddress(i)
  BY <1>3, SetAddressKeeps, UnsetAddressKeeps
<1>4. CASE \E c \in Clients : Subscribe(c) \/ Unsubscribe(c) \/ RequestFlash(c)
  BY <1>4, SubscribeKeeps, UnsubscribeKeeps, RequestFlashKeeps
<1>5. CASE RunJob
  BY <1>5, NotifJobKeeps, FlashJobKeeps DEF RunJob
<1>6. CASE UNCHANGED vars
  <2>1. UNCHANGED <<route, rt, jobs, if_ip, view, asked_first, crashed>>
    BY <1>6 DEF vars
  <2>2. TabNow = Tab /\ Tab' = Tab
    BY <2>1 DEF TabNow, Tab
  <2>3. Stale' = Stale /\ Rib' = Rib /\ Subscribers' = Subscribers /\ \A p : Installed(p)' = Installed(p)
    BY <2>1, <2>2, ViewNow, ViewThen
  <2>4. AskedSound'
    BY <2>1, <2>2, <2>3 DEF RouteInv, AskedSound
  <2>5. RouteInv'
    BY <2>1, <2>2, <2>4 DEF RouteInv, AssertsHold, View!Seen
  <2> QED
    BY <2>1, <2>3, <2>5 DEF RouteStep, View!vars
<1> QED
  BY <1>1, <1>2, <1>3, <1>4, <1>5, <1>6 DEF Next

\* The lists and the flags agree in a table that is in order.
LEMMA TabSays == RouteInv => RoutesSound
<1> SUFFICES ASSUME RouteInv PROVE ListsAgree /\ AssertsHold
  BY DEF RoutesSound
<1>1. /\ TabOK(Tab) /\ Tab.route = route /\ Tab.rt = rt /\ Tab.jobs = jobs /\ AssertsHold
      /\ InTable(Tab) = ToSet(rt.route_list) /\ ToTell(Tab) = ToSet(rt.rt_notify_list)
      /\ ToFlash(Tab) = ToSet(rt.rt_flash_list)
  BY DEF RouteInv, Tab, InTable, ToTell, ToFlash
<1>2. \A l \in {"route_list", "rt_notify_list", "rt_flash_list"} :
        IsInjective(rt[l]) /\ \A r \in ToSet(rt[l]) : route[r] # Freed
  <2>1. IsInjective(rt["route_list"]) /\ \A r \in ToSet(rt["route_list"]) : route[r] # Freed
    BY <1>1 DEF TabOK, Listed
  <2>2. IsInjective(rt["rt_notify_list"]) /\ \A r \in ToSet(rt["rt_notify_list"]) : route[r] # Freed
    BY <1>1 DEF TabOK, Listed
  <2>3. IsInjective(rt["rt_flash_list"]) /\ \A r \in ToSet(rt["rt_flash_list"]) : route[r] # Freed
    BY <1>1 DEF TabOK, Listed
  <2> QED
    BY <2>1, <2>2, <2>3
<1>3. \A r, q \in ToSet(rt.route_list) : route[r].dest = route[q].dest => r = q
  BY <1>1 DEF TabOK, OnePerDest
<1>4. \A r \in {q \in Routes : route[q] # Freed} :
        /\ r \in ToSet(rt.rt_notify_list) <=> route[r].rt_flags \intersect {"ADD", "DEL", "UPDATE"} # {}
        /\ r \in ToSet(rt.rt_flash_list) <=> "FLASH" \in route[r].rt_flags
        /\ r \in ToSet(rt.route_list) <=> "DEL" \notin route[r].rt_flags
  BY <1>1 DEF TabOK, Flagged
<1>5. "flash" \notin ToSet(jobs) => rt.rt_flash_list = <<>>
  BY <1>1 DEF TabOK, JobsOK
<1> QED
  BY <1>1, <1>2, <1>3, <1>4, <1>5 DEF ListsAgree

\* rt_table_notif_job_cb, rt_table_flash_job_cb, l3_route_free: whatever is added,
\* deleted, asked for and answered, for any number of routes and subscribers, the
\* lists agree with the flags, no list has a freed route, and the assertions on
\* freeing a route fail in one way only.
THEOREM RoutesCorrect == Spec => []RoutesSound
<1>1. Init => RouteInv
  BY RouteInit
<1>2. RouteInv /\ [Next]_vars => RouteInv'
  BY RouteNext
<1> QED
  BY <1>1, <1>2, TabSays, PTL DEF Spec

\* rt_table_notif_job_cb, rt_table_flash_job_cb: what the lists, the flags and the jobs
\* show to subscribers is what RouteView promises of a table that tells its changes.
THEOREM RoutesImplementView == Spec => ImplementsView
<1>1. Init => RouteInv /\ View!Init
  BY RouteInit
<1>2. RouteInv /\ [Next]_vars => RouteInv' /\ [View!Next]_View!vars
  BY RouteNext DEF RouteStep
<1> QED
  BY <1>1, <1>2, PTL DEF Spec, ImplementsView

\* nfc_ipv4_rt_request_flash: a client that subscribes and then asks has seen, when
\* it is served, every route without an untold change, as it is installed.
THEOREM FlashAnswers == Spec => FlashComplete
<1>1. Init => RouteInv
  BY RouteInit
<1>2. RouteInv /\ [Next]_vars => RouteInv'
  BY RouteNext
<1>3. RouteInv /\ [Next]_vars =>
        [\A c \in asked_first \ asked_first' : c \in Subscribers' =>
           \A p \in Dests : Installed(p)' # NoRoute /\ p \notin Stale'
                               => view'[c][p] = Installed(p)']_vars
  BY RouteNext DEF RouteStep
<1> QED
  BY <1>1, <1>2, <1>3, PTL DEF Spec, FlashComplete

\* nfc_ipv4_rt_subscribe: at any time a client sees a destination without an untold
\* change as it is installed, or has never been told of it.
THEOREM ClientsCurrent == Spec => []View!ViewCurrent
<1>1. Init => RouteInv /\ View!ViewCurrent
  <2>1. Init => RouteInv /\ Subscribers = {}
    BY RouteInit DEF View!Init
  <2> QED
    BY <2>1 DEF View!ViewCurrent
<1>2. RouteInv /\ [Next]_vars => RouteInv' /\ [View!Next]_View!vars
  BY RouteNext DEF RouteStep
<1>3. RouteInv => Subscribers \subseteq Clients /\ view \in [Clients -> [Dests -> View!Seen]]
  BY TabTypes, ToSetIs DEF RouteInv, Subscribers, Tab
<1>4. RouteInv /\ View!ViewCurrent /\ [View!Next]_View!vars => View!ViewCurrent'
  <2> SUFFICES ASSUME RouteInv, View!ViewCurrent, [View!Next]_View!vars,
                      NEW c \in Subscribers', NEW p \in Dests \ Stale'
               PROVE  view'[c][p] \in {Unknown, Rib'[p]}
    BY DEF View!ViewCurrent
  <2>1. CASE \E P \in SUBSET Dests : View!Change(P)
    BY <2>1 DEF View!Change, View!ViewCurrent
  <2>2. CASE View!Deliver
    BY <1>3, <2>2 DEF View!Deliver, View!ViewCurrent
  <2>3. CASE \E d \in Clients : View!Subscribe(d)
    <3>1. PICK d \in Clients : View!Subscribe(d)
      BY <2>3
    <3> QED
      BY <1>3, <3>1 DEF View!Subscribe, View!ViewCurrent
  <2>4. CASE \E d \in Clients : View!Unsubscribe(d)
    BY <2>4 DEF View!Unsubscribe, View!ViewCurrent
  <2>5. CASE \E d \in Clients : View!Flash(d)
    <3>1. PICK d \in Clients : View!Flash(d)
      BY <2>5
    <3> QED
      BY <1>3, <3>1 DEF View!Flash, View!ViewCurrent
  <2>6. CASE UNCHANGED View!vars
    BY <2>6 DEF View!vars, View!ViewCurrent
  <2> QED
    BY <2>1, <2>2, <2>3, <2>4, <2>5, <2>6 DEF View!Next
<1> QED
  BY <1>1, <1>2, <1>4, PTL DEF Spec
=============================================================================
