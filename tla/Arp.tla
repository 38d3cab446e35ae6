-------------------------------- MODULE Arp --------------------------------
(***************************************************************************)
(* The ARP table of one node (Layer2/arp.c) and its two users: the         *)
(* forwarding of IP packets to a next hop (l2_forward_ip_packet of         *)
(* layer2.c), which leaves a packet in an unresolved ("sane") entry until  *)
(* the reply comes, and the layer-2 map of IS-IS, which writes entries of  *)
(* its own.                                                                *)
(*                                                                         *)
(* An entry is an address that malloc gives out.  An ARP entry has a timer;*)
(* when it expires, a job that carries the entry's address is queued, and  *)
(* replies, packets and adjacencies may come before it.  The network loses *)
(* requests and replies, and delivers replies nobody asked for: a reply    *)
(* for any address may arrive at any time.                                 *)
(***************************************************************************)
EXTENDS Integers, Sequences, FiniteSets, SequencesExt

CONSTANTS
  Entries,    \* addresses of arp_entry_t
  Ips,        \* addresses of neighbours on connected subnets
  Macs,       \* MAC addresses they may announce: six bytes
  Cut,        \* [MAC -> MAC]: its bytes before the first zero byte, then zeros
  IntfOf,     \* [Ips -> interface]: node_get_matching_subnet_interface
  Pkts,       \* packets L3 hands down, each once
  MaxJobs,    \* bound: expiry jobs waiting in the dispatcher
  NULL        \* an all-zero MAC address, no entry

\* All-zero addresses and null pointers are none of the others.  arp.c copies and
\* compares some MAC addresses as strings: strncpy(m) leaves Cut[m], and strncmp
\* finds addresses equal that are cut to the same.  Of interface_assign_mac_address
\* an address has four bytes of a hash and two zeros: it is its own cut unless one
\* of the four is zero.  With a zero in front nothing is left.
ArpAssumption ==
  /\ NULL \notin Entries \union Ips \union Macs
  /\ Cut \in [Macs \union {NULL} -> Macs \union {NULL}]
  /\ Cut[NULL] = NULL
  /\ \A m \in Macs : Cut[Cut[m]] = Cut[m]

VARIABLES
  entry,      \* the fields of arp_entry_t at each address
  jobs,       \* queued jobs of the expiry timer: the addresses they carry
  pkt,        \* what has become of each packet
  announced,  \* <<ip, mac>> that a reply or a hello has ever carried
  latest,     \* ip -> protocol -> the last MAC address learnt from it
  crashed     \* why the process ended: "no" while it runs

vars == <<entry, jobs, pkt, announced, latest, crashed>>

Intfs == {IntfOf[ip] : ip \in Ips}
Protos == {"ARP", "ISIS"}

\* A timer handle is NULL, registered, or registered and expired.
Fields == [ip_addr : Ips, mac_addr : Macs \union {NULL}, oif : Intfs \union {NULL},
           is_sane : BOOLEAN, pending : Seq(Pkts), proto : Protos,
           exp_timer : {"NULL", "running", "expired"}]
Freed == [ip_addr |-> NULL]

\* A packet: its next hop, whether L3 named the outgoing interface, where it is,
\* and with which destination address it has left.
PktFields == [at : {"L3", "pending", "sent", "dropped"}, ip : Ips \union {NULL},
              oif_known : BOOLEAN, mac : Macs \union {NULL}]

Init ==
  /\ entry = [e \in Entries |-> Freed]
  /\ jobs = <<>>
  /\ pkt = [p \in Pkts |-> [at |-> "L3", ip |-> NULL, oif_known |-> FALSE, mac |-> NULL]]
  /\ announced = {}
  /\ latest = [ip \in Ips |-> [q \in Protos |-> NULL]]
  /\ crashed = "no"

-----------------------------------------------------------------------------
(* The table: the entries that are not free. *)

Table == {e \in Entries : entry[e] # Freed}

\* arp_table_lookup
Lookup(ip) == IF \E e \in Table : entry[e].ip_addr = ip
              THEN CHOOSE e \in Table : entry[e].ip_addr = ip ELSE NULL

\* malloc: any address that is free.
FreeEntries == Entries \ Table

\* arp_entry_create_expiration_timer.  It has no return statement; its caller
\* stores what the registration left in the return register, the same handle.
start_timer(f) == [f EXCEPT !.exp_timer = "running"]

\* arp_entry_refresh_expiration_timer: an element that has fired is put back.
refresh(f) == IF f.exp_timer = "NULL" THEN f ELSE start_timer(f)

Full(ip, mac, q) == [ip_addr |-> ip, mac_addr |-> mac, oif |-> IntfOf[ip], is_sane |-> FALSE,
                     pending |-> <<>>, proto |-> q, exp_timer |-> "NULL"]

\* Mutant: an unresolved entry has no timer.
SaneNoTimer(ip, p) ==
  [ip_addr |-> ip, mac_addr |-> NULL, oif |-> NULL, is_sane |-> TRUE,
   pending |-> <<p>>, proto |-> "ARP", exp_timer |-> "NULL"]

Sane(ip, p) == [ip_addr |-> ip, mac_addr |-> NULL, oif |-> NULL, is_sane |-> TRUE,
                pending |-> <<p>>, proto |-> "ARP", exp_timer |-> "running"]

\* Cases 0 and 2 of arp_table_entry_add: entries of ARP expire.
WithTimer(f) == IF f.proto = "ARP" THEN start_timer(f) ELSE f

\* Packets given up with their entry, and packets that leave.
dropped(ps) == [p \in Pkts |-> IF p \in ToSet(ps) THEN [pkt[p] EXCEPT !.at = "dropped"] ELSE pkt[p]]
sent(ps, mac) ==
  [p \in Pkts |-> IF p \in ToSet(ps) THEN [pkt[p] EXCEPT !.at = "sent", !.mac = mac] ELSE pkt[p]]

\* delete_arp_entry
Delete(e) == /\ entry' = [entry EXCEPT ![e] = Freed]
             /\ pkt' = dropped(entry[e].pending)

\* IS_ARP_ENTRIES_EQUAL, with strncmp for the MAC addresses
Equal(f, g) == /\ ~f.is_sane /\ ~g.is_sane
               /\ f.ip_addr = g.ip_addr /\ Cut[f.mac_addr] = Cut[g.mac_addr]
               /\ f.oif = g.oif /\ f.proto = g.proto

\* Case 2: a protocol updates its own entry, any other overwrites one of ARP.
MayReplace(old, new) == old.proto = new.proto \/ (old.proto = "ARP" /\ new.proto # "ARP")

\* Case 4: the contents of a full entry go into the unresolved one, the MAC address
\* by strncpy.
CopyInto(old, new) ==
  refresh([old EXCEPT !.mac_addr = Cut[new.mac_addr], !.oif = new.oif, !.proto = new.proto])

\* Mutant: the packets are sent, and stay where they are.
ResolveKeep(f) == [f EXCEPT !.is_sane = FALSE]

\* The end of arp_table_update_from_arp_reply: the list is walked and emptied,
\* each packet freed after it is sent, and its owner is resolved.
Resolve(f) == [f EXCEPT !.is_sane = FALSE, !.pending = <<>>]

\* arp_table_entry_add with a full entry; flush says whether the caller asks for
\* the list of pending packets and sends them (a reply does, IS-IS does not).
\* A new entry that is not needed is freed again.
EntryAdd(new, flush) ==
  LET old == Lookup(new.ip_addr) IN
  \/ /\ old = NULL
     /\ \E e \in FreeEntries : entry' = [entry EXCEPT ![e] = WithTimer(new)]
     /\ UNCHANGED pkt
  \/ /\ old # NULL /\ ~entry[old].is_sane
     /\ ~Equal(entry[old], new) /\ MayReplace(entry[old], new)
     /\ \E e \in FreeEntries :
          entry' = [entry EXCEPT ![old] = Freed, ![e] = WithTimer(new)]
     /\ pkt' = dropped(entry[old].pending)
  \/ /\ old # NULL /\ ~entry[old].is_sane
     /\ Equal(entry[old], new) \/ ~MayReplace(entry[old], new)
     /\ UNCHANGED <<entry, pkt>>
  \/ /\ old # NULL /\ entry[old].is_sane
     /\ LET f == CopyInto(entry[old], new) IN
        /\ entry' = [entry EXCEPT ![old] = IF flush THEN Resolve(f) ELSE f]
        /\ pkt' = IF flush THEN sent(f.pending, f.mac_addr) ELSE pkt

-----------------------------------------------------------------------------
(* Handlers. *)

Announce(ip, mac, q) ==
  /\ announced' = announced \union {<<ip, mac>>}
  /\ latest' = [latest EXCEPT ![ip][q] = mac]

\* process_arp_reply_msg, arp_table_update_from_arp_reply
ArpReply(ip, mac) ==
  /\ crashed = "no"
  /\ EntryAdd(Full(ip, mac, "ARP"), TRUE)
  /\ Announce(ip, mac, "ARP")
  /\ UNCHANGED <<jobs, crashed>>

\* isis_update_layer2_mapping_on_adjacency_up, arp_entry_add
AdjacencyUp(ip, mac) ==
  /\ crashed = "no"
  /\ EntryAdd(Full(ip, mac, "ISIS"), FALSE)
  /\ Announce(ip, mac, "ISIS")
  /\ UNCHANGED <<jobs, crashed>>

\* isis_update_layer2_mapping_on_adjacency_down, arp_entry_delete
AdjacencyDown(ip) ==
  /\ crashed = "no"
  /\ latest[ip]["ISIS"] # NULL
  /\ latest' = [latest EXCEPT ![ip]["ISIS"] = NULL]
  /\ LET e == Lookup(ip) IN
     IF e = NULL \/ entry[e].proto # "ISIS" THEN UNCHANGED <<entry, pkt>> ELSE Delete(e)
  /\ UNCHANGED <<jobs, announced, crashed>>

\* create_arp_sane_entry, which asserts that an entry it finds is unresolved.
\* The newest packet is the first of the list.
CreateSane(e, ip, p) ==
  \/ /\ e = NULL
     /\ \E new \in FreeEntries : entry' = [entry EXCEPT ![new] = Sane(ip, p)]
  \/ /\ e # NULL
     /\ entry' = [entry EXCEPT ![e] = refresh([entry[e] EXCEPT !.pending = <<p>> \o @])]

\* l2_forward_ip_packet: with the outgoing interface known, any entry will do.
MustResolve(e, oif_known) == e = NULL \/ (e # NULL /\ ~oif_known /\ entry[e].is_sane)

Forward(p, ip, oif_known) ==
  /\ crashed = "no"
  /\ pkt[p].at = "L3"
  /\ LET e == Lookup(ip) IN
     \/ /\ MustResolve(e, oif_known)
        /\ CreateSane(e, ip, p)
        /\ pkt' = [pkt EXCEPT ![p] = [at |-> "pending", ip |-> ip, oif_known |-> oif_known,
                                      mac |-> NULL]]
     \/ /\ ~MustResolve(e, oif_known)          \* l2_frame_prepare
        /\ entry' = [entry EXCEPT ![e] = refresh(@)]
        /\ pkt' = [pkt EXCEPT ![p] = [at |-> "sent", ip |-> ip, oif_known |-> oif_known,
                                      mac |-> entry[e].mac_addr]]
  /\ UNCHANGED <<jobs, announced, latest, crashed>>

\* The wheel: the element fires and a job with the entry's address is queued.
TimerExpires(e) ==
  /\ crashed = "no"
  /\ e \in Table /\ entry[e].exp_timer = "running"
  /\ Len(jobs) < MaxJobs
  /\ entry' = [entry EXCEPT ![e].exp_timer = "expired"]
  /\ jobs' = Append(jobs, e)
  /\ UNCHANGED <<pkt, announced, latest, crashed>>

\* arp_entry_timer_delete_cbk: the entry at the address is deleted, whichever it is.
ExpiryJob ==
  /\ crashed = "no"
  /\ jobs # <<>>
  /\ jobs' = Tail(jobs)
  /\ IF Head(jobs) \in Table
     THEN Delete(Head(jobs)) /\ UNCHANGED crashed
     ELSE crashed' = "an expiry job works on a freed entry" /\ UNCHANGED <<entry, pkt>>
  /\ UNCHANGED <<announced, latest>>

Next ==
  \/ \E ip \in Ips, mac \in Macs : ArpReply(ip, mac) \/ AdjacencyUp(ip, mac)
  \/ \E ip \in Ips : AdjacencyDown(ip)
  \/ \E p \in Pkts, ip \in Ips, oif_known \in BOOLEAN : Forward(p, ip, oif_known)
  \/ \E e \in Entries : TimerExpires(e)
  \/ ExpiryJob

\* The dispatcher runs its jobs, and the clock goes on: a timer that is refreshed now
\* and then, or finds the bounded queue of the model full, expires all the same.
Fairness == WF_vars(ExpiryJob) /\ \A e \in Entries : SF_vars(TimerExpires(e))

Spec == Init /\ [][Next]_vars
FairSpec == Spec /\ Fairness

-----------------------------------------------------------------------------
(* What must hold. *)

\* Fields have their types and no address of a neighbour has two entries.
TypeOK ==
  /\ entry \in [Entries -> Fields \union {Freed}]
  /\ \A e, f \in Table : entry[e].ip_addr = entry[f].ip_addr => e = f
  /\ jobs \in Seq(Entries)
  /\ pkt \in [Pkts -> PktFields]
  /\ announced \subseteq Ips \X Macs
  /\ latest \in [Ips -> [Protos -> Macs \union {NULL}]]

\* A packet that waits is in the list of exactly one entry, once, and the entry is
\* unresolved: no reply, adjacency or expiry in any order leaves a packet behind in
\* a resolved entry, or one that has left in a list from which it would be sent again.
PendingExact ==
  /\ \A e \in Table :
       /\ entry[e].pending # <<>> => entry[e].is_sane
       /\ IsInjective(entry[e].pending)
       /\ \A p \in ToSet(entry[e].pending) : pkt[p].at = "pending" /\ pkt[p].ip = entry[e].ip_addr
  /\ \A p \in Pkts : pkt[p].at = "pending" => \E e \in Table : p \in ToSet(entry[e].pending)

\* The address is one that ip has announced, whole or cut.
Heard(an, ip, mac) == \E m \in Macs : <<ip, m>> \in an /\ mac \in {m, Cut[m]}

\* A frame goes to a MAC address that its next hop has announced, or to what the
\* copy by strncpy has left of it: to exactly what was announced as long as every
\* address is its own cut.  The exception is the path of layer2.c:252, which uses
\* an entry without looking whether it is resolved: such a frame leaves with a
\* destination of zero.
RightMac ==
  \A p \in Pkts : pkt[p].at = "sent" =>
    \/ Heard(announced, pkt[p].ip, pkt[p].mac)
    \/ pkt[p].mac = NULL /\ pkt[p].oif_known

\* A resolved entry carries the last address its owner has learnt, up to its first
\* zero byte (the comparison by strncmp ignores a change behind it): a neighbour
\* that changes its MAC address is followed by whichever protocol owns the entry,
\* and nothing is left of an adjacency that is down.
EntryIsLatest ==
  \A e \in Table : ~entry[e].is_sane =>
    LET mac == latest[entry[e].ip_addr][entry[e].proto] IN
    mac # NULL /\ Cut[entry[e].mac_addr] = Cut[mac]

\* arp_table_entry_add, arp_table_update_from_arp_reply, arp_entry_delete: in every
\* order of replies, adjacencies and expiry jobs, an address has one entry, packets
\* wait in one unresolved entry, a resolved one says the latest of its owner, and
\* frames carry what was announced, the two as far as strings of bytes can tell.
EntriesSound == TypeOK /\ PendingExact /\ EntryIsLatest /\ RightMac

\* A packet that waits for a reply does not wait for ever: it is sent, or dropped
\* with its entry, even when every reply is lost and IS-IS has taken the entry over.
PendingEnds ==
  \A p \in Pkts : pkt[p].at = "pending" ~> pkt[p].at # "pending" \/ crashed # "no"
=============================================================================
