------------------------------ MODULE ArpTable ------------------------------
(* The ARP table of module Arp as one part among others, with names of its *)
(* own for what other parts have too.                                      *)
CONSTANTS Entries, Ips, Macs, Cut, IntfOf, Pkts, MaxArpJobs,
          NoMac   \* an all-zero address
VARIABLES entry, arp_jobs, pkt, announced, latest, arp_crashed

arpVars == <<entry, arp_jobs, pkt, announced, latest, arp_crashed>>

A == INSTANCE Arp WITH
       MaxJobs <- MaxArpJobs, NULL <- NoMac, jobs <- arp_jobs, crashed <- arp_crashed

\* Module Arp: the entries of arp.c, the packets that wait in them, and the frames
\* that are sent with them.
EntriesSound == A!EntriesSound
\* Module Arp: no packet waits for ever in an entry of arp.c.
PendingEnds == A!PendingEnds
=============================================================================
