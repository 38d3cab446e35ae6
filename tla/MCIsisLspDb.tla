---------------------------- MODULE MCIsisLspDb ----------------------------
(* A router with a neighbour on each of two interfaces, behind which another *)
(* router sends LSPs; and one with a single neighbour.                       *)
EXTENDS IsisLspDb, TLC

CONSTANTS eth1, eth2, r1, r2, r3

Neighbours == (eth1 :> r2) @@ (eth2 :> r3)
Neighbours1 == (eth1 :> r1)

\* The two neighbours have no node in the model, so that the interfaces can be
\* exchanged as well as the addresses.
Interchangeable == Permutations(Pkts) \union Permutations(Intfs)
=============================================================================
