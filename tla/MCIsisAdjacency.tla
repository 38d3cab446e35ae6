-------------------------- MODULE MCIsisAdjacency --------------------------
(* One router with its neighbours on one link.  Addresses of memory,          *)
(* neighbours and interface addresses are interchangeable.                    *)
EXTENDS IsisAdjacency, TLC

Interchangeable ==
  Permutations(Adjs) \union Permutations(Nbrs) \union Permutations(Addrs)
=============================================================================
