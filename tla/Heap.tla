-------------------------------- MODULE Heap --------------------------------
(***************************************************************************)
(* What a memory manager promises: a piece of memory of the size that was  *)
(* asked for, which overlaps nothing that is in use.                       *)
(***************************************************************************)
EXTENDS Integers

CONSTANT Sizes  \* what is asked for

VARIABLE live   \* pieces in use: the page, where a piece begins, and its size

Overlap(a, b) ==
  /\ a.page = b.page
  /\ a.at < b.at + b.size
  /\ b.at < a.at + a.size

Init == live = {}

Alloc ==
  \E size \in Sizes :
    \E new \in live' \ live :
      /\ new.size = size
      /\ live' = live \union {new}
      /\ \A old \in live : ~Overlap(new, old)

Free == \E old \in live : live' = live \ {old}

Next == Alloc \/ Free

Spec == Init /\ [][Next]_live
=============================================================================
