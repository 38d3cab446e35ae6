---------------------------- MODULE MCSpfNetwork ----------------------------
(* Six routers, the last of which the first reaches over four next hops at *)
(* equal cost.                                                             *)
EXTENDS SpfNetwork
CONSTANTS r0, r1, r2, r3, r4, r5
FanNodes == <<r0, r1, r2, r3, r4, r5>>
Fan == <<<<r0, r1>>, <<r0, r2>>, <<r1, r3>>, <<r2, r3>>, <<r0, r4>>, <<r0, r4>>,
         <<r1, r5>>, <<r3, r5>>, <<r4, r5>>>>
FanCosts == {<<1, 1, 1, 1, 2, 2, 3, 2, 2>>}
=============================================================================
