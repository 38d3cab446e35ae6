------------------------------ MODULE MCLayer5 ------------------------------
(* Parts of layer 5, each on its own: an initial state chooses one, and    *)
(* the others stay as they are.  Neighbourship management runs on the two  *)
(* ends of a link, data collection on a triangle in which two routers ask, *)
(* and the interfaces of the second are reconfigured.                      *)
EXTENDS Nmp, DdcpNet, TLC
CONSTANTS r0, r1, r2

VARIABLE app   \* the part that runs

Triangle == <<<<r0, r1>>, <<r1, r2>>, <<r2, r0>>>>
TriangleIntfs == (1..3) \X {1, 2}
\* The routes of a triangle: over the link between the two.  No reply is for the
\* router it comes from.
TriangleHops ==
  [n \in {r0, r1, r2} |-> [d \in {r0, r1, r2} |->
     CHOOSE i \in TriangleIntfs : /\ Triangle[i[1]][i[2]] = n
                                  /\ d # n => Triangle[i[1]][3 - i[2]] = d]]
Reconfigured == {<<1, 2>>, <<2, 1>>}
FirstL3 == {TriangleIntfs, TriangleIntfs \ {<<1, 2>>}}
LastQueries == r0 :> 1 @@ r1 :> 0

Layer5Init ==
  /\ app \in {"nmp", "ddcp"}
  /\ Init /\ D!Init
  /\ app # "ddcp" => l3 = TriangleIntfs

NmpNext == app = "nmp" /\ Next /\ UNCHANGED app /\ UNCHANGED ddcpVars
DdcpNext == app = "ddcp" /\ D!Next /\ UNCHANGED app /\ UNCHANGED vars
Layer5Next == NmpNext \/ DdcpNext

\* In a part that does not run nothing is enabled, and fairness asks nothing.
Layer5Spec ==
  Layer5Init /\ [][Layer5Next]_<<app, vars, ddcpVars>> /\ Fairness /\ D!Fairness
=============================================================================
