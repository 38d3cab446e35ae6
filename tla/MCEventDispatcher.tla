-------------------------- MODULE MCEventDispatcher --------------------------
(* Small instances of the dispatcher: tasks and packets are model values.  *)
EXTENDS EventDispatcher
CONSTANTS pktjob, t1, t2, p1, p2
TwoTasks == {pktjob, t1, t2}
OnePacket == {p1}
TwoPackets == {p1, p2}
=============================================================================
