SPECIFICATION Spec
CONSTANTS
  eth1 = eth1
  eth2 = eth2
  r1 = r1
  r2 = r2
  r3 = r3
  Self = me
  Remotes = {r1}
  Nbrs = {me, r1}
  Pkts = {p1, p2, p3}
  Intfs = {eth1, eth2}
  NbrOn <- Neighbours
  Lists = {{}}
  NULL = NULL
  MaxSeq = 2
  MaxQueue = 2
  MaxPending = 2
SYMMETRY Interchangeable
CHECK_DEADLOCK FALSE
INVARIANTS QueuesSound DbSound
PROPERTIES NewestWins ShutdownAfterPurge
