SPECIFICATION Layer5Spec
CONSTANTS
  NULL = NULL
  r0 = r0
  r1 = r1
  r2 = r2
  Keys = {1, 2, 3}
  Subnets = {"m", "n"}
  Subnet0 = "m"
  MaxJobs = 2
  MaxFrames = 1
  MaxChanges = 1
  Nodes = {r0, r1, r2}
  LinkList <- Triangle
  NextHop <- TriangleHops
  Originators = {r0, r1}
  Changing <- Reconfigured
  InitialL3 <- FirstL3
  MaxQueries <- LastQueries
  MaxDdcpJobs = 1
  MaxDdcpChanges = 2
  NoReply = NoReply
INVARIANTS ActiveIsSound Collected
PROPERTIES NbrsFollowHellos FloodsEnd
CHECK_DEADLOCK FALSE
