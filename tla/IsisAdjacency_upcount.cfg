SPECIFICATION Spec
CONSTANTS
  Adjs = {a1}
  Intfs = {eth1}
  Nbrs = {r1}
  Addrs = {x}
  IfIndexes = {1}
  CountMod = 65536
  MaxJobs = 1
CHECK_DEADLOCK FALSE
PROPERTIES FirstUpReconciles
