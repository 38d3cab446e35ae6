SPECIFICATION Spec
CONSTANTS
  Adjs = {a1}
  Intfs = {eth1}
  Nbrs = {r1}
  Addrs = {x, y}
  IfIndexes = {1, 2}
  CountMod = 4
  MaxJobs = 2
CHECK_DEADLOCK FALSE
PROPERTIES SilentIsRemoved
