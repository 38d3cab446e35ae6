SPECIFICATION Spec
CONSTANTS
  Adjs = {a1, a2}
  Intfs = {eth1}
  Nbrs = {r1, r2}
  Addrs = {x, y}
  IfIndexes = {1}
  CountMod = 4
  MaxJobs = 2
SYMMETRY Interchangeable
CHECK_DEADLOCK FALSE
INVARIANTS TimersSound NoStaleMapping LspNotStale QualifiedSends
