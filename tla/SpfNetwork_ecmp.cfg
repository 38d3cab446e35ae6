SPECIFICATION Spec
CONSTANTS
  NULL = NULL
  r0 = r0
  r1 = r1
  r2 = r2
  r3 = r3
  r4 = r4
  r5 = r5
  NodeList <- FanNodes
  LinkList <- Fan
  InitialCosts <- FanCosts
  Costs = {1, 2, 3}
  INTF_METRIC_DEFAULT = 1
  INFINITE_METRIC = 1000
  MAX_NXT_HOPS = 4
  Ttl = 3
  MaxChanges = 0
INVARIANTS EcmpComplete
