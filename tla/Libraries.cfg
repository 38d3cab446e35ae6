SPECIFICATION PartsSpec
CONSTANTS
  NULL = NULL
  ListHead = ListHead
  NilNode = NilNode
  n1 = n1
  n2 = n2
  n3 = n3
  Elems = {n1, n2, n3, n4, n5}
  KeyOf <- Keys
  Timeouts = {0, 10, 20}
  MaxJobs = 2
  MS = 2
  MaxBackOff = 8
  Configs <- TimerConfigs
  NotFrozen = NotFrozen
  META = 2
  PAGE_HDR = 1
  SYSTEM_PAGE_SIZE = 8
  Sizes = {2, 3, 6}
  MaxPages = 2
  i1 = i1
  i2 = i2
  i3 = i3
  IntfSeq <- NodeIntf
  Routers = {"A", "B"}
  StaticNames = {"s"}
  Links <- PhysicalLinks
  NoGroup = NoGroup
INVARIANTS Represents BlocksSound CommandsDo MachinesRight CallsBounded TopologySound
  GroupsSound OverloadSound
PROPERTIES ImplementsHeap TimeKept
CHECK_DEADLOCK FALSE
