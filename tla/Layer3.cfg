SPECIFICATION Layer3Spec
CONSTANTS
  NULL = NULL
  r0 = r0
  r1 = r1
  r2 = r2
  Costs = {1, 2}
  INTF_METRIC_DEFAULT = 1
  INFINITE_METRIC = 1000
  MAX_NXT_HOPS = 4
  Ttl = 3
  MaxChanges = 2
  NoRoute = NoRoute
  Unknown = Unknown
  Routes = {route1, route2}
  Dests = {p1, p2}
  Hops = {h1}
  Ports = {eth1}
  Clients = {c1}
  MaxHops = 1
  MaxSubs = 1
  MaxRequests = 2
CHECK_DEADLOCK FALSE
INVARIANTS SpfTablesShortest CalmDelivered RoutesSound
PROPERTIES PacketsEnd ImplementsView SubscribersTold
