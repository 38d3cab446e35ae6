SPECIFICATION Layer2Spec
CONSTANTS
  h1 = h1
  h2 = h2
  h3 = h3
  a1 = a1
  a2 = a2
  a3 = a3
  t1 = t1
  t2 = t2
  sw1 = sw1
  sw2 = sw2
  Hosts <- MCHosts
  Slots <- MCSlots
  Switches = {sw1, sw2}
  NodeOf <- MCNodeOf
  Peer <- MCPeer
  Toward <- MCToward
  va = 2047
  InitConfs <- MCConfs
  Vlans = {10, 2047}
  VidMod = 4096
  MAX_VLAN_MEMBERSHIP = 2
  MaxFrames = 2
  MaxCommands = 2
  BROADCAST = BROADCAST
  NULL = NULL
  Entries = {e1, e2}
  Ips = {n1}
  m1 = m1
  m2 = m2
  Macs = {m1, m2}
  Cut <- MCCut
  n1 = n1
  n2 = n2
  eth1 = eth1
  eth2 = eth2
  Pkts = {p1, p2}
  MaxArpJobs = 2
  NoMac = NoMac
  IntfOf <- MCIntfOf
CHECK_DEADLOCK FALSE
INVARIANTS ForwardingSound EntriesSound
PROPERTIES VlanIsolation PendingEnds
