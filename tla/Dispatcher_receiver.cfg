SPECIFICATION Spec
CONSTANTS
  NULL = NULL
  Dis = Dis
  QHead = QHead
  pktjob = pktjob
  t1 = t1
  t2 = t2
  p1 = p1
  p2 = p2
  PktTask = pktjob
  TimerThreads = {timer}
  CliThreads = {}
  RecvThreads = {recv}
  Tasks <- TwoTasks
  Packets <- TwoPackets
  BgJobs = FALSE
  SpuriousWakeups = TRUE
  MaxCalls = 1
  MaxRecv = 2
CHECK_DEADLOCK FALSE
INVARIANTS NoLostWakeup PktNotStranded
