SPECIFICATION FairSpec
CONSTANTS
  NULL = NULL
  Dis = Dis
  QHead = QHead
  pktjob = pktjob
  t1 = t1
  t2 = t2
  p1 = p1
  p2 = p2
  PktTask = pktjob
  TimerThreads = {timer}
  CliThreads = {cli}
  RecvThreads = {}
  Tasks <- TwoTasks
  Packets <- OnePacket
  BgJobs = TRUE
  SpuriousWakeups = FALSE
  MaxCalls = 1
  MaxRecv = 0
INVARIANTS TasksSound
PROPERTIES QueuedIsServed
