SPECIFICATION FairSpec
CONSTANTS
  t1 = t1
  t2 = t2
  logger = logger
  Threads = {t1, logger}
  Logger = logger
  Others = {}
  Events = {"write", "connect"}
  HashSize = 1
  RingSize = 2
  MaxCalls = 3
  Leader <- MCLeader
  Handler <- MCHandler
  EnterAt <- MCEnterAt
  ExitAt <- MCExitAt
  NPrograms <- MCNPrograms
  HashMax <- MCHashMax
  RingMax <- MCRingMax
PROPERTIES Delivered
