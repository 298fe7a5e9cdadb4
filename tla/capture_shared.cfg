SPECIFICATION Spec
CONSTANTS
  t1 = t1
  t2 = t2
  logger = logger
  Threads = {t1, t2, logger}
  Logger = logger
  Others = {t2}
  Events = {"connect", "listen", "unlink", "execve"}
  HashSize = 3
  RingSize = 1
  MaxCalls = 3
  Leader <- MCLeader
  Handler <- MCHandler
  EnterAt <- MCEnterAt
  ExitAt <- MCExitAt
  NPrograms <- MCNPrograms
  HashMax <- MCHashMax
  RingMax <- MCRingMax
INVARIANTS RecordsPair OneRecordPerEntry NoLeakedEntry
PROPERTIES LostOnlyToFullRing ImplementsEventLog
