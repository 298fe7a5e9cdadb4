SPECIFICATION Spec
CONSTANTS
  t1 = t1
  t2 = t2
  logger = logger
  Threads = {t1, t2, logger}
  Logger = logger
  Others = {}
  Events = {"write", "rename"}
  HashSize = 1
  RingSize = 1
  MaxCalls = 4
  Leader <- MCLeader
  Handler <- MCHandler
  EnterAt <- MCEnterAt
  ExitAt <- MCExitAt
  NPrograms <- MCNPrograms
  HashMax <- MCHashMax
  RingMax <- MCRingMax
SYMMETRY OtherThreads
INVARIANTS TypeOK RecordsPair OneRecordPerEntry NoLeakedEntry
PROPERTIES ReadRecordsStable LoggerInvisible ImplementsEventLog
