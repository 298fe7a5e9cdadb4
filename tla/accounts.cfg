SPECIFICATION Spec
CONSTANTS
  t1 = t1
  t2 = t2
  Threads = {t1, t2}
  Paths <- MCPaths
  Chunks <- MCChunks
  Replacements <- MCReplacements
  Beginnings <- MCBeginnings
  NoText = NoText
  Char = {"a", "b", "n", "0", "EOF", "?"}
  Newline = "n"
  Nul = "0"
  Eof = "EOF"
  Stale = "?"
  Size = 8
  RingSize = 1
  MaxFds = 3
  MaxChanges = 2
CHECK_DEADLOCK FALSE
INVARIANTS Follows CrashExplained NoOtherTexts
PROPERTIES CatchesUp
