SPECIFICATION Spec
CONSTANTS
  Nul = "0"
  Char <- MCChar
  Fault = Fault
  Outside = Outside
  t1 = t1
  t2 = t2
  Threads = {t1, t2}
  PathSize = 9
  ArgSize = 3
  MaxArgs = 3
  ArgsSize = 6
  MaxCalls = 2
  Cwd <- MCCwd
  FileNames <- MCFileNames
  ArgLists <- MCArgLists
INVARIANTS ArgvRight FileRight ErrorsTrue
CHECK_DEADLOCK FALSE
