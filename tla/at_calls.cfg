SPECIFICATION Spec
CONSTANTS
  d = d
  Cwd = Cwd
  Fds = {Cwd, d}
  Char <- MCChar
  Dirs <- MCDirs
  Files <- MCFiles
  Closed = Closed
  Names <- MCNames
  NoName = NoName
  Slash = "/"
  Stale = Stale
  Outside = Outside
  MaxMoves = 2
INVARIANTS PathsRight LayoutRead ErrorsTold
CHECK_DEADLOCK FALSE
