SPECIFICATION PathsSpec
CONSTANTS
  Size = 14
  NameSize = 4
  MaxDentries = 4
  Slash = "/"
  Nul = "0"
  NameLength = 5
  Chars <- MCChars
  Targets <- MCTargets
  FileNames <- MCFileNames
  Beyond <- MCBeyond
INVARIANTS StaysInside PathRight DeepPathIsEnd RelativeRight
CHECK_DEADLOCK FALSE
