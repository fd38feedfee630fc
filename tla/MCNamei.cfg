CONSTANTS
  Inodes = {0, 1, 2, 3, 4, 5}
  root = 0
  Dirs = {0, 1}
  Links = {4, 5}
  Entries <- MCEntries
  Empty = ""
  Targets <- MCTargets
  Paths <- MCPaths
  MaxLevel = 3
  Longest = 3
SPECIFICATION Spec
INVARIANTS
  TypeOK
  OthersGiveBack
  FindsTheFile
  CurdirForCreate
  AbortsOnlyWhenLost
PROPERTY
  Returns
CHECK_DEADLOCK FALSE
