CONSTANTS
  Inodes = {root, i1, i2, i3}
  root = root
  Names = {a, b}
  Handles = {h1}
  None = None
  MaxLeaks = 1
SPECIFICATION Spec
SYMMETRY Symmetric
INVARIANTS
  TypeOK
  LinksMatchNames
  OthersAccounted
  IsTree
  TornByOne
PROPERTY
  ImplementsTree
CHECK_DEADLOCK FALSE
