CONSTANTS
  Names <- MCNames
  Inodes = {1, 2}
  E = 3
  NS = 9
  INO_EOF <- MCEOF
  dot <- MCdot
  dotdot <- MCdotdot
  self = 1
  root = 2
  MaxBlocks = 4
SPECIFICATION ScanSpec
INVARIANTS
  TypeOK
  Compacted
  LastBlockInUse
  ScanComplete
  NoneTwice
PROPERTY
  ImplementsDirectory
