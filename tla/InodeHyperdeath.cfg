CONSTANTS
  Blocks <- MCBlocks
  Inodes = {0, 1}
  W = 2
  D = 1
  BS = 2
  EOF <- MCEOF
  Junk <- MCJunk
  Uses <- MCUses
SPECIFICATION Spec
INVARIANT
  HyperdeathOnlyNew
CHECK_DEADLOCK FALSE
