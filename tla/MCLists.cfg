CONSTANTS
  NBlocks = 7
  IlistSize = 1
  PerNode = 2
  NInodes = 5
  Blocks = {11, 12}
  EOF <- MCEOF
  Inodes = {0, 1, 2, 4}
  HASHMAP_SIZE = 2
  MaxRefs = 2
  MaxLinks = 2
SPECIFICATION MCSpec
INVARIANTS
  BlockListTypeOK
  Partition
  InodeListTypeOK
  SignTellsAllocated
  TypeOK
  CacheCoherent
  NoOrphans
PROPERTIES
  ImplementsBlockPool
  ImplementsInodePool
  ImplementsOpenInodes
