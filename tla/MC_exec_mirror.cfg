CONSTANTS
  RomPages = 4
  BlocksPerPage = 2
  WindowPages = 8
  FullBlocks = 8
  Layouts <- Fragmented
  MaxEra = 0
  Slots = 2
  Registers = {0, 1}
  ExecRegions <- Mirrored
  ReadRegions <- ImageReads
  RamPages = {1}
SPECIFICATION Spec
INVARIANT ViewFaithful
