CONSTANTS
  RomPages = 5
  BlocksPerPage = 2
  WindowPages = 10
  FullBlocks = 9
  Layouts <- Fragmented
  MaxEra = 0
  Slots = 3
  Registers = {0, 1}
  ExecRegions <- InPlace
  ReadRegions <- ImageReads
  RamPages = {1}
SPECIFICATION Spec
INVARIANTS TypeOK MapFaithful ViewFaithful QueueWhole
PROPERTY EvictTerminates
