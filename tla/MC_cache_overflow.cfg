SPECIFICATION Spec
CONSTANTS
  r1 = r1
  r2 = r2
  w1 = w1
  w2 = w2
  w3 = w3
  bios = bios
  RomKeys <- TwoRom
  RamKeys <- ThreeRam
  Untranslated <- OneBios
  Size <- MixedSize
  Exits <- MixedExits
  First <- MixedFirst
  Thumb <- MixedThumb
  Slots = 6
  Values = {0}
  RomSize = 6
  RamSize = 6
  Reserve = 1
  HdrSize = 1
  TagSize = 1
  RomWatermark = 1
  RamWatermark = 1
  RomStart = 0
  MaxBlock = 2
  CapFloor = 1
  HotThreshold = 1
  FlushLeak = 1
  HeatIncrements = {1}
  HeatIdx <- Apart
  HotIdx <- Aliased
  InterpStores = {}
INVARIANTS
  TypeOK
  NoDanglingLink
  StubTablesLive
  RamTagsLive
  BlocksDisjoint
  RunningLive
PROPERTIES
  ResolvesWanted
  ProbeNeverHeats
