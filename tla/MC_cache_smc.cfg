SPECIFICATION Spec
CONSTANTS
  r1 = r1
  r2 = r2
  w1 = w1
  w2 = w2
  w3 = w3
  bios = bios
  RomKeys <- OneRom
  RamKeys <- TwoRam
  Untranslated <- OneBios
  Size <- SmcSize
  Exits <- SmcExits
  First <- SmcFirst
  Thumb <- SmcThumb
  Slots = 4
  Values = {0, 1}
  RomSize = 6
  RamSize = 5
  Reserve = 1
  HdrSize = 1
  TagSize = 1
  RomWatermark = 1
  RamWatermark = 1
  RomStart = 0
  MaxBlock = 4
  CapFloor = 1
  HotThreshold = 1
  FlushLeak = 1
  HeatIncrements = {1}
  HeatIdx <- OnlySlot
  HotIdx <- OnlySlot
  InterpStores = {3}
INVARIANTS
  Coherent
  StoresDetected
PROPERTIES
  DispatchTerminates
