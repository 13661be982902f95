CONSTANTS
  RomPages = 3
  BlocksPerPage = 2
  WindowPages = 6
  FullBlocks = 5
  Layouts <- Moves
  MaxEra = 2
  Slots = 2
  Registers = {0, 1}
  ExecRegions <- InPlace
  ReadRegions <- ImageReads
  RamPages = {}
  MaxWrites = 2
SPECIFICATION SessionSpec
INVARIANTS SessionTypeOK PlaysTheImage PlaysInSync SlotsOwned GpioInRam PlaysTheRegisters
PROPERTIES RefreshEnds CartridgeRefined
CHECK_DEADLOCK FALSE
