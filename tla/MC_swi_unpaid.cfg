SPECIFICATION Spec
CONSTANTS
  Region <- RegionOf
  Host <- HostOf
  Wait <- WaitOf
  Fetch = 1
  Branch = 4
  Chunk = 2
  HostRam <- WorkRam
  Calls <- OneCopy
  IsrCalls <- None
  IsrWrites <- None
  Code <- None
  Slices = {60, 400}
  Handlers <- Even
  MaxCalls = 1
  MaxIrqs = 1
INVARIANTS
  SwiDebited
