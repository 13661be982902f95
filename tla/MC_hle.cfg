SPECIFICATION Spec
CONSTANTS
  Region <- RegionOf
  Host <- HostOf
  Wait <- WaitOf
  Fetch = 1
  Branch = 4
  Chunk = 2
  HostRam <- WorkRam
  Calls <- GameCalls
  IsrCalls <- HandlerCalls
  IsrWrites <- HandlerWrites
  Code <- CodeAt
  Slices = {60, 400}
  Handlers <- Odd
  MaxCalls = 1
  MaxIrqs = 1
INVARIANTS
  SwiFaithful
  SwiPriced
  SwiFlushes
