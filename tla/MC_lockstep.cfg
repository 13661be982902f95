CONSTANTS
  LitPoolMax = 128
  LitsegMaxRefs = 48
  LitsegDistance = 352
  Blocks <- AllBlocks
  Starts <- StartsOf
  SeqCost <- SeqT
  NseqCost <- NseqT
SPECIFICATION Spec
INVARIANTS TypeOK CodeClosed LockstepAgrees MvpAgrees CyclesAgree
