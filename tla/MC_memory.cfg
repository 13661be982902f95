SPECIFICATION Spec
CONSTANTS
  RomPages = 3
  Fragments <- MCFragments
  SeqCost <- MCSeq
  NseqCost <- MCNseq
  Cases <- MCCases
  Machines <- MCMachines
  Blocks <- MCBlocks
  Cells <- MCCells
INVARIANTS TypeOK FastAgrees ChargesAgree CodeFresh
CHECK_DEADLOCK FALSE
