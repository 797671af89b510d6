\* Every comparison of small functions, every way to rename them.
CONSTANTS
  Symbol <- Symbols
  Word <- Words
  Removed <- Known
  Inputs <- AllInputs
  BlockTol = 2
  InstrTol = 2
SPECIFICATION Spec
INVARIANTS TypeOK SizesAreOfTheBody NotSharedBySymbols  PassesOnlyTheAlike
