\* Aggregates that differ in their first field.
CONSTANTS
  Symbol <- Symbols
  Word <- Words
  Removed <- Known
  Inputs <- Compared
  BlockTol = 2
  InstrTol = 2
SPECIFICATION Spec
INVARIANT ReturnTypesAgree
