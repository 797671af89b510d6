\* Every pair of small functions through both tools, and C bindings by hand.
CONSTANTS
  Corpora <- AllCorpora
  Canonical = "sha256_init"
  Sibling = "sha384_init"
  Inputs <- MCInputs
  Primitive <- PrimitiveRenames
  Pascal <- PascalNames
  Overrides <- MCOverrides
  IdentOf <- MCIdentOf
  TypeOf <- MCTypeOf
SPECIFICATION Spec
INVARIANTS TypeOK ReportIsExact LooseNamesComplete TableIsExact FailsOnlyWhenAmbiguous
INVARIANTS PositionsAreRenamed FailsOnAmbiguousPositions
