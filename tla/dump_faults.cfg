\* llvm mode: a missing source, a filter, another directory; every way a run can end.
CONSTANTS
  N = 5
  Source <- FaultySource
  Blocks <- FaultyBlocks
  NoFile = {5}
  NoArgv = {4}
  Missing <- PartlyMissing
  Elsewhere = {2}
  Filters <- TwoGlobs
  Jobs = 2
  Mode = "llvm"
  EmitMacros = FALSE
SPECIFICATION FairSpec
PROPERTIES ImplementsContract FrozenAfterExit Terminates
