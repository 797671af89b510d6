\* Two entries share a source; their workers overwrite one output.
CONSTANTS
  N = 3
  Source <- SharedSource
  Blocks <- SharedBlocks
  NoFile = {}
  NoArgv = {}
  Missing = {}
  Elsewhere = {}
  Filters = {}
  Jobs = 2
  Mode = "ast"
  EmitMacros = TRUE
SPECIFICATION Spec
INVARIANTS TypeOK ManifestComplete SoleOutputWhole NoOldBlocks SidecarsWhole
