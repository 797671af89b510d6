\* Two dumps, the header filter on; a chain of five visits, or a fifth kind,
\* is one too many.
CONSTANTS
  Manifests <- Pairs
  KeepAll = FALSE
  MaxU16 = 3
  MaxU8 = 1
  RecursionLimit = 4
SPECIFICATION FairSpec
INVARIANTS TypeOK ChildrenAsWritten RootPerDump VocabsDecode
PROPERTIES LinksSetOnce Completes
