\* Two invocations over one file system, killed anywhere; the engine may exit 0
\* without writing for one member of three.
CONSTANTS
  Clusters <- ThreeClusters
  Only = "*"
  MaxRuns = 2
  Silent <- OneSilent
SPECIFICATION FairSpec
INVARIANTS TypeOK Provenance ExitZeroMeansAll PassIsFresh
PROPERTIES StopsTheBatch RunEnds
