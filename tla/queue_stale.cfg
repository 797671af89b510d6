\* A silent engine and a file of an earlier invocation.
CONSTANTS
  Clusters <- OneMember
  Only = "*"
  MaxRuns = 2
  Silent <- AllSilent
SPECIFICATION Spec
PROPERTIES PassIsWritten
