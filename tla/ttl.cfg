SPECIFICATION Spec
CONSTANTS
  Id <- MCId
  Name <- MCName
  Dumps <- MCDumps
INVARIANTS
  TypeOK
  GraphIsClosed
  KnownIdsResolve
  OneNodePerIri
  NestingIsTheDumps
  EdgesAreExact
