SPECIFICATION Spec
CONSTANTS
  Id <- MCId
  Name <- MCName
  Dumps <- MCDumps
INVARIANTS
  CallsAreAttributed
