SPECIFICATION Spec
CONSTANTS
  Id <- MCId
  Name <- MCName
  Dumps <- CalleeDumps
INVARIANTS
  CallsAreOfTheNamed
