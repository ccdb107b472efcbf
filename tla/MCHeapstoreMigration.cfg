SPECIFICATION Spec
CONSTANTS
  r1 = r1
  Targets = {0, 10100, 20000}
  Stamps = {9999}
  Rows <- MCRows
  NoFile = NoFile
  Partial = Partial
INVARIANTS
  VersionNeverTorn
  SchemaMatchesVersion
  FailClosed
  LostOnlyByRestore
PROPERTIES
  VersionUntouchedOnFailure
