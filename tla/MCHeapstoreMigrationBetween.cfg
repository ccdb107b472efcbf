SPECIFICATION Spec
CONSTANTS
  r1 = r1
  Targets = {10050, 10100}
  Stamps = {9999}
  Rows <- MCRows
  NoFile = NoFile
  Partial = Partial
INVARIANT
  SchemaMatchesVersion
