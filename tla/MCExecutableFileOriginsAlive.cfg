SPECIFICATION Spec
CONSTANTS
  Objects = {a, b}
  Files <- SomeFiles
  MaxOpens = 1
  MaxTables = 2
SYMMETRY AnyObject
INVARIANT OriginsAlive
