\* Two processes open one file and two backups are taken of it.
CONSTANTS
  Processes = {a, b}
  Backups = {x, y}
  Files <- FoundFiles
  MaxRows = 2
  None = None

SPECIFICATION Spec

INVARIANTS
  Inv
  OpenMeansCurrent
  BackupIsSnapshot
PROPERTY ImplementsSchemaSwitch
