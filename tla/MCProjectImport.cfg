SPECIFICATION Spec
CHECK_DEADLOCK FALSE
CONSTANTS
  Projects <- MCProjects
  ObjectsOnce = TRUE
  OldFiles <- MCOldFiles
  MaxNumber = 3
  Width = 16
  MaxImports = 2
  MaxFailures = 1
INVARIANTS
  TypeOK
  VariablesAsLinked
  GroupVariablesAgree
  NumbersUnique
  RowsKeepDevice
