SPECIFICATION Spec
CONSTANTS
  None = None
  Managers = {"m1", "m2"}
  Compilers = {"c"}
  Schemas <- MCSchemas
CHECK_DEADLOCK FALSE
INVARIANTS SystemFieldsKept
PROPERTIES SyncedFits
