SPECIFICATION HistorySpec
CONSTANTS
  Absent = Absent
  Null = Null
  NoSave = NoSave
  Keys <- MCKeys
  Vals <- MCVals
  SchemaFields = {"total", "note"}
  AllowOnSubmit = {"note"}
  I32Half = 4
INVARIANTS FiledFieldsKept CancelledFrozen
