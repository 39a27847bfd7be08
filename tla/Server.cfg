SPECIFICATION ServerSpec
CONSTANTS
  t1 = t1
  s1 = s1
  i1 = i1
  i2 = i2
  t2 = t2
  p1 = p1
  p2 = p2
  p3 = p3
  Text = Text
  Absent = Absent
  Null = Null
  NoTenant = NoTenant
  NoId = NoId
  NoDoc = NoDoc
  NoJob = NoJob
  Keys <- MCKeys
  Vals <- MCVals
  SchemaFields = {"total"}
  AllowOnSubmit = {}
  I32Half = 4
  Tenants = {t1, t2}
  Ids = {i1, i2}
  HasSchema = {i1}
  Slots = {s1}
  Ops = {"create", "get", "update", "delete", "submit", "cancel"}
  Bodies <- MCBodies
  PutIds = {i1, i2}
  Provisions = {p1, p2}
  Files <- MCFiles
  InFlight = 1
SYMMETRY MCSymmetry
INVARIANTS SuccessIsComplete OneVersion
PROPERTIES ServedInOneStep
