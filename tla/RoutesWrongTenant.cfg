SPECIFICATION Spec
CONSTANTS
  t1 = t1
  s1 = s1
  s2 = s2
  i1 = i1
  i2 = i2
  t2 = t2
  Text = Text
  Absent = Absent
  Null = Null
  NoTenant = NoTenant
  NoId = NoId
  NoDoc = NoDoc
  NoJob = NoJob
  Keys <- MCKeys
  Vals <- MCVals
  SchemaFields = {"total"}
  AllowOnSubmit = {}
  I32Half = 4
  Tenants = {t1, t2}
  Ids = {i1}
  HasSchema = {i1}
  Slots = {s1, s2}
  Ops = {"create"}
  Bodies <- MCDraft
  PutIds = {i1}
INVARIANTS OwnNamespace
