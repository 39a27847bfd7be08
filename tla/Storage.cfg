SPECIFICATION Spec
CONSTANTS
  NoFile = NoFile
  Uploads = {"u1", "u2"}
  Tenants = {"a", "b"}
  Chunks = {"x", "y"}
  MaxChunks = 2
  RemoveMayFail = TRUE
CHECK_DEADLOCK FALSE
INVARIANTS ContentAddressed Acknowledged OnlyUploaded
