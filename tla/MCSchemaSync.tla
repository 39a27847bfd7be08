---------------------------- MODULE MCSchemaSync ----------------------------
(***************************************************************************)
(* Versions of a DocType for TLC: fields come, go and change their type,   *)
(* whether they are required and whether they are unique; one version has  *)
(* a field of its own for a system field's name, and one name twice.       *)
(***************************************************************************)
EXTENDS SchemaSync

MCField(name, type, reqd, unique) ==
  [name |-> name, type |-> type, reqd |-> reqd, unique |-> unique]

MCSchemas ==
  { << MCField("f", "Int", TRUE, TRUE), MCField("g", "Table", FALSE, FALSE) >>,
    << MCField("f", "Data", FALSE, FALSE) >>,
    << MCField("g", "Int", TRUE, TRUE), MCField("h", "Link", FALSE, FALSE) >>,
    << MCField("f", "Data", TRUE, TRUE), MCField("owner", "Link", TRUE, FALSE),
       MCField("f", "Check", FALSE, FALSE) >> }
=============================================================================
