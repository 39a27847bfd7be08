----------------------------- MODULE MCDocHistory -----------------------------
(* A document with a protected field "total", an allow_on_submit field      *)
(* "note" and a key outside the schema, "extra"; 9 is truncated to 1.       *)
EXTENDS DocHistory

MCKeys == {"docstatus", "total", "note", "extra"}

MCVals == {1, 2, 9, Absent, Null}
=============================================================================
