-------------------------- MODULE MCDocumentRoutes --------------------------
(* Small instances of DocumentRoutes for TLC. *)
EXTENDS DocumentRoutes, TLC

CONSTANTS t1, t2, s1, s2, i1, i2, Text

\* "total" is a field of the schema; 9 truncates to 1, as 2^32 + 1 does.
MCKeys == {"docstatus", "total"}
MCVals == {0, 1, 2, 9, Text, Absent, Null}

\* A draft.
MCDraft == { [docstatus |-> Absent, total |-> 1] }

MCSymmetry == Permutations(Slots) \cup Permutations(Tenants)
=============================================================================
