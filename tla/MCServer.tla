------------------------------- MODULE MCServer -------------------------------
(* Small instances of Server for TLC. *)
EXTENDS Server, TLC

CONSTANTS t1, t2, s1, i1, i2, p1, p2, p3, Text

MCKeys == {"docstatus", "total"}
MCVals == {0, 1, 2, 9, Text, Absent, Null}

\* A draft and its other version.
MCBodies ==
  { [docstatus |-> 0, total |-> Text], [docstatus |-> Absent, total |-> 1] }

MCSymmetry == Permutations(Tenants) \cup Permutations(Provisions)

\* Two apps bring the same doctype, or one does.
MCFile == { [doctype |-> "Note", version |-> 1] }
MCFiles == MCFile \cup { [doctype |-> "Note", version |-> 2] }
===============================================================================
