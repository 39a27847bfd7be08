---------------------------- MODULE DocLifecycle ----------------------------
(***************************************************************************)
(* The document lifecycle rules of src/document/lifecycle.rs: how a stored *)
(* JSON value is read as a docstatus, and which replacement of a document  *)
(* DocLifecycleController::validate_transition accepts.                    *)
(*                                                                         *)
(* A document (serde_json::Map) is a function on Keys; Absent marks a key  *)
(* the map does not have, Null the JSON null.                              *)
(***************************************************************************)
EXTENDS Integers

CONSTANTS
  Keys,           \* keys a document may have; "docstatus" is one of them
  Vals,           \* JSON values, Absent and Null included
  Absent,         \* no entry for the key
  Null,           \* JSON null
  SchemaFields,   \* fieldnames of the doctype's schema
  AllowOnSubmit,  \* schema fields with allow_on_submit = true
  I32Half         \* 2^31 in the code; smaller in the models

ASSUME LifecycleAssumption ==
  /\ "docstatus" \in Keys
  /\ {1, 2} \subseteq Vals
  /\ SchemaFields \subseteq Keys
  /\ AllowOnSubmit \subseteq SchemaFields
  /\ I32Half \in Nat
  /\ I32Half > 2

Documents == [Keys -> Vals]

(***************************************************************************)
(* docstatus.as_i64().unwrap_or(0) as i32: a value that is not an integer  *)
(* counts as 0, an integer is truncated to 32 bits.                        *)
(***************************************************************************)
AsI64(v) == IF v \in Int THEN v ELSE 0

AsI32(n) == ((n + I32Half) % (2 * I32Half)) - I32Half

Statuses == {"Draft", "Submitted", "Cancelled"}

FromI32(n) ==
  CASE n = 1 -> "Submitted"
    [] n = 2 -> "Cancelled"
    [] OTHER -> "Draft"

StatusOf(doc) == FromI32(AsI32(AsI64(doc["docstatus"])))

LegalTransitions ==
  { <<"Draft", "Draft">>, <<"Draft", "Submitted">>,
    <<"Submitted", "Submitted">>, <<"Submitted", "Cancelled">>,
    <<"Cancelled", "Cancelled">> }

\* old_doc.get(f).unwrap_or(&Value::Null)
Field(doc, f) == IF doc[f] = Absent THEN Null ELSE doc[f]

\* Schema fields that a submitted document may not change.
Protected == SchemaFields \ (AllowOnSubmit \cup {"modified", "modified_by"})

\* Mutant of ValidateTransition: without check 2, the lock of cancelled documents.
ValidateUnlocked(old, new) ==
  IF <<StatusOf(old), StatusOf(new)>> \notin LegalTransitions
    THEN "InvalidTransition"
  ELSE IF /\ StatusOf(old) = "Submitted"
          /\ StatusOf(new) = "Submitted"
          /\ \E f \in Protected : Field(old, f) # Field(new, f)
    THEN "ImmutableFieldUpdate"
  ELSE "Ok"

\* Mutant of ValidateTransition: check 3 looks at whether keys are present only.
ValidatePresence(old, new) ==
  IF <<StatusOf(old), StatusOf(new)>> \notin LegalTransitions
    THEN "InvalidTransition"
  ELSE IF StatusOf(old) = "Cancelled" /\ new # old
    THEN "ModifiedCancelled"
  ELSE IF /\ StatusOf(old) = "Submitted"
          /\ StatusOf(new) = "Submitted"
          /\ \E f \in Protected : (old[f] = Absent) # (new[f] = Absent)
    THEN "ImmutableFieldUpdate"
  ELSE "Ok"

(***************************************************************************)
(* The three checks in the order of the code; the first that fails gives   *)
(* the error.                                                              *)
(***************************************************************************)
ValidateTransition(old, new) ==
  IF <<StatusOf(old), StatusOf(new)>> \notin LegalTransitions
    THEN "InvalidTransition"
  ELSE IF StatusOf(old) = "Cancelled" /\ new # old
    THEN "ModifiedCancelled"
  ELSE IF /\ StatusOf(old) = "Submitted"
          /\ StatusOf(new) = "Submitted"
          /\ \E f \in Protected : Field(old, f) # Field(new, f)
    THEN "ImmutableFieldUpdate"
  ELSE "Ok"

\* Mutant of WithStatus: the other fields are not copied.
WithStatusOnly(doc, n) == [k \in Keys |-> IF k = "docstatus" THEN n ELSE Absent]

\* The document submit_document (status 1) and cancel_document (2) build.
WithStatus(doc, n) == [doc EXCEPT !["docstatus"] = n]
=============================================================================
