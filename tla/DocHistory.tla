------------------------------ MODULE DocHistory ------------------------------
(***************************************************************************)
(* The life of one document every save of which validate_transition        *)
(* (src/document/lifecycle.rs) has accepted.  History variables remember   *)
(* the document as it was submitted and as it was cancelled.               *)
(***************************************************************************)
EXTENDS DocLifecycle

CONSTANT NoSave   \* no such save yet

ASSUME HistoryAssumption == NoSave \notin Documents

VARIABLES
  saved,      \* the document as last saved
  filed,      \* the document as it was when it became Submitted
  cancelled   \* the document as it was when it became Cancelled

historyVars == <<saved, filed, cancelled>>

\* A document as it is first saved: no rule applies, so any status is possible.
HistoryInit ==
  /\ saved \in Documents
  /\ filed = IF StatusOf(saved) = "Submitted" THEN saved ELSE NoSave
  /\ cancelled = IF StatusOf(saved) = "Cancelled" THEN saved ELSE NoSave

Becomes(status, new) == StatusOf(saved) # status /\ StatusOf(new) = status

Save(new) ==
  /\ ValidateTransition(saved, new) = "Ok"
  /\ saved' = new
  /\ filed' = IF Becomes("Submitted", new) THEN new ELSE filed
  /\ cancelled' = IF Becomes("Cancelled", new) THEN new ELSE cancelled

HistoryNext == \E new \in Documents : Save(new)

HistorySpec == HistoryInit /\ [][HistoryNext]_historyVars

-----------------------------------------------------------------------------
HistoryTypeOK ==
  /\ saved \in Documents
  /\ filed \in Documents \cup {NoSave}
  /\ cancelled \in Documents \cup {NoSave}

SameProtected(a, b) == \A f \in Protected : Field(a, f) = Field(b, f)

(***************************************************************************)
(* However many saves follow a submit, the fields of the schema without    *)
(* allow_on_submit have the values the document was submitted with.        *)
(***************************************************************************)
FiledFieldsKept ==
  StatusOf(saved) = "Submitted" => filed # NoSave /\ SameProtected(saved, filed)

(***************************************************************************)
(* Once cancelled, a document stays key for key what it was cancelled as,  *)
(* and Cancelled: no later save changes it, not even outside the schema.   *)
(***************************************************************************)
CancelledFrozen ==
  cancelled # NoSave => saved = cancelled /\ StatusOf(saved) = "Cancelled"
=============================================================================
