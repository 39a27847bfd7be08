----------------------------- MODULE RecordStore -----------------------------
(***************************************************************************)
(* What the document endpoints promise of the stored records however their *)
(* requests interleave: an id is used once, its record lives in one        *)
(* namespace, is changed in place, and does not come back after a delete.  *)
(***************************************************************************)
CONSTANTS Namespaces, Ids, Documents, NoDoc

VARIABLES
  store,   \* store[n][i]: the document of record i in namespace n
  used     \* ids that have been created

vars == <<store, used>>

Init ==
  /\ store = [n \in Namespaces |-> [i \in Ids |-> NoDoc]]
  /\ used = {}

Create(n, i) ==
  /\ i \notin used
  /\ used' = used \cup {i}
  /\ \E d \in Documents : store' = [store EXCEPT ![n][i] = d]

Replace(n, i) ==
  /\ store[n][i] # NoDoc
  /\ \E d \in Documents : store' = [store EXCEPT ![n][i] = d]
  /\ UNCHANGED used

Remove(n, i) ==
  /\ store[n][i] # NoDoc
  /\ store' = [store EXCEPT ![n][i] = NoDoc]
  /\ UNCHANGED used

Next == \E n \in Namespaces, i \in Ids :
          Create(n, i) \/ Replace(n, i) \/ Remove(n, i)

Spec == Init /\ [][Next]_vars
=============================================================================
