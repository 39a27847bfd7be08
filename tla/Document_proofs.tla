-------------------------- MODULE Document_proofs --------------------------
(***************************************************************************)
(* Proofs about documents, for every number of tenants, records, fields    *)
(* and requests in flight: what validate_transition preserves              *)
(* (DocHistory), what the endpoints preserve (DocumentRoutes), and what    *)
(* provisioning and the endpoints together do (Server), down to one        *)
(* request at a time, which implements DocumentStore.                      *)
(***************************************************************************)
EXTENDS Server, DocHistory, FiniteSetTheorems, TLAPS


-----------------------------------------------------------------------------
(* Documents and statuses *)

\* submit and cancel build documents with the status they are named after.
LEMMA WithStatusType ==
  ASSUME NEW doc \in Documents, NEW n \in {1, 2}
  PROVE  /\ WithStatus(doc, n) \in Documents
         /\ WithStatus(doc, n)["docstatus"] = n
         /\ \A k \in Keys \ {"docstatus"} : WithStatus(doc, n)[k] = doc[k]
  BY LifecycleAssumption DEF WithStatus, Documents

LEMMA StatusOfWithStatus ==
  ASSUME NEW doc \in Documents
  PROVE  /\ StatusOf(WithStatus(doc, 1)) = "Submitted"
         /\ StatusOf(WithStatus(doc, 2)) = "Cancelled"
<1>1. AsI32(1) = 1 /\ AsI32(2) = 2
  BY LifecycleAssumption DEF AsI32
<1>2. AsI64(1) = 1 /\ AsI64(2) = 2
  BY DEF AsI64
<1>3. FromI32(1) = "Submitted" /\ FromI32(2) = "Cancelled"
  BY DEF FromI32
<1> QED
  BY <1>1, <1>2, <1>3, WithStatusType DEF StatusOf

\* Check 1 of validate_transition: no way from Draft to Cancelled or to Draft.
LEMMA AcceptedTransition ==
  ASSUME NEW old, NEW new, ValidateTransition(old, new) = "Ok"
  PROVE  StatusOf(new) = "Cancelled" => StatusOf(old) # "Draft"
<1>1. <<StatusOf(old), StatusOf(new)>> \in LegalTransitions
  BY DEF ValidateTransition
<1> QED
  BY <1>1 DEF LegalTransitions

-----------------------------------------------------------------------------
(* Histories of validated saves *)

HistoryInv == HistoryTypeOK /\ FiledFieldsKept /\ CancelledFrozen

\* The initial document satisfies the invariant, whatever its status.
LEMMA InitHistoryInv == HistoryInit => HistoryInv
  BY HistoryAssumption
     DEF HistoryInit, HistoryInv, HistoryTypeOK, FiledFieldsKept, CancelledFrozen, SameProtected

\* What validate_transition accepts, rule by rule.
LEMMA Accepted ==
  ASSUME NEW old, NEW new, ValidateTransition(old, new) = "Ok"
  PROVE  /\ <<StatusOf(old), StatusOf(new)>> \in LegalTransitions
         /\ StatusOf(old) = "Cancelled" => new = old
         /\ StatusOf(old) = "Submitted" /\ StatusOf(new) = "Submitted"
              => SameProtected(old, new)
<1>1. \A a, b, c, d : (IF a THEN "InvalidTransition" ELSE IF b THEN "ModifiedCancelled"
                       ELSE IF c THEN "ImmutableFieldUpdate" ELSE "Ok") = "Ok"
                      => ~a /\ ~b /\ ~c
  OBVIOUS
<1> QED
  BY DEF ValidateTransition, SameProtected

\* A validated save preserves the invariant.
LEMMA NextHistoryInv == HistoryInv /\ [HistoryNext]_historyVars => HistoryInv'
<1> SUFFICES ASSUME HistoryInv, [HistoryNext]_historyVars PROVE HistoryInv'
  OBVIOUS
<1> USE DEF HistoryInv
<1>1. ASSUME NEW new \in Documents, Save(new)
      PROVE  HistoryInv'
  <2>1. /\ ValidateTransition(saved, new) = "Ok"
        /\ saved' = new
        /\ filed' = IF Becomes("Submitted", new) THEN new ELSE filed
        /\ cancelled' = IF Becomes("Cancelled", new) THEN new ELSE cancelled
    BY <1>1 DEF Save
  <2>2. /\ <<StatusOf(saved), StatusOf(new)>> \in LegalTransitions
        /\ StatusOf(saved) = "Cancelled" => new = saved
        /\ StatusOf(saved) = "Submitted" /\ StatusOf(new) = "Submitted"
             => SameProtected(saved, new)
    BY <2>1, Accepted
  <2>3. HistoryTypeOK'
    BY <1>1, <2>1 DEF HistoryTypeOK
  <2>4. FiledFieldsKept'
    <3>1. CASE StatusOf(new) = "Submitted" /\ StatusOf(saved) = "Submitted"
      BY <2>1, <2>2, <3>1 DEF FiledFieldsKept, SameProtected, Becomes
    <3>2. CASE StatusOf(new) = "Submitted" /\ StatusOf(saved) # "Submitted"
      BY <1>1, <2>1, <3>2, HistoryAssumption
         DEF FiledFieldsKept, SameProtected, Becomes
    <3>3. CASE StatusOf(new) # "Submitted"
      BY <2>1, <3>3 DEF FiledFieldsKept
    <3> QED
      BY <3>1, <3>2, <3>3
  <2>5. CancelledFrozen'
    BY <2>1, <2>2 DEF CancelledFrozen, Becomes
  <2> QED
    BY <2>3, <2>4, <2>5
<1>2. ASSUME UNCHANGED historyVars
      PROVE  HistoryInv'
  BY <1>2 DEF historyVars, HistoryTypeOK, FiledFieldsKept, CancelledFrozen
<1> QED
  BY <1>1, <1>2 DEF HistoryNext

(***************************************************************************)
(* Every reachable history satisfies the invariant.                        *)
(***************************************************************************)
LEMMA HistoryInvariance == HistorySpec => []HistoryInv
  BY InitHistoryInv, NextHistoryInv, PTL DEF HistorySpec

(***************************************************************************)
(* After a submit the protected fields keep the values they were filed     *)
(* with, through any number of validated saves (check 3 of                 *)
(* validate_transition, and the transitions check 1 leaves open).          *)
(***************************************************************************)
THEOREM FiledFieldsAreKept == HistorySpec => []FiledFieldsKept
  BY HistoryInvariance, PTL DEF HistoryInv

(***************************************************************************)
(* A cancelled document never changes again (checks 1 and 2).              *)
(***************************************************************************)
THEOREM CancelledIsFrozen == HistorySpec => []CancelledFrozen
  BY HistoryInvariance, PTL DEF HistoryInv

-----------------------------------------------------------------------------
(* Types *)

\* What a handler at await p knows of its request j and of the namespace n.
Fits(p, j, n) ==
  /\ p \in {"use_ns", "exec", "select"} => j \in Requests
  /\ p = "exec" => j.op \notin {"submit", "cancel"}
  /\ p \in {"select", "write"} => j.op \in {"submit", "cancel"}
  /\ p = "write" => j \in Jobs /\ j.id \in Ids /\ j.doc \in Documents
  /\ p \in {"exec", "select", "write"} => n \in Tenants

WellFormed(s) == Fits(pc[s], job[s], ns)

TypeInv == TypeOK /\ \A s \in Slots : WellFormed(s)

LEMMA InitTypeInv == Init => TypeInv
  BY RoutesAssumption DEF Init, TypeInv, TypeOK, WellFormed, Fits, Codes

LEMMA RequestFacts ==
  ASSUME NEW j \in Requests
  PROVE  /\ j \in Jobs
         /\ j.op \in Ops
         /\ j.op # "create" => j.id \in Ids
         /\ j.op \in {"create", "update"} => j.doc \in Documents
         /\ j.op = "update" => j.id \in PutIds
  BY RoutesAssumption DEF Requests, Jobs

\* A response leaves a slot idle and the others as they were.
LEMMA RespondType ==
  ASSUME TypeInv, NEW s \in Slots, NEW code \in Codes, NEW doc \in Documents \cup {NoDoc},
         Respond(s, code, doc),
         ns' \in Tenants \cup {NoTenant}, ns \in Tenants => ns' \in Tenants,
         db' \in [Tenants -> [Ids -> Documents \cup {NoDoc}]],
         owner' \in [Ids -> Tenants \cup {NoTenant}]
  PROVE  TypeInv'
<1>1. TypeOK'
  BY DEF TypeInv, TypeOK, Respond
<1>2. ASSUME NEW z \in Slots PROVE WellFormed(z)'
  <2>1. CASE z = s
    BY <2>1 DEF TypeInv, TypeOK, Respond, WellFormed, Fits
  <2>2. CASE z # s
    <3>1. pc'[z] = pc[z] /\ job'[z] = job[z]
      BY <2>2 DEF TypeInv, TypeOK, Respond
    <3> QED
      BY <3>1 DEF TypeInv, WellFormed, Fits, Requests, Jobs, Documents
  <2> QED
    BY <2>1, <2>2
<1> QED
  BY <1>1, <1>2 DEF TypeInv

\* Slot s moves on to await p with request j; nothing is written.
Advance(s, p, j) ==
  /\ pc' = [pc EXCEPT ![s] = p]
  /\ job' = [job EXCEPT ![s] = j]
  /\ UNCHANGED <<db, owner, answer>>

LEMMA AdvanceType ==
  ASSUME TypeInv, NEW s \in Slots, NEW p \in {"use_ns", "exec", "select", "write"},
         NEW j \in Jobs, Advance(s, p, j), Fits(p, j, ns'),
         ns' \in Tenants \cup {NoTenant}, ns \in Tenants => ns' \in Tenants
  PROVE  TypeInv'
<1>1. TypeOK'
  BY DEF TypeInv, TypeOK, Advance
<1>2. ASSUME NEW z \in Slots PROVE WellFormed(z)'
  <2>1. CASE z = s
    BY <2>1 DEF TypeInv, TypeOK, Advance, WellFormed
  <2>2. CASE z # s
    <3>1. pc'[z] = pc[z] /\ job'[z] = job[z]
      BY <2>2 DEF TypeInv, TypeOK, Advance
    <3> QED
      BY <3>1 DEF TypeInv, WellFormed, Fits
  <2> QED
    BY <2>1, <2>2
<1> QED
  BY <1>1, <1>2 DEF TypeInv

\* The records in a namespace have the right type after a write.
LEMMA WriteType ==
  ASSUME TypeInv, ns \in Tenants, NEW i \in Ids, NEW doc \in Documents
  PROVE  /\ db \in [Tenants -> [Ids -> Documents \cup {NoDoc}]]
         /\ owner \in [Ids -> Tenants \cup {NoTenant}]
         /\ Stored(i) \in Documents \cup {NoDoc}
         /\ [db EXCEPT ![ns][i] = doc] \in [Tenants -> [Ids -> Documents \cup {NoDoc}]]
         /\ [db EXCEPT ![ns][i] = NoDoc] \in [Tenants -> [Ids -> Documents \cup {NoDoc}]]
  BY DEF TypeInv, TypeOK, Stored

LEMMA NextTypeInv == TypeInv /\ [Next]_vars => TypeInv'
<1> SUFFICES ASSUME TypeInv, [Next]_vars PROVE TypeInv'
  OBVIOUS
<1> USE DEF Codes
<1>1. ASSUME NEW s \in Slots, Receive(s) PROVE TypeInv'
  <2>1. PICK j \in Requests : job' = [job EXCEPT ![s] = j]
    BY <1>1 DEF Receive
  <2>2. j \in Jobs
    BY RequestFacts
  <2>3. ns' = ns /\ ns \in Tenants \cup {NoTenant}
    BY <1>1 DEF Receive, TypeInv, TypeOK
  <2>4. Fits("use_ns", j, ns')
    BY DEF Fits
  <2>5. Advance(s, "use_ns", j)
    BY <1>1, <2>1 DEF Receive, Advance
  <2> QED
    BY <2>2, <2>3, <2>4, <2>5, AdvanceType
<1>2. ASSUME NEW s \in Slots, UseNs(s) PROVE TypeInv'
  <2>1. job[s] \in Requests /\ job[s].tenant \in Tenants /\ job[s] \in Jobs
    BY <1>2, RequestFacts DEF UseNs, Target, TypeInv, WellFormed, Fits, Jobs
  <2>2. ns' \in Tenants \cup {NoTenant} /\ (ns \in Tenants => ns' \in Tenants)
    BY <1>2, <2>1 DEF UseNs, Target, TypeInv, TypeOK
  <2>3. CASE Respond(s, "500", NoDoc)
    BY <1>2, <2>2, <2>3, RespondType DEF UseNs, Target, TypeInv, TypeOK
  <2>4. CASE ~Respond(s, "500", NoDoc)
    <3> DEFINE p == IF job[s].op \in {"submit", "cancel"} THEN "select" ELSE "exec"
    <3>1. /\ ns' = job[s].tenant
          /\ pc' = [pc EXCEPT ![s] = p]
          /\ UNCHANGED <<job, answer, db, owner>>
      BY <1>2, <2>4 DEF UseNs, Target
    <3>2. Advance(s, p, job[s])
      BY <3>1 DEF Advance, TypeInv, TypeOK
    <3>3. Fits(p, job[s], ns') /\ p \in {"use_ns", "exec", "select", "write"}
      BY <2>1, <3>1 DEF Fits
    <3> HIDE DEF p
    <3> QED
      BY <2>1, <2>2, <3>2, <3>3, AdvanceType
  <2> QED
    BY <2>3, <2>4
<1>3. ASSUME NEW s \in Slots, CreateDocument(s) PROVE TypeInv'
  <2>1. job[s] \in Requests /\ job[s].doc \in Documents /\ job[s].tenant \in Tenants
        /\ ns \in Tenants
    BY <1>3, RequestFacts DEF CreateDocument, Exec, TypeInv, WellFormed, Fits, Jobs
  <2>2. /\ db' \in [Tenants -> [Ids -> Documents \cup {NoDoc}]]
        /\ owner' \in [Ids -> Tenants \cup {NoTenant}]
    <3>1. \/ UNCHANGED <<db, owner>>
          \/ \E i \in Ids : Insert(s, i)
      BY <1>3 DEF CreateDocument
    <3>2. ASSUME NEW i \in Ids, Insert(s, i)
          PROVE  /\ db' \in [Tenants -> [Ids -> Documents \cup {NoDoc}]]
                 /\ owner' \in [Ids -> Tenants \cup {NoTenant}]
      BY <2>1, <3>2, WriteType DEF Insert
    <3> QED
      BY <3>1, <3>2, <2>1 DEF TypeInv, TypeOK
  <2>3. Respond(s, "201", job[s].doc) \/ Respond(s, "500", NoDoc)
    BY <1>3 DEF CreateDocument
  <2> QED
    BY <1>3, <2>1, <2>2, <2>3, RespondType DEF CreateDocument, Exec
<1>4. ASSUME NEW s \in Slots, GetDocument(s) PROVE TypeInv'
  <2>1. job[s].id \in Ids /\ ns \in Tenants
    BY <1>4, RequestFacts DEF GetDocument, Exec, TypeInv, WellFormed, Fits
  <2>2. Stored(job[s].id) \in Documents \cup {NoDoc}
    BY <2>1 DEF TypeInv, TypeOK, Stored
  <2>3. \/ Respond(s, "404", NoDoc) \/ Respond(s, "500", NoDoc)
        \/ Respond(s, "200", Stored(job[s].id))
    BY <1>4 DEF GetDocument, Found
  <2> QED
    BY <1>4, <2>1, <2>2, <2>3, RespondType DEF GetDocument, Exec, TypeInv, TypeOK
<1>5. ASSUME NEW s \in Slots, NEW i \in Ids, NEW doc \in Documents, ns \in Tenants,
             UNCHANGED ns,
             \/ Replace(i, doc) /\ Found(s, i, doc)
             \/ Failing(s, Replace(i, doc))
      PROVE  TypeInv'
  <2>1. /\ db' \in [Tenants -> [Ids -> Documents \cup {NoDoc}]]
        /\ owner' \in [Ids -> Tenants \cup {NoTenant}]
    BY <1>5, WriteType DEF Replace, Failing
  <2>2. \/ Respond(s, "404", NoDoc) \/ Respond(s, "500", NoDoc)
        \/ Respond(s, "200", doc)
    BY <1>5 DEF Found, Failing
  <2> QED
    BY <1>5, <2>1, <2>2, RespondType
<1>6. ASSUME NEW s \in Slots, UpdateDocument(s) PROVE TypeInv'
  <2>1. job[s].id \in Ids /\ job[s].doc \in Documents /\ ns \in Tenants
    BY <1>6, RequestFacts DEF UpdateDocument, Exec, TypeInv, WellFormed, Fits
  <2> QED
    BY <1>5, <1>6, <2>1 DEF UpdateDocument, Exec
<1>7. ASSUME NEW s \in Slots, DeleteDocument(s) PROVE TypeInv'
  <2>1. job[s].id \in Ids /\ ns \in Tenants
    BY <1>7, RequestFacts DEF DeleteDocument, Exec, TypeInv, WellFormed, Fits
  <2>2. Stored(job[s].id) \in Documents \cup {NoDoc}
    BY <2>1 DEF TypeInv, TypeOK, Stored
  <2>3. /\ db' \in [Tenants -> [Ids -> Documents \cup {NoDoc}]]
        /\ owner' \in [Ids -> Tenants \cup {NoTenant}]
    <3>1. \/ UNCHANGED <<db, owner>>
          \/ Remove(job[s].id)
      BY <1>7 DEF DeleteDocument, Failing
    <3>2. CASE Remove(job[s].id)
      BY <2>1, <3>2 DEF Remove, TypeInv, TypeOK
    <3> QED
      BY <3>1, <3>2 DEF TypeInv, TypeOK
  <2>4. \/ Respond(s, "404", NoDoc) \/ Respond(s, "500", NoDoc)
        \/ Respond(s, "200", Stored(job[s].id))
    BY <1>7 DEF DeleteDocument, Found, Failing
  <2> QED
    BY <1>7, <2>1, <2>2, <2>3, <2>4, RespondType DEF DeleteDocument, Exec
<1>8. ASSUME NEW s \in Slots, SelectDocument(s) PROVE TypeInv'
  <2> DEFINE i == job[s].id
             n == TargetStatus(job[s].op)
             new == WithStatus(Stored(i), n)
  <2>1. /\ job[s] \in Requests /\ job[s] \in Jobs /\ i \in Ids /\ ns \in Tenants
        /\ job[s].op \in {"submit", "cancel"}
    BY <1>8, RequestFacts DEF SelectDocument, Lawful, TypeInv, WellFormed, Fits
  <2>2. ns' \in Tenants \cup {NoTenant} /\ ns' = ns /\ UNCHANGED <<db, owner>>
    BY <1>8, <2>1 DEF SelectDocument, Lawful
  <2>3. CASE Respond(s, "404", NoDoc) \/ Respond(s, "400", NoDoc) \/ Respond(s, "500", NoDoc)
    BY <2>2, <2>3, RespondType DEF TypeInv, TypeOK
  <2>4. CASE /\ Stored(i) # NoDoc
             /\ pc' = [pc EXCEPT ![s] = "write"]
             /\ job' = [job EXCEPT ![s].doc = new]
             /\ UNCHANGED answer
    <3>1. Stored(i) \in Documents /\ n \in {1, 2}
      BY <2>1, <2>4 DEF TypeInv, TypeOK, Stored, TargetStatus
    <3>2. new \in Documents
      BY <3>1, WithStatusType
    <3> HIDE DEF new
    <3> DEFINE j == [job[s] EXCEPT !.doc = new]
    <3>3. j \in Jobs /\ j.id = i /\ j.op = job[s].op /\ j.doc = new
      BY <2>1, <3>2 DEF Jobs
    <3>4. Advance(s, "write", j)
      BY <2>2, <2>4 DEF Advance
    <3> HIDE DEF j
    <3>5. Fits("write", j, ns')
      BY <2>1, <2>2, <3>2, <3>3 DEF Fits
    <3> QED
      BY <2>2, <3>3, <3>4, <3>5, AdvanceType
  <2> QED
    BY <1>8, <2>3, <2>4 DEF SelectDocument, Lawful
<1>9. ASSUME NEW s \in Slots, WriteStatus(s) PROVE TypeInv'
  <2>1. job[s].id \in Ids /\ job[s].doc \in Documents /\ ns \in Tenants
    BY <1>9 DEF WriteStatus, TypeInv, WellFormed, Fits
  <2> QED
    BY <1>5, <1>9, <2>1 DEF WriteStatus
<1>10. ASSUME UNCHANGED vars PROVE TypeInv'
  BY <1>10 DEF vars, TypeInv, TypeOK, WellFormed, Fits, Requests, Jobs, Documents
<1> QED
  BY <1>1, <1>2, <1>3, <1>4, <1>6, <1>7, <1>8, <1>9, <1>10 DEF Next, Handle

(***************************************************************************)
(* Every variable keeps its type, and every handler writes only documents. *)
(***************************************************************************)
THEOREM TypeCorrect == Spec => []TypeOK
<1>1. Spec => []TypeInv
  BY InitTypeInv, NextTypeInv, PTL DEF Spec
<1> QED
  BY <1>1, PTL DEF TypeInv
-----------------------------------------------------------------------------
(* Records *)

\* The three ways a step can change the stored records.
Inserted(i) ==
  /\ ns \in Tenants
  /\ owner[i] = NoTenant
  /\ \E doc \in Documents : db' = [db EXCEPT ![ns][i] = doc]
  /\ \E t \in Tenants : owner' = [owner EXCEPT ![i] = t]

Replaced(i, doc) ==
  /\ ns \in Tenants
  /\ db[ns][i] # NoDoc
  /\ db' = [db EXCEPT ![ns][i] = doc]
  /\ UNCHANGED owner

Removed(i) ==
  /\ ns \in Tenants
  /\ db[ns][i] # NoDoc
  /\ db' = [db EXCEPT ![ns][i] = NoDoc]
  /\ UNCHANGED owner

\* A replacing step is a PUT, or writes what a submit or cancel prepared.
Written(i, doc) ==
  i \in PutIds \/ \E s \in Slots : pc[s] = "write" /\ job[s].id = i /\ job[s].doc = doc

LEMMA ReplaceStep ==
  ASSUME TypeInv, ns \in Tenants, NEW s \in Slots, NEW i \in Ids, NEW doc \in Documents,
         \/ Replace(i, doc) /\ Found(s, i, doc)
         \/ Failing(s, Replace(i, doc))
  PROVE  UNCHANGED <<db, owner>> \/ Replaced(i, doc)
  BY DEF Replace, Failing, Replaced, Stored

LEMMA DbStep ==
  ASSUME TypeInv, [Next]_vars
  PROVE  \/ UNCHANGED <<db, owner>>
         \/ \E i \in Ids : Inserted(i) \/ Removed(i)
         \/ \E i \in Ids, doc \in Documents : Replaced(i, doc) /\ Written(i, doc)
<1> DEFINE Goal ==
      \/ UNCHANGED <<db, owner>>
      \/ \E i \in Ids : Inserted(i) \/ Removed(i)
      \/ \E i \in Ids, doc \in Documents : Replaced(i, doc) /\ Written(i, doc)
<1> SUFFICES Goal
  OBVIOUS
<1>1. ASSUME NEW s \in Slots,
             Receive(s) \/ UseNs(s) \/ GetDocument(s) \/ SelectDocument(s)
      PROVE  Goal
  BY <1>1 DEF Receive, UseNs, Target, GetDocument, SelectDocument, Lawful
<1>2. ASSUME NEW s \in Slots, CreateDocument(s) PROVE Goal
  <2>1. job[s].doc \in Documents /\ job[s].tenant \in Tenants /\ ns \in Tenants
    BY <1>2, RequestFacts DEF CreateDocument, Exec, TypeInv, WellFormed, Fits, Jobs
  <2>2. \/ UNCHANGED <<db, owner>>
        \/ \E i \in Ids : owner[i] = NoTenant /\ Insert(s, i)
    BY <1>2 DEF CreateDocument
  <2> QED
    BY <2>1, <2>2 DEF Insert, Inserted
<1>3. ASSUME NEW s \in Slots, UpdateDocument(s) PROVE Goal
  <2>1. /\ job[s].id \in Ids /\ job[s].doc \in Documents /\ ns \in Tenants
        /\ job[s].id \in PutIds
    BY <1>3, RequestFacts DEF UpdateDocument, Exec, TypeInv, WellFormed, Fits
  <2>2. UNCHANGED <<db, owner>> \/ Replaced(job[s].id, job[s].doc)
    BY <1>3, <2>1, ReplaceStep DEF UpdateDocument
  <2> QED
    BY <2>1, <2>2 DEF Written
<1>4. ASSUME NEW s \in Slots, DeleteDocument(s) PROVE Goal
  <2>1. job[s].id \in Ids /\ ns \in Tenants
    BY <1>4, RequestFacts DEF DeleteDocument, Exec, TypeInv, WellFormed, Fits
  <2>2. UNCHANGED <<db, owner>> \/ Remove(job[s].id)
    BY <1>4 DEF DeleteDocument, Failing
  <2>3. ASSUME Remove(job[s].id), db[ns][job[s].id] = NoDoc
        PROVE  UNCHANGED <<db, owner>>
    <3>1. db \in [Tenants -> [Ids -> Documents \cup {NoDoc}]]
      BY DEF TypeInv, TypeOK
    <3> QED
      BY <2>1, <2>3, <3>1 DEF Remove
  <2> QED
    BY <2>1, <2>2, <2>3 DEF Remove, Removed
<1>5. ASSUME NEW s \in Slots, WriteStatus(s) PROVE Goal
  <2>1. job[s].id \in Ids /\ job[s].doc \in Documents /\ ns \in Tenants
    BY <1>5 DEF WriteStatus, TypeInv, WellFormed, Fits
  <2>2. UNCHANGED <<db, owner>> \/ Replaced(job[s].id, job[s].doc)
    BY <1>5, <2>1, ReplaceStep DEF WriteStatus
  <2> QED
    BY <1>5, <2>1, <2>2 DEF Written, WriteStatus
<1>6. ASSUME UNCHANGED vars PROVE Goal
  BY <1>6 DEF vars
<1> QED
  BY <1>1, <1>2, <1>3, <1>4, <1>5, <1>6 DEF Next, Handle

(***************************************************************************)
(* For any number of requests in flight, every step of the handlers is a   *)
(* step of RecordStore or leaves the records alone: ids are used once and  *)
(* records change in place.  Handlers that find themselves in another      *)
(* tenant's namespace can answer 404, but cannot move or copy a record.    *)
(***************************************************************************)
THEOREM RecordsRefined == Spec => RecordsKept
<1>1. Init => Records!Init
  BY DEF Init, Records!Init
<1>2. TypeInv /\ [Next]_vars => [Records!Next]_(Records!vars)
  <2> SUFFICES ASSUME TypeInv, [Next]_vars PROVE [Records!Next]_(Records!vars)
    OBVIOUS
  <2>0. owner \in [Ids -> Tenants \cup {NoTenant}]
    BY DEF TypeInv, TypeOK
  <2>1. CASE UNCHANGED <<db, owner>>
    BY <2>1 DEF Records!vars
  <2>2. ASSUME NEW i \in Ids, Inserted(i) PROVE Records!Create(ns, i)
    BY <2>0, <2>2, RoutesAssumption DEF Inserted, Records!Create
  <2>3. ASSUME NEW i \in Ids, Removed(i) PROVE Records!Remove(ns, i)
    BY <2>3 DEF Removed, Records!Remove
  <2>4. ASSUME NEW i \in Ids, NEW doc \in Documents, Replaced(i, doc)
        PROVE  Records!Replace(ns, i)
    BY <2>4 DEF Replaced, Records!Replace
  <2> QED
    BY <2>1, <2>2, <2>3, <2>4, DbStep DEF Records!Next, Inserted, Removed, Replaced
<1>3. Spec => []TypeInv
  BY InitTypeInv, NextTypeInv, PTL DEF Spec
<1> QED
  BY <1>1, <1>2, <1>3, PTL DEF Spec, RecordsKept, Records!Spec

-----------------------------------------------------------------------------
(* Submit and cancel racing on a document *)

\* A stored record has a creator and is in one namespace only.
OneNamespace ==
  /\ \A t \in Tenants, i \in Ids : db[t][i] # NoDoc => owner[i] # NoTenant
  /\ \A t, u \in Tenants, i \in Ids :
       db[t][i] # NoDoc /\ db[u][i] # NoDoc => t = u

\* How the document new that op prepared relates to the one stored now.
Follows(op, old, new) ==
  /\ \A k \in Keys \ {"docstatus"} : new[k] = old[k]
  /\ op # "submit" => StatusOf(old) # "Draft"

\* A document about to be written that nobody PUTs is a version of the stored
\* one, however old.
Prepared(j) ==
  /\ owner[j.id] # NoTenant
  /\ StatusOf(j.doc) = IF j.op = "submit" THEN "Submitted" ELSE "Cancelled"
  /\ \A t \in Tenants : db[t][j.id] # NoDoc => Follows(j.op, db[t][j.id], j.doc)

SnapshotInv ==
  /\ TypeInv
  /\ OneNamespace
  /\ \A s \in Slots : pc[s] = "write" /\ job[s].id \notin PutIds => Prepared(job[s])

\* What SelectDocument establishes when the transition is valid.
Validated(s) ==
  /\ UNCHANGED <<ns, db, owner>>
  /\ ns \in Tenants
  /\ job[s].id \in Ids
  /\ job[s].op \in {"submit", "cancel"}
  /\ Stored(job[s].id) # NoDoc
  /\ LET new == WithStatus(Stored(job[s].id), TargetStatus(job[s].op))
     IN  /\ ValidateTransition(Stored(job[s].id), new) = "Ok"
         /\ job'[s].doc = new
  /\ job'[s].op = job[s].op
  /\ job'[s].id = job[s].id

\* A slot that is about to write was so before, or has just selected.
LEMMA WriterStep ==
  ASSUME TypeInv, [Next]_vars, NEW z \in Slots, pc'[z] = "write"
  PROVE  (pc[z] = "write" /\ job'[z] = job[z]) \/ Validated(z)
<1> DEFINE Goal == (pc[z] = "write" /\ job'[z] = job[z]) \/ Validated(z)
<1> SUFFICES Goal
  OBVIOUS
<1>1. pc \in [Slots -> {"idle", "use_ns", "exec", "select", "write"}]
      /\ job \in [Slots -> Jobs \cup {NoJob}]
  BY DEF TypeInv, TypeOK
<1>2. ASSUME NEW s \in Slots, NEW p, p # "write",
             pc' = [pc EXCEPT ![s] = p], \A y \in Slots : y # s => job'[y] = job[y]
      PROVE  Goal
  BY <1>1, <1>2
<1>3. ASSUME NEW s \in Slots, NEW code, NEW doc, Respond(s, code, doc) PROVE Goal
  BY <1>1, <1>2, <1>3 DEF Respond
<1>4. ASSUME NEW s \in Slots, Receive(s) \/ UseNs(s) PROVE Goal
  <2>1. CASE Respond(s, "500", NoDoc)
    BY <1>3, <2>1
  <2>2. CASE ~Respond(s, "500", NoDoc)
    <3>1. \/ pc' = [pc EXCEPT ![s] = "use_ns"] \/ pc' = [pc EXCEPT ![s] = "select"]
          \/ pc' = [pc EXCEPT ![s] = "exec"]
      BY <1>4, <2>2 DEF Receive, UseNs, Target
    <3>2. \A y \in Slots : y # s => job'[y] = job[y]
      BY <1>1, <1>4, <2>2 DEF Receive, UseNs, Target
    <3> QED
      BY <1>2, <3>1, <3>2
  <2> QED
    BY <2>1, <2>2
<1>5. ASSUME NEW s \in Slots,
             \/ CreateDocument(s) \/ GetDocument(s) \/ UpdateDocument(s)
             \/ DeleteDocument(s) \/ WriteStatus(s)
      PROVE  Goal
  <2>1. \E code, doc : Respond(s, code, doc)
    BY <1>5 DEF CreateDocument, GetDocument, UpdateDocument, DeleteDocument,
                WriteStatus, Found, Failing
  <2> QED
    BY <1>3, <2>1
<1>6. ASSUME NEW s \in Slots, SelectDocument(s) PROVE Goal
  <2> DEFINE i == job[s].id
             new == WithStatus(Stored(i), TargetStatus(job[s].op))
  <2>1. CASE \E code, doc : Respond(s, code, doc)
    BY <1>3, <2>1
  <2>2. CASE ~\E code, doc : Respond(s, code, doc)
    <3>1. /\ Stored(i) # NoDoc
          /\ ValidateTransition(Stored(i), new) = "Ok"
          /\ pc' = [pc EXCEPT ![s] = "write"]
          /\ job' = [job EXCEPT ![s].doc = new]
          /\ UNCHANGED <<ns, db, owner>>
      BY <1>6, <2>2 DEF SelectDocument, Lawful
    <3>2. /\ job[s] \in Jobs /\ i \in Ids /\ ns \in Tenants
          /\ job[s].op \in {"submit", "cancel"}
      BY <1>6, RequestFacts DEF SelectDocument, Lawful, TypeInv, WellFormed, Fits
    <3>3. job'[s] = [job[s] EXCEPT !.doc = new]
      BY <1>1, <3>1
    <3>4. job'[s].doc = new /\ job'[s].op = job[s].op /\ job'[s].id = i
      BY <3>2, <3>3 DEF Jobs
    <3>5. /\ Stored(i) # NoDoc
          /\ ValidateTransition(Stored(i), new) = "Ok"
          /\ UNCHANGED <<ns, db, owner>>
          /\ z # s => pc'[z] = pc[z] /\ job'[z] = job[z]
      BY <1>1, <3>1
    <3> HIDE DEF new
    <3>6. CASE z = s
      BY <3>2, <3>4, <3>5, <3>6 DEF Validated, new
    <3>7. CASE z # s
      BY <3>5, <3>7
    <3> QED
      BY <3>6, <3>7
  <2> QED
    BY <2>1, <2>2
<1>7. ASSUME UNCHANGED vars PROVE Goal
  BY <1>7 DEF vars
<1> QED
  BY <1>4, <1>5, <1>6, <1>7 DEF Next, Handle

\* A new id is new in every namespace, and records never move.
LEMMA NextOneNamespace ==
  ASSUME TypeInv, OneNamespace, [Next]_vars
  PROVE  OneNamespace'
<1>1. db \in [Tenants -> [Ids -> Documents \cup {NoDoc}]]
      /\ owner \in [Ids -> Tenants \cup {NoTenant}]
  BY DEF TypeInv, TypeOK
<1>2. CASE UNCHANGED <<db, owner>>
  BY <1>2 DEF OneNamespace
<1>3. ASSUME NEW i \in Ids, Inserted(i) PROVE OneNamespace'
  BY <1>1, <1>3, RoutesAssumption DEF Inserted, OneNamespace
<1>4. ASSUME NEW i \in Ids, Removed(i) PROVE OneNamespace'
  BY <1>1, <1>4 DEF Removed, OneNamespace
<1>5. ASSUME NEW i \in Ids, NEW doc \in Documents, Replaced(i, doc) PROVE OneNamespace'
  BY <1>1, <1>5 DEF Replaced, OneNamespace
<1> QED
  BY <1>2, <1>3, <1>4, <1>5, DbStep

\* What a step does to a record nobody PUTs that is there before and after.
LEMMA KeptStep ==
  ASSUME SnapshotInv, [Next]_vars,
         NEW t \in Tenants, NEW i \in Ids \ PutIds, Kept(t, i)
  PROVE  \/ db'[t][i] = db[t][i]
         \/ \E s \in Slots : /\ Follows(job[s].op, db[t][i], db'[t][i])
                             /\ StatusOf(db'[t][i]) = IF job[s].op = "submit"
                                                        THEN "Submitted" ELSE "Cancelled"
<1>1. db \in [Tenants -> [Ids -> Documents \cup {NoDoc}]]
  BY DEF SnapshotInv, TypeInv, TypeOK
<1>2. CASE UNCHANGED <<db, owner>>
  BY <1>2
<1>3. ASSUME NEW n \in Ids, Inserted(n) PROVE db'[t][i] = db[t][i]
  BY <1>1, <1>3, RoutesAssumption DEF Inserted, Kept, SnapshotInv, OneNamespace
<1>4. ASSUME NEW n \in Ids, Removed(n) PROVE db'[t][i] = db[t][i]
  BY <1>1, <1>4 DEF Removed, Kept
<1>5. ASSUME NEW n \in Ids, NEW doc \in Documents, Replaced(n, doc), Written(n, doc),
             db'[t][i] # db[t][i]
      PROVE  \E s \in Slots : /\ Follows(job[s].op, db[t][i], db'[t][i])
                              /\ StatusOf(db'[t][i]) = IF job[s].op = "submit"
                                                         THEN "Submitted" ELSE "Cancelled"
  <2>1. n = i /\ t = ns /\ db'[t][i] = doc
    BY <1>1, <1>5 DEF Replaced
  <2>2. PICK s \in Slots : pc[s] = "write" /\ job[s].id = n /\ job[s].doc = doc
    BY <1>5, <2>1 DEF Written
  <2>3. Prepared(job[s])
    BY <2>1, <2>2 DEF SnapshotInv
  <2> QED
    BY <2>1, <2>2, <2>3 DEF Prepared, Kept
<1> QED
  BY <1>2, <1>3, <1>4, <1>5, DbStep DEF SnapshotInv

\* A prepared document stays a version of the stored one while others write.
LEMMA PreparedStays ==
  ASSUME SnapshotInv, [Next]_vars, NEW s \in Slots,
         pc[s] = "write", job[s].id \notin PutIds, job'[s] = job[s]
  PROVE  Prepared(job[s])'
<1> DEFINE j == job[s]
<1>1. Prepared(j) /\ j.id \in Ids /\ j.id \notin PutIds
  BY DEF SnapshotInv, TypeInv, WellFormed, Fits
<1>2. owner'[j.id] # NoTenant
  <2>1. owner \in [Ids -> Tenants \cup {NoTenant}]
    BY DEF SnapshotInv, TypeInv, TypeOK
  <2>2. owner[j.id] # NoTenant
    BY <1>1 DEF Prepared
  <2> HIDE DEF j
  <2> QED
    BY <1>1, <2>1, <2>2, DbStep, RoutesAssumption
       DEF SnapshotInv, Inserted, Removed, Replaced
<1>3. ASSUME NEW t \in Tenants, db'[t][j.id] # NoDoc
      PROVE  Follows(j.op, db'[t][j.id], j.doc)
  <2>1. db[t][j.id] # NoDoc
    <3>1. /\ db \in [Tenants -> [Ids -> Documents \cup {NoDoc}]]
          /\ owner[j.id] # NoTenant
      BY <1>1 DEF SnapshotInv, TypeInv, TypeOK, Prepared
    <3> HIDE DEF j
    <3> QED
      BY <1>1, <1>3, <3>1, DbStep DEF SnapshotInv, Inserted, Removed, Replaced
  <2>2. Follows(j.op, db[t][j.id], j.doc) /\ Kept(t, j.id)
    BY <1>1, <1>3, <2>1 DEF Prepared, Kept
  <2>3. CASE db'[t][j.id] = db[t][j.id]
    BY <2>2, <2>3
  <2>4. CASE \E z \in Slots :
               /\ Follows(job[z].op, db[t][j.id], db'[t][j.id])
               /\ StatusOf(db'[t][j.id]) = IF job[z].op = "submit"
                                             THEN "Submitted" ELSE "Cancelled"
    BY <2>2, <2>4 DEF Follows
  <2> QED
    BY <1>1, <2>2, <2>3, <2>4, KeptStep
<1> QED
  BY <1>1, <1>2, <1>3 DEF Prepared

\* What SelectDocument prepares is a version of the only stored record.
LEMMA PreparedNew ==
  ASSUME SnapshotInv, NEW s \in Slots, Validated(s)
  PROVE  Prepared(job[s])'
<1> DEFINE i == job[s].id
           old == Stored(i)
           new == WithStatus(old, TargetStatus(job[s].op))
<1>1. /\ ns \in Tenants /\ i \in Ids /\ old # NoDoc /\ old = db[ns][i]
      /\ job[s].op \in {"submit", "cancel"}
      /\ ValidateTransition(old, new) = "Ok"
      /\ job'[s].doc = new /\ job'[s].op = job[s].op /\ job'[s].id = i
      /\ UNCHANGED <<db, owner>>
  BY DEF Validated, Stored
<1>2. old \in Documents
  BY <1>1 DEF SnapshotInv, TypeInv, TypeOK
<1>3. /\ \A k \in Keys \ {"docstatus"} : new[k] = old[k]
      /\ StatusOf(new) = IF job[s].op = "submit" THEN "Submitted" ELSE "Cancelled"
  BY <1>1, <1>2, WithStatusType, StatusOfWithStatus DEF TargetStatus
<1>4. StatusOf(new) = "Cancelled" => StatusOf(old) # "Draft"
  BY <1>1, AcceptedTransition
<1> HIDE DEF new
<1>5. Follows(job[s].op, old, new)
  BY <1>3, <1>4 DEF Follows
<1>6. owner[i] # NoTenant /\ \A t \in Tenants : db[t][i] # NoDoc => db[t][i] = old
  BY <1>1 DEF SnapshotInv, OneNamespace
<1> QED
  BY <1>1, <1>3, <1>5, <1>6 DEF Prepared

LEMMA NextSnapshotInv == SnapshotInv /\ [Next]_vars => SnapshotInv'
<1> SUFFICES ASSUME SnapshotInv, [Next]_vars PROVE SnapshotInv'
  OBVIOUS
<1>1. TypeInv' /\ OneNamespace'
  BY NextTypeInv, NextOneNamespace DEF SnapshotInv
<1>2. ASSUME NEW s \in Slots, pc'[s] = "write", job'[s].id \notin PutIds
      PROVE  Prepared(job[s])'
  <2>1. CASE pc[s] = "write" /\ job'[s] = job[s]
    <3>1. job[s].id \notin PutIds
      BY <1>2, <2>1
    <3> QED
      BY <2>1, <3>1, PreparedStays
  <2>2. CASE Validated(s)
    BY <2>2, PreparedNew
  <2> QED
    BY <1>2, <2>1, <2>2, WriterStep DEF SnapshotInv
<1> QED
  BY <1>1, <1>2 DEF SnapshotInv

LEMMA SnapshotInvariance == Spec => []SnapshotInv
<1>1. Init => SnapshotInv
  BY InitTypeInv DEF Init, SnapshotInv, OneNamespace
<1> QED
  BY <1>1, NextSnapshotInv, PTL DEF Spec

(***************************************************************************)
(* However many requests race, no step takes a stored document that nobody *)
(* PUTs from Draft to Cancelled or back to Draft.                          *)
(***************************************************************************)
THEOREM NoSubmitSkipped == Spec => NoSkippedSubmit
<1>1. SnapshotInv /\ [Next]_vars =>
        [\A t \in Tenants, i \in Ids \ PutIds :
           Kept(t, i) =>
             /\ StatusOf(db'[t][i]) = "Cancelled" => StatusOf(db[t][i]) # "Draft"
             /\ StatusOf(db'[t][i]) = "Draft" => StatusOf(db[t][i]) = "Draft"]_vars
  <2> SUFFICES ASSUME SnapshotInv, [Next]_vars, NEW t \in Tenants,
                      NEW i \in Ids \ PutIds, Kept(t, i)
               PROVE  /\ StatusOf(db'[t][i]) = "Cancelled" => StatusOf(db[t][i]) # "Draft"
                      /\ StatusOf(db'[t][i]) = "Draft" => StatusOf(db[t][i]) = "Draft"
    OBVIOUS
  <2>1. CASE db'[t][i] = db[t][i]
    <3>1. StatusOf(db'[t][i]) = StatusOf(db[t][i])
      BY <2>1
    <3> QED
      BY <3>1
  <2>2. CASE \E s \in Slots :
               /\ Follows(job[s].op, db[t][i], db'[t][i])
               /\ StatusOf(db'[t][i]) = IF job[s].op = "submit"
                                          THEN "Submitted" ELSE "Cancelled"
    BY <2>2 DEF Follows
  <2> QED
    BY <2>1, <2>2, KeptStep
<1> QED
  BY <1>1, SnapshotInvariance, PTL DEF Spec, NoSkippedSubmit

(***************************************************************************)
(* A submit or cancel that writes back a document it read long ago changes *)
(* nothing but the docstatus of a stored one that nobody PUTs.             *)
(***************************************************************************)
THEOREM ContentIsKept == Spec => ContentKept
<1>1. SnapshotInv /\ [Next]_vars =>
        [\A t \in Tenants, i \in Ids \ PutIds, k \in Keys \ {"docstatus"} :
           Kept(t, i) => db'[t][i][k] = db[t][i][k]]_vars
  BY KeptStep DEF Follows
<1> QED
  BY <1>1, SnapshotInvariance, PTL DEF Spec, ContentKept

-----------------------------------------------------------------------------
(* Document requests and provisioning together *)

\* What the handler of a provision knows at each await.
ProvFits(p) ==
  /\ prov[p].at \in {"define", "use_ns", "sync"} => prov[p].tenant \in Tenants
  /\ prov[p].at = "sync" => ns \in Tenants
  /\ prov[p].at \in {"idle", "define", "use_ns"} => prov[p].failed = {}

\* p has defined its namespace and has not failed since.
Claims(p) == prov[p].at \in {"use_ns", "sync", "200"}

ClaimInv ==
  /\ \A p \in Provisions : Claims(p) => prov[p].tenant \in defined
  /\ \A p, q \in Provisions :
       Claims(p) /\ Claims(q) /\ prov[p].tenant = prov[q].tenant => p = q

Provs ==
  [at : Done \cup {"idle", "define", "use_ns", "sync"}, tenant : Tenants \cup {NoTenant},
   schemas : SUBSET Files, todo : SUBSET Files, failed : SUBSET Files]

ServerInv ==
  /\ TypeInv
  /\ ServerTypeOK
  /\ prov \in [Provisions -> Provs]
  /\ \A p \in Provisions : ProvFits(p)
  /\ ClaimInv

LEMMA InitServerInv == ServerInit => ServerInv
<1> SUFFICES ASSUME ServerInit PROVE ServerInv
  OBVIOUS
<1>1. TypeInv
  BY InitTypeInv DEF ServerInit
<1>2. prov \in [Provisions -> Provs]
  BY DEF ServerInit, Provs, Done
<1>3. ServerTypeOK
  BY DEF ServerInit, ServerTypeOK, Crawled, Done
<1>4. ClaimInv /\ \A p \in Provisions : ProvFits(p)
  BY DEF ServerInit, ClaimInv, Claims, ProvFits
<1> QED
  BY <1>1, <1>2, <1>3, <1>4 DEF ServerInv

\* A step of provisioning selects a tenant's namespace, or leaves it.
LEMMA NsType ==
  ASSUME TypeInv, UNCHANGED routeVars, ns' \in Tenants \cup {ns}
  PROVE  TypeInv'
<1>1. TypeOK'
  BY DEF TypeInv, TypeOK, routeVars
<1>2. ASSUME NEW z \in Slots PROVE WellFormed(z)'
  BY DEF TypeInv, WellFormed, Fits, routeVars, Requests, Jobs, Documents
<1> QED
  BY <1>1, <1>2 DEF TypeInv

\* The record of a provision that has loaded its schemas.
LEMMA ProvSelected ==
  ASSUME NEW x \in Provs, NEW R \in SUBSET Files, x.failed = {}
  PROVE  LET r == [x EXCEPT !.at = "sync", !.schemas = R, !.todo = R] IN
         /\ r \in Provs /\ r.at = "sync" /\ r.tenant = x.tenant
         /\ r.schemas = R /\ r.todo = R /\ r.failed = {}
  BY DEF Provs

\* A step of provision p that leaves the others alone keeps the invariant.
LEMMA ProvStep ==
  ASSUME ServerInv, UNCHANGED routeVars, NEW p \in Provisions, NEW r \in Provs,
         prov' = [prov EXCEPT ![p] = r],
         r.schemas \in Crawled, r.failed \subseteq r.schemas,
         r.todo \subseteq r.schemas \ r.failed,
         ns' \in Tenants \cup {ns},
         r.at \in {"define", "use_ns", "sync"} => r.tenant \in Tenants,
         r.at = "sync" => ns' \in Tenants,
         r.at \in {"idle", "define", "use_ns"} => r.failed = {},
         tables' \in [Tenants -> [Doctypes -> SUBSET {f.version : f \in Files}]],
         defined \subseteq defined', defined' \subseteq Tenants,
         r.at \in {"use_ns", "sync", "200"} =>
           /\ r.tenant \in defined'
           /\ (Claims(p) /\ r.tenant = prov[p].tenant) \/ r.tenant \notin defined
  PROVE  ServerInv'
<1>1. /\ prov \in [Provisions -> Provs] /\ prov' \in [Provisions -> Provs]
      /\ prov'[p] = r /\ \A q \in Provisions \ {p} : prov'[q] = prov[q]
  BY DEF ServerInv
<1>2. TypeInv'
  BY NsType DEF ServerInv
<1>3. r.at \in Done \cup {"idle", "define", "use_ns", "sync"} /\ r.tenant \in Tenants \cup {NoTenant}
  BY DEF Provs
<1>4. ServerTypeOK'
  BY <1>1, <1>3 DEF ServerInv, ServerTypeOK
<1>5. \A q \in Provisions : ProvFits(q)'
  BY <1>1 DEF ServerInv, ProvFits
<1>6. ClaimInv'
  <2>1. ASSUME NEW q \in Provisions, Claims(q)' PROVE prov'[q].tenant \in defined'
    BY <1>1, <2>1 DEF ServerInv, ClaimInv, Claims
  <2>2. ASSUME NEW q \in Provisions \ {p}, Claims(p)', Claims(q)'
        PROVE  prov'[p].tenant # prov'[q].tenant
    <3>1. Claims(q) /\ prov'[q].tenant = prov[q].tenant /\ prov[q].tenant \in defined
      BY <1>1, <2>2 DEF ServerInv, ClaimInv, Claims
    <3>2. CASE Claims(p) /\ r.tenant = prov[p].tenant
      BY <1>1, <3>1, <3>2 DEF ServerInv, ClaimInv
    <3>3. CASE r.tenant \notin defined
      BY <1>1, <3>1, <3>3
    <3> QED
      BY <1>1, <2>2, <3>2, <3>3 DEF Claims
  <2>3. ASSUME NEW q \in Provisions \ {p}, NEW u \in Provisions \ {p}, Claims(q)', Claims(u)',
               prov'[q].tenant = prov'[u].tenant
        PROVE  q = u
    BY <1>1, <2>3 DEF ServerInv, ClaimInv, Claims
  <2> QED
    BY <2>1, <2>2, <2>3 DEF ClaimInv
<1> QED
  BY <1>1, <1>2, <1>4, <1>5, <1>6 DEF ServerInv

LEMMA ProvFacts ==
  ASSUME ServerInv, NEW p \in Provisions
  PROVE  /\ prov[p] \in Provs /\ prov[p].schemas \in Crawled
         /\ prov[p].failed \subseteq prov[p].schemas
         /\ prov[p].todo \subseteq prov[p].schemas \ prov[p].failed
         /\ prov[p].at \in {"define", "use_ns", "sync"} => prov[p].tenant \in Tenants
         /\ prov[p].at = "sync" => ns \in Tenants
         /\ prov[p].at \in {"idle", "define", "use_ns"} => prov[p].failed = {}
         /\ Claims(p) => prov[p].tenant \in defined
         /\ defined \subseteq Tenants
         /\ tables \in [Tenants -> [Doctypes -> SUBSET {f.version : f \in Files}]]
  BY DEF ServerInv, ServerTypeOK, ProvFits, ClaimInv

\* An answer ends a provision, or is a success of one that claims its tenant.
LEMMA ReplyStep ==
  ASSUME ServerInv, UNCHANGED routeVars, NEW p \in Provisions, NEW code \in Done,
         Reply(p, code), code = "200" => Claims(p),
         ns' \in Tenants \cup {ns}, UNCHANGED tables,
         defined \subseteq defined', defined' \subseteq Tenants
  PROVE  ServerInv'
<1> DEFINE r == [prov[p] EXCEPT !.at = code]
<1>1. prov' = [prov EXCEPT ![p] = r]
  BY DEF Reply
<1>2. /\ r \in Provs /\ r.at = code /\ r.tenant = prov[p].tenant
      /\ r.schemas = prov[p].schemas /\ r.todo = prov[p].todo /\ r.failed = prov[p].failed
  BY ProvFacts DEF Provs
<1>3. r.at \notin {"idle", "define", "use_ns", "sync"}
  BY <1>2 DEF Done
<1> HIDE DEF r
<1> QED
  BY <1>1, <1>2, <1>3, ProvFacts, ProvStep

\* What an altered table has comes from the files.
LEMMA AlteredFits ==
  ASSUME ns \in Tenants, NEW f \in Files, Altered(f) \/ UNCHANGED tables,
         tables \in [Tenants -> [Doctypes -> SUBSET {g.version : g \in Files}]]
  PROVE  tables' \in [Tenants -> [Doctypes -> SUBSET {g.version : g \in Files}]]
<1> DEFINE V == {g.version : g \in Files}
           T == [Doctypes -> SUBSET V]
<1>1. CASE Altered(f)
  <2>1. PICK kept \in {{}, tables[ns][f.doctype]} :
          tables' = [tables EXCEPT ![ns][f.doctype] = kept \cup {f.version}]
    BY <1>1 DEF Altered
  <2>2. f.doctype \in Doctypes /\ f.version \in V
    BY DEF Doctypes
  <2>3. tables \in [Tenants -> T] /\ tables[ns] \in T
    OBVIOUS
  <2>4. kept \cup {f.version} \in SUBSET V
    BY <2>1, <2>2, <2>3
  <2>5. [tables[ns] EXCEPT ![f.doctype] = kept \cup {f.version}] \in T
    BY <2>2, <2>3, <2>4
  <2> HIDE DEF V, T
  <2>6. tables' \in [Tenants -> T]
    BY <2>1, <2>3, <2>5
  <2> QED
    BY <2>6 DEF V, T
<1>2. CASE UNCHANGED tables
  BY <1>2
<1> QED
  BY <1>1, <1>2

LEMMA NextServerInv == ServerInv /\ [ServerNext]_serverVars => ServerInv'
<1> SUFFICES ASSUME ServerInv, [ServerNext]_serverVars PROVE ServerInv'
  OBVIOUS
<1>1. ASSUME NEW s \in Slots, Receive(s) \/ Handle(s), UNCHANGED provVars
      PROVE  ServerInv'
  <2>1. TypeInv'
    BY <1>1, NextTypeInv DEF Next, ServerInv
  <2>2. ns \in Tenants => ns' \in Tenants
    <3>1. CASE UseNs(s)
      <4>1. job[s].tenant \in Tenants
        BY <3>1, RequestFacts DEF UseNs, ServerInv, TypeInv, WellFormed, Fits, Jobs
      <4> QED
        BY <3>1, <4>1 DEF UseNs, Target
    <3>2. CASE ~UseNs(s)
      BY <1>1, <3>2
      DEF Receive, Handle, CreateDocument, GetDocument, UpdateDocument, DeleteDocument,
          SelectDocument, WriteStatus, Exec
    <3> QED
      BY <3>1, <3>2
  <2> QED
    BY <1>1, <2>1, <2>2
    DEF ServerInv, provVars, ServerTypeOK, ProvFits, ClaimInv, Claims
<1>2. ASSUME NEW p \in Provisions, ReceiveProvision(p), UNCHANGED routeVars
      PROVE  ServerInv'
  <2>1. CASE \E code \in {"401", "403"} : Reply(p, code)
    BY <1>2, <2>1, ReplyStep, ProvFacts DEF ReceiveProvision, Done
  <2>2. CASE \E t \in Tenants :
               prov' = [prov EXCEPT ![p].at = "define", ![p].tenant = t]
    <3>1. PICK t \in Tenants : prov' = [prov EXCEPT ![p].at = "define", ![p].tenant = t]
      BY <2>2
    <3> DEFINE r == [prov[p] EXCEPT !.at = "define", !.tenant = t]
    <3>2. prov' = [prov EXCEPT ![p] = r]
      BY <3>1, ProvFacts DEF ServerInv
    <3>3. /\ r \in Provs /\ r.at = "define" /\ r.tenant = t
          /\ r.schemas = prov[p].schemas /\ r.todo = prov[p].todo /\ r.failed = prov[p].failed
      BY ProvFacts DEF Provs
    <3> HIDE DEF r
    <3> QED
      BY <1>2, <3>2, <3>3, ProvFacts, ProvStep DEF ReceiveProvision
  <2> QED
    BY <1>2, <2>1, <2>2 DEF ReceiveProvision
<1>3. ASSUME NEW p \in Provisions, Define(p), UNCHANGED routeVars
      PROVE  ServerInv'
  <2> DEFINE t == prov[p].tenant
  <2>1. t \in Tenants /\ ns' \in Tenants \cup {ns} /\ UNCHANGED tables
    BY <1>3, ProvFacts DEF Define
  <2>2. CASE Reply(p, "500") /\ defined' \in {defined, defined \cup {t}}
    <3>1. defined \subseteq defined' /\ defined' \subseteq Tenants
      BY <2>1, <2>2, ProvFacts
    <3> QED
      BY <1>3, <2>1, <2>2, <3>1, ReplyStep DEF Done
  <2>3. CASE Definable(t) /\ Reply(p, "use_ns") /\ defined' = defined \cup {t}
    <3> DEFINE r == [prov[p] EXCEPT !.at = "use_ns"]
    <3>1. prov' = [prov EXCEPT ![p] = r]
      BY <2>3 DEF Reply
    <3>2. /\ r \in Provs /\ r.at = "use_ns" /\ r.tenant = t
          /\ r.schemas = prov[p].schemas /\ r.todo = prov[p].todo /\ r.failed = prov[p].failed
      BY ProvFacts DEF Provs
    <3>3. t \notin defined /\ t \in defined' /\ defined \subseteq defined' /\ defined' \subseteq Tenants
      BY <2>1, <2>3, ProvFacts DEF Definable
    <3>4. /\ r.schemas \in Crawled /\ r.failed \subseteq r.schemas /\ r.failed = {}
          /\ r.todo \subseteq r.schemas \ r.failed
          /\ tables' \in [Tenants -> [Doctypes -> SUBSET {g.version : g \in Files}]]
      BY <1>3, <2>1, <3>2, ProvFacts DEF Define
    <3> HIDE DEF r
    <3> QED
      BY <1>3, <2>1, <3>1, <3>2, <3>3, <3>4, ProvStep
  <2> QED
    BY <1>3, <2>2, <2>3 DEF Define
<1>4. ASSUME NEW p \in Provisions, SwitchNs(p), UNCHANGED routeVars
      PROVE  ServerInv'
  <2>1. /\ prov[p].tenant \in Tenants /\ Claims(p) /\ UNCHANGED <<defined, tables>>
    BY <1>4, ProvFacts DEF SwitchNs, Claims
  <2>2. CASE Reply(p, "500") /\ ns' \in {ns, prov[p].tenant}
    BY <1>4, <2>1, <2>2, ProvFacts, ReplyStep DEF Done
  <2>3. CASE /\ Selected(p)
             /\ \E R \in Crawled :
                  prov' = [prov EXCEPT ![p].at = "sync", ![p].schemas = R, ![p].todo = R]
    <3>1. PICK R \in Crawled :
            prov' = [prov EXCEPT ![p].at = "sync", ![p].schemas = R, ![p].todo = R]
      BY <2>3
    <3>2. ns' = prov[p].tenant
      BY <2>3 DEF Selected
    <3> DEFINE r == [prov[p] EXCEPT !.at = "sync", !.schemas = R, !.todo = R]
    <3>3. prov' = [prov EXCEPT ![p] = r]
      BY <3>1, ProvFacts DEF ServerInv
    <3>4. prov[p].failed = {}
      BY <1>4, ProvFacts DEF SwitchNs
    <3>5. /\ r \in Provs /\ r.at = "sync" /\ r.tenant = prov[p].tenant
          /\ r.schemas = R /\ r.todo = R /\ r.failed = {}
      <4>1. prov[p] \in Provs /\ R \in SUBSET Files
        BY <3>1, ProvFacts DEF Crawled
      <4> HIDE DEF r
      <4> QED
        BY <3>4, <4>1, ProvSelected DEF r
    <3>6. /\ r.schemas \in Crawled /\ r.failed \subseteq r.schemas
          /\ r.todo \subseteq r.schemas \ r.failed
      BY <3>1, <3>5
    <3>7. /\ defined' = defined /\ defined \subseteq Tenants /\ prov[p].tenant \in defined
          /\ tables' \in [Tenants -> [Doctypes -> SUBSET {g.version : g \in Files}]]
      BY <2>1, ProvFacts
    <3> HIDE DEF r
    <3> QED
      BY <1>4, <2>1, <3>2, <3>3, <3>5, <3>6, <3>7, ProvStep
  <2> QED
    BY <1>4, <2>2, <2>3 DEF SwitchNs
<1>5. ASSUME NEW p \in Provisions, Sync(p), UNCHANGED routeVars
      PROVE  ServerInv'
  <2>1. /\ prov[p].at = "sync" /\ prov[p].tenant \in Tenants /\ ns \in Tenants
        /\ Claims(p) /\ UNCHANGED <<ns, defined>>
    BY <1>5, ProvFacts DEF Sync, Claims
  <2>2. PICK f \in prov[p].todo :
          /\ Altered(f) \/ UNCHANGED tables
          /\ Failure(p, f) \/ prov' = [prov EXCEPT ![p].todo = @ \ {f}]
    BY <1>5 DEF Sync
  <2>3. f \in Files /\ f \in prov[p].schemas /\ f \notin prov[p].failed
    BY ProvFacts DEF Crawled
  <2>4. tables' \in [Tenants -> [Doctypes -> SUBSET {g.version : g \in Files}]]
    BY <2>1, <2>2, <2>3, AlteredFits DEF ServerInv, ServerTypeOK
  <2>5. CASE prov' = [prov EXCEPT ![p].todo = @ \ {f}]
    <3> DEFINE r == [prov[p] EXCEPT !.todo = @ \ {f}]
    <3>1. prov' = [prov EXCEPT ![p] = r]
      BY <2>5, ProvFacts DEF ServerInv
    <3>2. /\ r \in Provs /\ r.at = "sync" /\ r.tenant = prov[p].tenant
          /\ r.schemas = prov[p].schemas /\ r.todo = prov[p].todo \ {f}
          /\ r.failed = prov[p].failed
      BY <2>1, ProvFacts DEF Provs
    <3> HIDE DEF r
    <3> QED
      BY <1>5, <2>1, <2>4, <3>1, <3>2, ProvFacts, ProvStep
  <2>6. CASE Failure(p, f)
    <3> DEFINE r == [prov[p] EXCEPT !.todo = @ \ {f}, !.failed = @ \cup {f}]
    <3>1. prov' = [prov EXCEPT ![p] = r]
      BY <2>6, ProvFacts DEF ServerInv, Failure
    <3>2. /\ r \in Provs /\ r.at = "sync" /\ r.tenant = prov[p].tenant
          /\ r.schemas = prov[p].schemas /\ r.todo = prov[p].todo \ {f}
          /\ r.failed = prov[p].failed \cup {f}
      BY <2>1, <2>3, ProvFacts DEF Provs
    <3> HIDE DEF r
    <3> QED
      BY <1>5, <2>1, <2>3, <2>4, <3>1, <3>2, ProvFacts, ProvStep
  <2> QED
    BY <2>2, <2>5, <2>6
<1>6. ASSUME NEW p \in Provisions, Succeed(p), UNCHANGED routeVars
      PROVE  ServerInv'
  BY <1>6, ReplyStep, ProvFacts DEF Succeed, Claims, Done
<1>7. CASE UNCHANGED serverVars
  <2>1. TypeInv'
    BY <1>7, NextTypeInv DEF ServerInv, serverVars
  <2> QED
    BY <1>7, <2>1
    DEF ServerInv, serverVars, vars, provVars, ServerTypeOK, ProvFits, ClaimInv, Claims
<1> QED
  BY <1>1, <1>2, <1>3, <1>4, <1>5, <1>6, <1>7 DEF ServerNext, HandleProvision

LEMMA ServerInvariance == ServerSpec => []ServerInv
BY InitServerInv, NextServerInv, PTL DEF ServerSpec

(***************************************************************************)
(* However document requests and provisions interleave, the handlers of    *)
(* provisions stay where the code can be: a sync only takes schemas that   *)
(* the crawl loaded, none twice, and those that failed stay apart.         *)
(***************************************************************************)
THEOREM ServerTypeCorrect == ServerSpec => []ServerTypeOK
<1>1. ServerInv => ServerTypeOK
  BY DEF ServerInv
<1> QED
  BY <1>1, ServerInvariance, PTL

(***************************************************************************)
(* With any number of requests in flight, at most one provision of a       *)
(* tenant reports success: the one that defined the namespace.             *)
(***************************************************************************)
THEOREM SucceedsOnce == ServerSpec => []OneSuccess
<1>1. ServerInv => OneSuccess
  BY DEF ServerInv, ClaimInv, Claims, OneSuccess
<1> QED
  BY <1>1, ServerInvariance, PTL

\* Provision p has come too late for tenant t, if it is about t at all.
Late(p, t) ==
  t \in defined /\ (prov[p].at \in {"use_ns", "sync", "200"} => prov[p].tenant # t)

LEMMA LateStep ==
  ASSUME ServerInv, [ServerNext]_serverVars, NEW p \in Provisions, NEW t \in Tenants, Late(p, t)
  PROVE  Late(p, t)'
<1>1. CASE UNCHANGED provVars
  BY <1>1 DEF Late, provVars
<1>2. ASSUME NEW q \in Provisions, HandleProvision(q) \/ ReceiveProvision(q)
      PROVE  Late(p, t)'
  <2>1. prov \in [Provisions -> Provs] /\ prov[q] \in Provs
    BY DEF ServerInv
  <2>2. defined \subseteq defined'
    BY <1>2 DEF HandleProvision, ReceiveProvision, Define, SwitchNs, Sync, Succeed
  <2>3. \/ prov'[q].at \notin {"use_ns", "sync", "200"}
        \/ prov[q].at \in {"use_ns", "sync"} /\ prov'[q].tenant = prov[q].tenant
        \/ Definable(prov[q].tenant) /\ prov'[q].tenant = prov[q].tenant
    <3>1. CASE ReceiveProvision(q)
      <4>1. prov'[q].at \in {"define", "401", "403"}
        BY <2>1, <3>1 DEF ReceiveProvision, Reply, Provs
      <4> QED
        BY <4>1
    <3>2. CASE Define(q)
      BY <2>1, <3>2 DEF Define, Reply, Provs
    <3>3. CASE SwitchNs(q)
      <4>1. CASE Reply(q, "500")
        BY <2>1, <4>1 DEF Reply, Provs
      <4>2. CASE \E R \in Crawled :
                   prov' = [prov EXCEPT ![q].at = "sync", ![q].schemas = R, ![q].todo = R]
        <5>1. PICK R \in Crawled :
                prov' = [prov EXCEPT ![q] = [@ EXCEPT !.at = "sync", !.schemas = R, !.todo = R]]
          BY <2>1, <4>2
        <5>2. prov'[q].tenant = prov[q].tenant /\ prov[q].at = "use_ns"
          BY <2>1, <3>3, <5>1 DEF SwitchNs, Provs
        <5> QED
          BY <5>2
      <4> QED
        BY <3>3, <4>1, <4>2 DEF SwitchNs
    <3>4. CASE Sync(q)
      BY <2>1, <3>4 DEF Sync, Failure, Provs
    <3>5. CASE Succeed(q)
      BY <2>1, <3>5 DEF Succeed, Reply, Provs
    <3> QED
      BY <1>2, <3>1, <3>2, <3>3, <3>4, <3>5 DEF HandleProvision
  <2>4. q # p => prov'[p] = prov[p]
    BY <1>2, <2>1
    DEF HandleProvision, ReceiveProvision, Define, SwitchNs, Sync, Failure, Succeed, Reply
  <2> QED
    BY <2>2, <2>3, <2>4 DEF Late, Definable
<1> QED
  BY <1>1, <1>2 DEF ServerNext, serverVars

(***************************************************************************)
(* However many requests are in flight, once a tenant's namespace is       *)
(* defined no provision of it that arrives later gets further than the     *)
(* definition: it fails, also when the provision that defined the          *)
(* namespace has failed.                                                   *)
(***************************************************************************)
THEOREM RetriesAlwaysFail == ServerSpec => RetriesFail
<1>1. ASSUME NEW p \in Provisions, NEW t \in Tenants
      PROVE  ServerSpec =>
               [](prov[p].at = "idle" /\ t \in defined =>
                    [](prov[p].at \in {"use_ns", "sync", "200"} => prov[p].tenant # t))
  <2>1. prov[p].at = "idle" /\ t \in defined => Late(p, t)
    BY DEF Late
  <2>2. ServerInv /\ Late(p, t) /\ [ServerNext]_serverVars => Late(p, t)'
    BY LateStep
  <2>3. Late(p, t) => (prov[p].at \in {"use_ns", "sync", "200"} => prov[p].tenant # t)
    BY DEF Late
  <2> QED
    BY <2>1, <2>2, <2>3, ServerInvariance, PTL DEF ServerSpec
<1> QED
  BY <1>1 DEF RetriesFail

-----------------------------------------------------------------------------
(* One request at a time *)

\* Slots and provisions that are being served: at most one of them.
AtMostOne == \A a, b \in Busy : a = b

\* What the handler in slot s knows when no other request is in flight: the
\* session is still in its namespace, the document it has selected is stored.
Undisturbed(s) ==
  /\ pc[s] = "idle" <=> job[s] = NoJob
  /\ pc[s] \in {"exec", "select", "write"} => ns = job[s].tenant
  /\ pc[s] = "write" =>
       /\ Stored(job[s].id) # NoDoc
       /\ job[s].doc = WithStatus(Stored(job[s].id), TargetStatus(job[s].op))
       /\ Lawful(job[s].id, job[s].doc)

Synced(p) == prov[p].schemas \ (prov[p].todo \cup prov[p].failed)

\* The transactions of some that failed were committed too.
Tried(p) == prov[p].schemas \ prov[p].todo

Syncing(p) == prov[p].at \in {"sync", "200"}

\* Likewise for a provision: what it has synced is in its tenant's tables.
Complete(p) ==
  /\ prov[p].at = "sync" => ns = prov[p].tenant
  /\ prov[p].at = "200" => prov[p].todo = {}
  /\ Syncing(p) => \A f \in Synced(p) : f.version \in tables[prov[p].tenant][f.doctype]

\* Whatever a table has comes from a sync of the provision that claims the tenant.
Sourced ==
  \A t \in Tenants, d \in Doctypes : \A v \in tables[t][d] :
    \E p \in Provisions :
      /\ Syncing(p) /\ prov[p].tenant = t
      /\ \E f \in Tried(p) : f.doctype = d /\ f.version = v

AloneInv ==
  /\ ServerInv
  /\ AtMostOne
  /\ \A s \in Slots : Undisturbed(s)
  /\ \A p \in Provisions : Complete(p)
  /\ Sourced

\* A request of either kind is only received when none is in flight.
LEMMA NoneBusy ==
  ASSUME InFlight <= 1, AtMostOne, Cardinality(Busy) < InFlight
  PROVE  Busy = {}
<1> SUFFICES ASSUME NEW b \in Busy PROVE FALSE
  OBVIOUS
<1>1. Busy = {b}
  BY DEF AtMostOne
<1>2. Cardinality({b}) = 1
  BY FS_Singleton
<1> HIDE DEF Busy
<1> QED
  BY <1>1, <1>2, ServerAssumption

\* While slot s is served, or about to be, nothing else is in flight.
LEMMA SlotAlone ==
  ASSUME AtMostOne, NEW s \in Slots, Busy = {} \/ pc[s] # "idle"
  PROVE  /\ \A z \in Slots : z # s => pc[z] = "idle"
         /\ \A p \in Provisions : prov[p].at \in Done \cup {"idle"}
<1>1. \A b \in Busy : b = s
  BY DEF AtMostOne, Busy
<1> QED
  BY <1>1, ServerAssumption DEF Busy

LEMMA ProvAlone ==
  ASSUME AtMostOne, NEW p \in Provisions, Busy = {} \/ prov[p].at \notin Done \cup {"idle"}
  PROVE  /\ \A z \in Slots : pc[z] = "idle"
         /\ \A q \in Provisions : q # p => prov[q].at \in Done \cup {"idle"}
<1>1. \A b \in Busy : b = p
  BY DEF AtMostOne, Busy
<1> QED
  BY <1>1, ServerAssumption DEF Busy

\* A step of slot s leaves the invariant to what slot s then knows.
LEMMA SlotStep ==
  ASSUME AloneInv, ServerInv', UNCHANGED provVars,
         NEW s \in Slots, Busy = {} \/ pc[s] # "idle",
         NEW p, NEW j, pc' = [pc EXCEPT ![s] = p], job' = [job EXCEPT ![s] = j],
         Undisturbed(s)'
  PROVE  AloneInv'
<1>1. /\ \A z \in Slots : z # s => pc[z] = "idle"
      /\ \A q \in Provisions : prov[q].at \in Done \cup {"idle"}
  BY SlotAlone DEF AloneInv
<1>2. \A z \in Slots : z # s => pc'[z] = pc[z] /\ job'[z] = job[z]
  BY DEF AloneInv, ServerInv, TypeInv, TypeOK
<1>3. AtMostOne'
  BY <1>1, <1>2 DEF AtMostOne, Busy, provVars
<1>4. \A z \in Slots : Undisturbed(z)'
  <2>1. ASSUME NEW z \in Slots, z # s PROVE Undisturbed(z)'
    <3>1. pc'[z] = "idle" /\ job'[z] = NoJob
      BY <1>1, <1>2, <2>1 DEF AloneInv, Undisturbed
    <3> QED
      BY <3>1 DEF Undisturbed
  <2> QED
    BY <2>1
<1>5. \A q \in Provisions : Complete(q)'
  BY <1>1 DEF AloneInv, Complete, Syncing, Synced, provVars, Done
<1>6. Sourced'
  BY DEF AloneInv, Sourced, Syncing, Tried, provVars
<1> QED
  BY <1>3, <1>4, <1>5, <1>6 DEF AloneInv

\* Likewise for a step of provision p.
LEMMA ProvisionStep ==
  ASSUME AloneInv, ServerInv', UNCHANGED routeVars,
         NEW p \in Provisions, Busy = {} \/ prov[p].at \notin Done \cup {"idle"},
         NEW r, prov' = [prov EXCEPT ![p] = r],
         \A q \in Provisions : Complete(q)', Sourced'
  PROVE  AloneInv'
<1>1. /\ \A z \in Slots : pc[z] = "idle"
      /\ \A q \in Provisions : q # p => prov[q].at \in Done \cup {"idle"}
  BY ProvAlone DEF AloneInv
<1>2. \A q \in Provisions : q # p => prov'[q] = prov[q]
  BY DEF AloneInv, ServerInv
<1>3. AtMostOne'
  BY <1>1, <1>2 DEF AtMostOne, Busy, routeVars
<1>4. \A z \in Slots : Undisturbed(z)'
  BY <1>1 DEF AloneInv, Undisturbed, routeVars
<1> QED
  BY <1>3, <1>4 DEF AloneInv

\* A step that leaves the tables and the syncs so far alone.
LEMMA TablesStay ==
  ASSUME AloneInv, UNCHANGED tables, NEW p \in Provisions,
         NEW r, prov' = [prov EXCEPT ![p] = r],
         \A q \in Provisions : q # p => prov[q].at # "sync",
         Complete(p)', Syncing(p) => Syncing(p)' /\ prov'[p].tenant = prov[p].tenant
                                     /\ Tried(p) \subseteq Tried(p)'
  PROVE  Sourced' /\ \A q \in Provisions : Complete(q)'
<1>1. \A q \in Provisions : q # p => prov'[q] = prov[q]
  BY DEF AloneInv, ServerInv
<1>2. ASSUME NEW q \in Provisions, q # p PROVE Complete(q)'
  BY <1>1, <1>2 DEF AloneInv, Complete, Syncing, Synced
<1>3. \A q \in Provisions :
        Syncing(q) => Syncing(q)' /\ prov'[q].tenant = prov[q].tenant /\ Tried(q) \subseteq Tried(q)'
  BY <1>1 DEF Syncing, Tried
<1>4. Sourced'
  BY <1>3 DEF AloneInv, Sourced
<1> QED
  BY <1>2, <1>4

\* A response leaves slot s idle.
LEMMA RespondAlone ==
  ASSUME AloneInv, ServerInv', UNCHANGED provVars,
         NEW s \in Slots, pc[s] # "idle", NEW code, NEW doc, Respond(s, code, doc)
  PROVE  AloneInv'
<1>1. pc' = [pc EXCEPT ![s] = "idle"] /\ job' = [job EXCEPT ![s] = NoJob]
  BY DEF Respond
<1>2. pc'[s] = "idle" /\ job'[s] = NoJob
  BY <1>1 DEF AloneInv, ServerInv, TypeInv, TypeOK
<1>3. Undisturbed(s)'
  BY <1>2 DEF Undisturbed
<1> QED
  BY <1>1, <1>3, SlotStep

LEMMA DocumentAlone ==
  ASSUME AloneInv, ServerInv', InFlight <= 1, UNCHANGED provVars, NEW s \in Slots,
         (Cardinality(Busy) < InFlight /\ Receive(s)) \/ Handle(s)
  PROVE  AloneInv'
<1>0. /\ pc \in [Slots -> {"idle", "use_ns", "exec", "select", "write"}]
      /\ job \in [Slots -> Jobs \cup {NoJob}]
      /\ WellFormed(s) /\ Undisturbed(s)
  BY DEF AloneInv, ServerInv, TypeInv, TypeOK
<1>1. CASE Cardinality(Busy) < InFlight /\ Receive(s)
  <2>1. Busy = {}
    BY <1>1, NoneBusy DEF AloneInv
  <2>2. PICK j \in Requests : job' = [job EXCEPT ![s] = j]
    BY <1>1 DEF Receive
  <2>3. pc' = [pc EXCEPT ![s] = "use_ns"]
    BY <1>1 DEF Receive
  <2>4. pc'[s] = "use_ns" /\ job'[s] = j /\ j # NoJob
    BY <1>0, <2>2, <2>3, RequestFacts, RoutesAssumption
  <2>5. Undisturbed(s)'
    BY <2>4 DEF Undisturbed
  <2> QED
    BY <2>1, <2>2, <2>3, <2>5, SlotStep
<1>2. CASE UseNs(s)
  <2>1. CASE Respond(s, "500", NoDoc)
    BY <1>2, <2>1, RespondAlone DEF UseNs
  <2>2. CASE ~Respond(s, "500", NoDoc)
    <3> DEFINE p == IF job[s].op \in {"submit", "cancel"} THEN "select" ELSE "exec"
    <3>1. ns' = job[s].tenant /\ pc' = [pc EXCEPT ![s] = p] /\ UNCHANGED job
      BY <1>2, <2>2 DEF UseNs, Target
    <3>2. job' = [job EXCEPT ![s] = job[s]]
      BY <1>0, <3>1
    <3>3. job[s] # NoJob /\ pc'[s] = p /\ job'[s] = job[s] /\ p \in {"select", "exec"}
      BY <1>0, <1>2, <3>1 DEF UseNs, Undisturbed
    <3> HIDE DEF p
    <3>4. Undisturbed(s)'
      BY <3>1, <3>3 DEF Undisturbed
    <3> QED
      BY <1>2, <3>1, <3>2, <3>4, SlotStep DEF UseNs
  <2> QED
    BY <2>1, <2>2
<1>3. CASE \/ CreateDocument(s) \/ GetDocument(s) \/ UpdateDocument(s)
           \/ DeleteDocument(s) \/ WriteStatus(s)
  <2>1. \E code, doc : Respond(s, code, doc)
    BY <1>3 DEF CreateDocument, GetDocument, UpdateDocument, DeleteDocument,
                WriteStatus, Found, Failing
  <2>2. pc[s] # "idle"
    BY <1>3 DEF CreateDocument, GetDocument, UpdateDocument, DeleteDocument,
                WriteStatus, Exec
  <2> QED
    BY <2>1, <2>2, RespondAlone
<1>4. CASE SelectDocument(s)
  <2> DEFINE i == job[s].id
             new == WithStatus(Stored(i), TargetStatus(job[s].op))
  <2>1. CASE \E code, doc : Respond(s, code, doc)
    BY <1>4, <2>1, RespondAlone DEF SelectDocument
  <2>2. CASE ~\E code, doc : Respond(s, code, doc)
    <3>1. /\ Stored(i) # NoDoc
          /\ Lawful(i, new)
          /\ pc' = [pc EXCEPT ![s] = "write"]
          /\ job' = [job EXCEPT ![s].doc = new]
          /\ UNCHANGED <<ns, db, owner>>
      BY <1>4, <2>2 DEF SelectDocument
    <3>2. /\ job[s] \in Jobs /\ ns = job[s].tenant /\ pc[s] = "select"
      BY <1>0, <1>4, RequestFacts DEF SelectDocument, WellFormed, Fits, Undisturbed
    <3> HIDE DEF new
    <3> DEFINE j == [job[s] EXCEPT !.doc = new]
    <3>3. /\ j.doc = new /\ j.op = job[s].op /\ j.id = i /\ j.tenant = job[s].tenant
      BY <3>2 DEF Jobs
    <3>4. job' = [job EXCEPT ![s] = j] /\ job'[s] = j /\ pc'[s] = "write"
      BY <1>0, <3>1
    <3> HIDE DEF j
    <3>5. job'[s] # NoJob
      <4>1. job'[s] \in Jobs
        BY <3>4 DEF ServerInv, TypeInv, WellFormed, Fits
      <4> QED
        BY <4>1, RoutesAssumption
    <3>6. db'[ns'][i] = Stored(i) /\ i \in HasSchema
          /\ ValidateTransition(Stored(i), new) = "Ok"
      BY <3>1 DEF Stored, Lawful
    <3>7. Undisturbed(s)'
      BY <3>1, <3>2, <3>3, <3>4, <3>5, <3>6 DEF Undisturbed, new, Stored, Lawful
    <3> QED
      BY <3>1, <3>2, <3>4, <3>7, SlotStep
  <2> QED
    BY <2>1, <2>2
<1> QED
  BY <1>1, <1>2, <1>3, <1>4 DEF Handle

\* An answer to a provision that had not come to its syncs.
LEMMA EarlyReply ==
  ASSUME AloneInv, ServerInv', UNCHANGED routeVars, UNCHANGED tables,
         NEW p \in Provisions, Busy = {} \/ prov[p].at \notin Done \cup {"idle"},
         ~Syncing(p), NEW r \in Provs, prov' = [prov EXCEPT ![p] = r],
         r.at \notin {"sync", "200"}
  PROVE  AloneInv'
<1>1. prov'[p] = r
  BY DEF AloneInv, ServerInv
<1>2. Complete(p)'
  BY <1>1 DEF Complete, Syncing
<1>3. \A q \in Provisions : q # p => prov[q].at # "sync"
  BY ProvAlone DEF AloneInv, Done
<1>4. Sourced' /\ \A q \in Provisions : Complete(q)'
  BY <1>2, <1>3, TablesStay
<1> QED
  BY <1>4, ProvisionStep

\* In its tenant's namespace a provision syncs one version per doctype, and
\* no other provision has synced a table of that tenant.
LEMMA SyncAlone ==
  ASSUME AloneInv, ServerInv', UNCHANGED routeVars, NEW p \in Provisions, Sync(p)
  PROVE  AloneInv'
<1>1. /\ prov[p] \in Provs /\ prov[p].at = "sync" /\ Complete(p)
      /\ ns = prov[p].tenant /\ ns \in Tenants /\ UNCHANGED ns
      /\ prov \in [Provisions -> Provs]
  BY ProvFacts DEF Sync, AloneInv, Complete, ServerInv
<1>2. PICK f \in prov[p].todo :
        \/ Altered(f) /\ prov' = [prov EXCEPT ![p].todo = @ \ {f}]
        \/ (Altered(f) \/ UNCHANGED tables) /\ Failure(p, f)
  BY DEF Sync
<1>3. /\ f \in prov[p].schemas /\ f \in Files /\ f.doctype \in Doctypes
      /\ \A g \in prov[p].schemas : g.doctype = f.doctype => g = f
      /\ f \notin prov[p].failed
  BY <1>2, ProvFacts DEF AloneInv, Crawled, Doctypes
<1>4. prov[p].at \notin Done \cup {"idle"}
  BY <1>1 DEF Done
<1>5. \A q \in Provisions : q # p => prov[q].at # "sync"
  BY <1>4, ProvAlone DEF AloneInv, Done
<1>6. /\ \A q \in Provisions : q # p => prov'[q] = prov[q]
      /\ prov'[p].at = "sync" /\ prov'[p].tenant = ns
      /\ Tried(p)' = Tried(p) \cup {f} /\ Synced(p)' \subseteq Synced(p) \cup {f}
      /\ Failure(p, f) => Synced(p)' = Synced(p)
      /\ \E r : prov' = [prov EXCEPT ![p] = r]
  <2>1. CASE Failure(p, f)
    <3> DEFINE r == [prov[p] EXCEPT !.todo = @ \ {f}, !.failed = @ \cup {f}]
    <3>1. /\ prov' = [prov EXCEPT ![p] = r] /\ prov'[p] = r
          /\ \A q \in Provisions : q # p => prov'[q] = prov[q]
      BY <1>1, <2>1 DEF Failure
    <3>2. /\ r.at = "sync" /\ r.tenant = prov[p].tenant /\ r.schemas = prov[p].schemas
          /\ r.todo = prov[p].todo \ {f} /\ r.failed = prov[p].failed \cup {f}
      BY <1>1 DEF Provs
    <3> HIDE DEF r
    <3> QED
      BY <1>1, <1>2, <1>3, <3>1, <3>2 DEF Synced, Tried
  <2>2. CASE prov' = [prov EXCEPT ![p].todo = @ \ {f}] /\ ~Failure(p, f)
    <3> DEFINE r == [prov[p] EXCEPT !.todo = @ \ {f}]
    <3>1. /\ prov' = [prov EXCEPT ![p] = r] /\ prov'[p] = r
          /\ \A q \in Provisions : q # p => prov'[q] = prov[q]
      BY <1>1, <2>2
    <3>2. /\ r.at = "sync" /\ r.tenant = prov[p].tenant /\ r.schemas = prov[p].schemas
          /\ r.todo = prov[p].todo \ {f} /\ r.failed = prov[p].failed
      BY <1>1 DEF Provs
    <3> HIDE DEF r
    <3> QED
      BY <1>1, <1>2, <1>3, <2>2, <3>1, <3>2 DEF Synced, Tried
  <2> QED
    BY <1>2, <2>1, <2>2
<1>7. PICK r : prov' = [prov EXCEPT ![p] = r]
  BY <1>6
<1>8. CASE Failure(p, f) /\ UNCHANGED tables
  <2>1. Complete(p)' /\ Syncing(p)'
    BY <1>1, <1>6, <1>8 DEF Complete, Syncing
  <2>2. Sourced' /\ \A q \in Provisions : Complete(q)'
    BY <1>1, <1>5, <1>6, <1>7, <1>8, <2>1, TablesStay
  <2> QED
    BY <1>4, <1>7, <2>2, ProvisionStep
<1>9. CASE Altered(f)
  <2>4. PICK kept \in {{}, tables[ns][f.doctype]} :
          tables' = [tables EXCEPT ![ns][f.doctype] = kept \cup {f.version}]
    BY <1>9 DEF Altered
  <2>5. tables \in [Tenants -> [Doctypes -> SUBSET {g.version : g \in Files}]]
    BY ProvFacts DEF AloneInv
  <2>6. /\ tables'[ns][f.doctype] = kept \cup {f.version}
        /\ \A t \in Tenants, d \in Doctypes :
             t # ns \/ d # f.doctype => tables'[t][d] = tables[t][d]
    BY <1>1, <1>3, <2>4, <2>5
  <2>7. Complete(p)'
    <3>1. ASSUME NEW g \in Synced(p)' PROVE g.version \in tables'[ns][g.doctype]
      <4>1. CASE g = f
        BY <2>6, <4>1
      <4>2. CASE g # f
        <5>1. g \in Synced(p) /\ g \in prov[p].schemas /\ g.doctype # f.doctype
          BY <1>3, <1>6, <3>1, <4>2 DEF Synced
        <5>2. g.doctype \in Doctypes
          BY <5>1, ProvFacts DEF AloneInv, Crawled, Doctypes
        <5>3. g.version \in tables[ns][g.doctype]
          BY <1>1, <5>1 DEF Complete, Syncing
        <5> QED
          BY <1>1, <2>6, <5>1, <5>2, <5>3
      <4> QED
        BY <4>1, <4>2
    <3> QED
      BY <1>1, <1>6, <3>1 DEF Complete
  <2>8. ASSUME NEW q \in Provisions, q # p PROVE Complete(q)'
    <3>1. CASE Syncing(q)
      <4>1. prov[q].tenant \in Tenants /\ prov[q].tenant # ns
        BY <1>1, <2>8, <3>1, ProvFacts DEF AloneInv, ServerInv, ClaimInv, Claims, Syncing
      <4>2. \A g \in Synced(q) : g.doctype \in Doctypes
        BY ProvFacts DEF AloneInv, Synced, Crawled, Doctypes
      <4>3. \A g \in Synced(q) : g.version \in tables'[prov[q].tenant][g.doctype]
        BY <2>6, <3>1, <4>1, <4>2 DEF AloneInv, Complete
      <4> QED
        BY <1>5, <1>6, <2>8, <4>3 DEF AloneInv, Complete, Synced
    <3>2. CASE ~Syncing(q)
      BY <1>6, <2>8, <3>2 DEF Complete, Syncing
    <3> QED
      BY <3>1, <3>2
  <2>9. Sourced'
    <3> SUFFICES ASSUME NEW t \in Tenants, NEW d \in Doctypes, NEW v \in tables'[t][d]
                 PROVE  \E q \in Provisions :
                          /\ Syncing(q)' /\ prov'[q].tenant = t
                          /\ \E g \in Tried(q)' : g.doctype = d /\ g.version = v
      BY DEF Sourced
    <3>1. CASE t = ns /\ d = f.doctype /\ v = f.version
      BY <1>1, <1>6, <3>1 DEF Syncing
    <3>2. CASE ~(t = ns /\ d = f.doctype /\ v = f.version)
      <4>1. v \in tables[t][d]
        BY <2>4, <2>6, <3>2
      <4>2. PICK q \in Provisions :
              /\ Syncing(q) /\ prov[q].tenant = t
              /\ \E g \in Tried(q) : g.doctype = d /\ g.version = v
        BY <4>1 DEF AloneInv, Sourced
      <4>3. CASE q = p
        BY <1>1, <1>6, <4>2, <4>3 DEF Syncing
      <4>4. CASE q # p
        BY <1>6, <4>2, <4>4 DEF Syncing, Tried
      <4> QED
        BY <4>3, <4>4
    <3> QED
      BY <3>1, <3>2
  <2> QED
    BY <1>4, <1>7, <2>7, <2>8, <2>9, ProvisionStep
<1> QED
  BY <1>2, <1>8, <1>9

LEMMA ProvisionAlone ==
  ASSUME AloneInv, ServerInv', InFlight <= 1, UNCHANGED routeVars, NEW p \in Provisions,
         (Cardinality(Busy) < InFlight /\ ReceiveProvision(p)) \/ HandleProvision(p)
  PROVE  AloneInv'
<1>0. prov \in [Provisions -> Provs] /\ prov[p] \in Provs
  BY DEF AloneInv, ServerInv
<1>1. ASSUME NEW code \in Done \ {"200"}, Reply(p, code), ~Syncing(p), UNCHANGED tables,
             Busy = {} \/ prov[p].at \notin Done \cup {"idle"}
      PROVE  AloneInv'
  <2> DEFINE r == [prov[p] EXCEPT !.at = code]
  <2>1. prov' = [prov EXCEPT ![p] = r]
    BY <1>1 DEF Reply
  <2>2. r \in Provs /\ r.at = code
    BY <1>0 DEF Provs
  <2>3. r.at \notin {"sync", "200"}
    BY <1>1, <2>2 DEF Done
  <2> HIDE DEF r
  <2> QED
    BY <1>1, <2>1, <2>2, <2>3, EarlyReply
<1>2. CASE Cardinality(Busy) < InFlight /\ ReceiveProvision(p)
  <2>1. Busy = {} /\ ~Syncing(p) /\ UNCHANGED tables
    BY <1>2, NoneBusy DEF AloneInv, ReceiveProvision, Syncing
  <2>2. CASE \E code \in {"401", "403"} : Reply(p, code)
    BY <1>1, <2>1, <2>2 DEF Done
  <2>3. CASE \E t \in Tenants : prov' = [prov EXCEPT ![p].at = "define", ![p].tenant = t]
    <3>1. PICK t \in Tenants : prov' = [prov EXCEPT ![p].at = "define", ![p].tenant = t]
      BY <2>3
    <3> DEFINE r == [prov[p] EXCEPT !.at = "define", !.tenant = t]
    <3>2. prov' = [prov EXCEPT ![p] = r]
      BY <1>0, <3>1
    <3>3. r \in Provs /\ r.at = "define"
      BY <1>0 DEF Provs
    <3> HIDE DEF r
    <3> QED
      BY <2>1, <3>2, <3>3, EarlyReply
  <2> QED
    BY <1>2, <2>2, <2>3 DEF ReceiveProvision
<1>3. CASE Define(p)
  <2>1. prov[p].at \notin Done \cup {"idle"} /\ ~Syncing(p) /\ UNCHANGED tables
    BY <1>3 DEF Define, Done, Syncing
  <2>2. CASE Reply(p, "500")
    BY <1>1, <2>1, <2>2 DEF Done
  <2>3. CASE Reply(p, "use_ns")
    <3> DEFINE r == [prov[p] EXCEPT !.at = "use_ns"]
    <3>1. prov' = [prov EXCEPT ![p] = r]
      BY <2>3 DEF Reply
    <3>2. r \in Provs /\ r.at = "use_ns"
      BY <1>0 DEF Provs
    <3> HIDE DEF r
    <3> QED
      BY <2>1, <3>1, <3>2, EarlyReply
  <2> QED
    BY <1>3, <2>2, <2>3 DEF Define
<1>4. CASE SwitchNs(p)
  <2>1. prov[p].at \notin Done \cup {"idle"} /\ ~Syncing(p) /\ UNCHANGED tables
    BY <1>4 DEF SwitchNs, Done, Syncing
  <2>2. CASE Reply(p, "500")
    BY <1>1, <2>1, <2>2 DEF Done
  <2>3. CASE ~Reply(p, "500")
    <3>1. ns' = prov[p].tenant
      BY <1>4, <2>3 DEF SwitchNs, Selected
    <3>2. PICK R \in Crawled :
            prov' = [prov EXCEPT ![p].at = "sync", ![p].schemas = R, ![p].todo = R]
      BY <1>4, <2>3 DEF SwitchNs
    <3> DEFINE r == [prov[p] EXCEPT !.at = "sync", !.schemas = R, !.todo = R]
    <3>3. prov' = [prov EXCEPT ![p] = r] /\ prov'[p] = r
      BY <1>0, <3>2
    <3>4. r.at = "sync" /\ r.tenant = prov[p].tenant /\ r.schemas = R /\ r.todo = R
      BY <1>0 DEF Provs
    <3> HIDE DEF r
    <3>5. Complete(p)'
      BY <3>1, <3>3, <3>4 DEF Complete, Synced
    <3>6. \A q \in Provisions : q # p => prov[q].at # "sync"
      BY <2>1, ProvAlone DEF AloneInv, Done
    <3>7. Sourced' /\ \A q \in Provisions : Complete(q)'
      BY <2>1, <3>3, <3>5, <3>6, TablesStay
    <3> QED
      BY <2>1, <3>3, <3>7, ProvisionStep
  <2> QED
    BY <2>2, <2>3
<1>5. CASE Sync(p)
  BY <1>5, SyncAlone
<1>6. CASE Succeed(p)
  <2>1. /\ prov[p].at = "sync" /\ prov[p].todo = {} /\ UNCHANGED tables
        /\ prov[p].at \notin Done \cup {"idle"}
    BY <1>6 DEF Succeed, Done
  <2> DEFINE r == [prov[p] EXCEPT !.at = "200"]
  <2>2. prov' = [prov EXCEPT ![p] = r] /\ prov'[p] = r
    BY <1>0, <1>6 DEF Succeed, Reply
  <2>3. /\ r.at = "200" /\ r.tenant = prov[p].tenant /\ r.schemas = prov[p].schemas
        /\ r.todo = prov[p].todo /\ r.failed = prov[p].failed
    BY <1>0 DEF Provs
  <2> HIDE DEF r
  <2>4. Synced(p)' = Synced(p) /\ Tried(p)' = Tried(p) /\ Syncing(p)'
    BY <2>2, <2>3 DEF Synced, Tried, Syncing
  <2>5. Complete(p)'
    BY <2>1, <2>2, <2>3, <2>4 DEF AloneInv, Complete, Syncing
  <2>6. \A q \in Provisions : q # p => prov[q].at # "sync"
    BY <2>1, ProvAlone DEF AloneInv, Done
  <2>7. Sourced' /\ \A q \in Provisions : Complete(q)'
    BY <2>1, <2>2, <2>3, <2>4, <2>5, <2>6, TablesStay
  <2> QED
    BY <2>1, <2>2, <2>7, ProvisionStep
<1> QED
  BY <1>2, <1>3, <1>4, <1>5, <1>6 DEF HandleProvision

LEMMA NextAloneInv ==
  ASSUME InFlight <= 1
  PROVE  AloneInv /\ [ServerNext]_serverVars => AloneInv'
<1> SUFFICES ASSUME AloneInv, [ServerNext]_serverVars PROVE AloneInv'
  OBVIOUS
<1>1. ServerInv'
  BY NextServerInv DEF AloneInv
<1>2. CASE UNCHANGED serverVars
  BY <1>1, <1>2
  DEF AloneInv, serverVars, vars, provVars, AtMostOne, Busy, Undisturbed, Stored, Lawful,
      Complete, Syncing, Synced, Tried, Sourced
<1>3. ASSUME NEW s \in Slots, (Cardinality(Busy) < InFlight /\ Receive(s)) \/ Handle(s),
             UNCHANGED provVars
      PROVE  AloneInv'
  BY <1>1, <1>3, DocumentAlone
<1>4. ASSUME NEW p \in Provisions,
             (Cardinality(Busy) < InFlight /\ ReceiveProvision(p)) \/ HandleProvision(p),
             UNCHANGED routeVars
      PROVE  AloneInv'
  BY <1>1, <1>4, ProvisionAlone
<1> QED
  BY <1>2, <1>3, <1>4 DEF ServerNext

LEMMA AloneInvariance ==
  ASSUME InFlight <= 1
  PROVE  ServerSpec => []AloneInv
<1>1. ServerInit => AloneInv
  <2> SUFFICES ASSUME ServerInit PROVE AloneInv
    OBVIOUS
  <2>1. ServerInv
    BY InitServerInv
  <2>2. AtMostOne /\ \A s \in Slots : Undisturbed(s)
    BY DEF ServerInit, Init, AtMostOne, Busy, Undisturbed
  <2>3. Sourced /\ \A p \in Provisions : Complete(p)
    BY DEF ServerInit, Sourced, Complete, Syncing
  <2> QED
    BY <2>1, <2>2, <2>3 DEF AloneInv
<1> QED
  BY <1>1, NextAloneInv, PTL DEF ServerSpec

(***************************************************************************)
(* When requests are served one at a time, a provision that answers 200    *)
(* has synced each schema that it loaded and that did not fail, in its own *)
(* tenant's namespace, whatever requests came before, and nothing that     *)
(* comes after takes a table away.                                         *)
(***************************************************************************)
THEOREM SuccessCompletes ==
  ASSUME InFlight <= 1
  PROVE  ServerSpec => []SuccessIsComplete
<1>1. AloneInv => SuccessIsComplete
  BY DEF AloneInv, SuccessIsComplete, Complete, Syncing, Synced
<1> QED
  BY <1>1, AloneInvariance, PTL

(***************************************************************************)
(* When requests are served one at a time, no table has fields from two    *)
(* versions of its doctype, although the files on disk may hold several.   *)
(***************************************************************************)
THEOREM VersionsNeverMix ==
  ASSUME InFlight <= 1
  PROVE  ServerSpec => []OneVersion
<1>1. ASSUME AloneInv, NEW t \in Tenants, NEW d \in Doctypes
      PROVE  Cardinality(tables[t][d]) <= 1
  <2>1. ASSUME NEW v \in tables[t][d], NEW w \in tables[t][d] PROVE v = w
    <3>1. PICK p \in Provisions :
            /\ Syncing(p) /\ prov[p].tenant = t
            /\ \E f \in Tried(p) : f.doctype = d /\ f.version = v
      BY <1>1 DEF AloneInv, Sourced
    <3>2. PICK q \in Provisions :
            /\ Syncing(q) /\ prov[q].tenant = t
            /\ \E f \in Tried(q) : f.doctype = d /\ f.version = w
      BY <1>1 DEF AloneInv, Sourced
    <3>3. p = q
      BY <1>1, <3>1, <3>2 DEF AloneInv, ServerInv, ClaimInv, Claims, Syncing
    <3> QED
      BY <1>1, <3>1, <3>2, <3>3, ProvFacts DEF AloneInv, Crawled, Tried
  <2>2. CASE tables[t][d] = {}
    BY <2>2, FS_EmptySet
  <2>3. CASE tables[t][d] # {}
    <3>1. PICK v \in tables[t][d] : tables[t][d] = {v}
      BY <2>1, <2>3
    <3>2. Cardinality({v}) = 1
      BY FS_Singleton
    <3> QED
      BY <3>1, <3>2
  <2> QED
    BY <2>2, <2>3
<1>2. AloneInv => OneVersion
  BY <1>1 DEF OneVersion
<1> QED
  BY <1>2, AloneInvariance, PTL

-----------------------------------------------------------------------------
(* Served in one step *)

\* DocumentStore reads documents as the handlers do.
LEMMA SameLifecycle ==
  \A old, new, n :
    /\ Store!WithStatus(old, n) = WithStatus(old, n)
    /\ Store!ValidateTransition(old, new) = ValidateTransition(old, new)
  BY DEF Store!WithStatus, WithStatus, Store!ValidateTransition, ValidateTransition,
         Store!StatusOf, StatusOf, Store!FromI32, FromI32, Store!AsI32, AsI32,
         Store!AsI64, AsI64, Store!LegalTransitions, LegalTransitions,
         Store!Field, Field, Store!Protected, Protected

\* A request in flight is what the client sent, whatever submit or cancel
\* have prepared since.
LEMMA SentFacts ==
  ASSUME NEW j \in Jobs
  PROVE  /\ Sent(j) \in Jobs /\ Sent(j) # NoJob
         /\ Sent(j).op = j.op /\ Sent(j).tenant = j.tenant /\ Sent(j).id = j.id
         /\ j.op \notin {"submit", "cancel"} => Sent(j).doc = j.doc
         /\ j \in Requests => Sent(j) = j
         /\ \A new : j.op \in {"submit", "cancel"} => Sent([j EXCEPT !.doc = new]) = Sent(j)
<1> DEFINE k == [j EXCEPT !.doc = NoDoc]
<1>1. k \in Jobs /\ k.op = j.op /\ k.tenant = j.tenant /\ k.id = j.id
  BY DEF Jobs
<1>2. j \in Requests /\ j.op \in {"submit", "cancel"} => k = j
  BY DEF Requests, Jobs
<1>3. \A new : LET m == [j EXCEPT !.doc = new]
               IN  m.op = j.op /\ [m EXCEPT !.doc = NoDoc] = k
  BY DEF Jobs
<1> HIDE DEF k
<1>4. Sent(j) = IF j.op \in {"submit", "cancel"} THEN k ELSE j
  BY DEF Sent, k
<1>5. j # NoJob /\ k # NoJob
  BY <1>1, RoutesAssumption
<1>6. \A new : j.op \in {"submit", "cancel"} => Sent([j EXCEPT !.doc = new]) = k
  BY <1>3 DEF Sent
<1> QED
  BY <1>1, <1>2, <1>4, <1>5, <1>6

\* The request DocumentStore serves is that of the slot which is not idle.
LEMMA PendingSlot ==
  ASSUME NEW J, NEW s \in Slots, J[s] # NoJob, \A z \in Slots : z # s => J[z] = NoJob
  PROVE  (CHOOSE z \in Slots : J[z] # NoJob) = s
  OBVIOUS

LEMMA PendingIs ==
  ASSUME AloneInv, NEW s \in Slots, pc[s] # "idle"
  PROVE  Pending = Sent(job[s]) /\ job[s] \in Jobs
<1>1. \A z \in Slots : z # s => job[z] = NoJob
  BY SlotAlone DEF AloneInv, Undisturbed
<1>2. job[s] # NoJob /\ job[s] \in Jobs
  BY DEF AloneInv, Undisturbed, ServerInv, TypeInv, TypeOK
<1> QED
  BY <1>1, <1>2, PendingSlot DEF Pending, InService

\* A step of slot s leaves the request of another slot idle.
LEMMA PendingNext ==
  ASSUME AloneInv, NEW s \in Slots, Busy = {} \/ pc[s] # "idle",
         NEW j, job' = [job EXCEPT ![s] = j]
  PROVE  Pending' = IF j = NoJob THEN NoJob ELSE Sent(j)
<1>1. job'[s] = j /\ \A z \in Slots : z # s => job'[z] = NoJob
  BY SlotAlone DEF AloneInv, Undisturbed, ServerInv, TypeInv, TypeOK
<1>2. CASE j = NoJob
  BY <1>1, <1>2 DEF Pending
<1>3. CASE j # NoJob
  <2>1. InService' = s
    BY <1>1, <1>3 DEF InService
  <2> QED
    BY <1>1, <1>3, <2>1 DEF Pending
<1> QED
  BY <1>2, <1>3


\* What DocumentStore sees of slot s at work: its request, and the document
\* the request is about.
LEMMA ServedFacts ==
  ASSUME AloneInv, NEW s \in Slots, pc[s] \in {"exec", "select", "write"}
  PROVE  /\ Pending # NoJob
         /\ Pending.op = job[s].op /\ Pending.tenant = ns /\ Pending.id = job[s].id
         /\ pc[s] = "exec" => Pending.doc = job[s].doc
         /\ job[s].op # "create" => Store!Mine = Stored(job[s].id)
<1>1. Pending = Sent(job[s]) /\ job[s] \in Jobs
  BY PendingIs
<1>2. ns = job[s].tenant /\ WellFormed(s)
  BY DEF AloneInv, Undisturbed, ServerInv, TypeInv
<1> QED
  BY <1>1, <1>2, SentFacts DEF WellFormed, Fits, Store!Mine, Stored

\* An answer ends the request; without a write the store stays as it is.
LEMMA Answered ==
  ASSUME AloneInv, NEW s \in Slots, pc[s] # "idle", NEW code, NEW doc, Respond(s, code, doc)
  PROVE  Pending' = NoJob /\ answer' = [code |-> code, doc |-> doc] /\ Pending # NoJob
<1>1. Pending' = NoJob
  BY PendingNext DEF Respond
<1>2. Pending # NoJob
  BY PendingIs, SentFacts
<1> QED
  BY <1>1, <1>2 DEF Respond

LEMMA Refused ==
  ASSUME AloneInv, NEW s \in Slots, pc[s] # "idle", Respond(s, "500", NoDoc),
         UNCHANGED <<db, owner>>
  PROVE  Store!Next
BY Answered DEF Store!Next, Store!Refuse, Store!Same

LEMMA CreateServed ==
  ASSUME AloneInv, NEW s \in Slots, CreateDocument(s)
  PROVE  Store!Next
<1>1. pc[s] = "exec" /\ job[s].op = "create"
  BY DEF CreateDocument, Exec
<1>2. CASE Respond(s, "500", NoDoc) /\ UNCHANGED <<db, owner>>
  BY <1>1, <1>2, Refused
<1>3. ASSUME NEW i \in Ids, owner[i] = NoTenant, Insert(s, i),
             Respond(s, "201", job[s].doc) \/ Respond(s, "500", NoDoc)
      PROVE  Store!Next
  <2> DEFINE used == {z \in Ids : owner[z] # NoTenant}
  <2>1. /\ Pending # NoJob /\ Pending.op = "create" /\ Pending.tenant = ns
        /\ Pending.doc = job[s].doc
    BY <1>1, ServedFacts
  <2>2. ns = job[s].tenant /\ ns \in Tenants /\ owner \in [Ids -> Tenants \cup {NoTenant}]
    BY <1>1 DEF AloneInv, Undisturbed, ServerInv, TypeInv, TypeOK, WellFormed, Fits
  <2>3. used' = used \cup {i} /\ i \in Ids \ used
    BY <1>3, <2>2, RoutesAssumption DEF Insert
  <2>4. db' = [db EXCEPT ![Pending.tenant][i] = Pending.doc]
    BY <1>3, <2>1 DEF Insert
  <2>5. /\ Pending' = NoJob
        /\ \/ answer' = [code |-> "201", doc |-> Pending.doc]
           \/ answer' = [code |-> "500", doc |-> NoDoc]
    BY <1>1, <1>3, <2>1, Answered
  <2> HIDE DEF used
  <2>6. Store!Create
    BY <2>1, <2>3, <2>4, <2>5 DEF Store!Create, Store!Finish, used
  <2> QED
    BY <2>6 DEF Store!Next
<1> QED
  BY <1>2, <1>3 DEF CreateDocument

\* No document: a 404, whatever the handler was about to do with it.
LEMMA MissingServed ==
  ASSUME AloneInv, NEW s \in Slots, pc[s] \in {"exec", "select", "write"},
         job[s].op # "create", Stored(job[s].id) = NoDoc, Respond(s, "404", NoDoc),
         UNCHANGED <<db, owner>>
  PROVE  Store!Next
<1>1. Store!Missing
  BY ServedFacts, Answered DEF Store!Missing, Store!Finish, Store!Same
<1> QED
  BY <1>1 DEF Store!Next

LEMMA GetServed ==
  ASSUME AloneInv, NEW s \in Slots, GetDocument(s)
  PROVE  Store!Next
<1>1. pc[s] = "exec" /\ job[s].op = "get" /\ UNCHANGED <<db, owner>>
  BY DEF GetDocument, Exec
<1>2. CASE Respond(s, "500", NoDoc)
  BY <1>1, <1>2, Refused
<1>3. CASE Stored(job[s].id) = NoDoc /\ Respond(s, "404", NoDoc)
  BY <1>1, <1>3, MissingServed
<1>4. CASE Stored(job[s].id) # NoDoc /\ Respond(s, "200", Stored(job[s].id))
  <2>1. Store!Get
    BY <1>1, <1>4, ServedFacts, Answered DEF Store!Get, Store!On, Store!Finish, Store!Same
  <2> QED
    BY <2>1 DEF Store!Next
<1> QED
  BY <1>2, <1>3, <1>4 DEF GetDocument, Found

LEMMA UpdateServed ==
  ASSUME AloneInv, NEW s \in Slots, UpdateDocument(s)
  PROVE  Store!Next
<1> DEFINE i == job[s].id
<1>1. /\ pc[s] = "exec" /\ job[s].op = "update"
      /\ \/ Replace(i, job[s].doc) /\ Found(s, i, job[s].doc)
         \/ Failing(s, Replace(i, job[s].doc))
  BY DEF UpdateDocument, Exec
<1>2. CASE UNCHANGED <<db, owner>> /\ Respond(s, "500", NoDoc)
  BY <1>1, <1>2, Refused
<1>3. CASE Stored(i) = NoDoc
  <2>1. UNCHANGED <<db, owner>> /\ (Respond(s, "404", NoDoc) \/ Respond(s, "500", NoDoc))
    BY <1>1, <1>3 DEF Replace, Found, Failing
  <2> QED
    BY <1>1, <1>2, <1>3, <2>1, MissingServed
<1>4. CASE /\ Stored(i) # NoDoc /\ Replace(i, job[s].doc)
           /\ Respond(s, "200", job[s].doc) \/ Respond(s, "500", NoDoc)
  <2>1. db' = [db EXCEPT ![ns][i] = job[s].doc] /\ UNCHANGED owner
    BY <1>4 DEF Replace
  <2>2. /\ Pending # NoJob /\ Pending.op = "update" /\ Pending.tenant = ns
        /\ Pending.id = i /\ Pending.doc = job[s].doc /\ Store!Mine # NoDoc
    BY <1>1, <1>4, ServedFacts
  <2>3. /\ Pending' = NoJob
        /\ \/ answer' = [code |-> "200", doc |-> job[s].doc]
           \/ answer' = [code |-> "500", doc |-> NoDoc]
    BY <1>1, <1>4, Answered
  <2>4. Store!Update
    BY <2>1, <2>2, <2>3 DEF Store!Update, Store!On, Store!Finish, Store!Put
  <2> QED
    BY <2>4 DEF Store!Next
<1> QED
  BY <1>1, <1>2, <1>3, <1>4 DEF Found, Failing

LEMMA DeleteServed ==
  ASSUME AloneInv, NEW s \in Slots, DeleteDocument(s)
  PROVE  Store!Next
<1> DEFINE i == job[s].id
<1>1. /\ pc[s] = "exec" /\ job[s].op = "delete"
      /\ \/ Remove(i) /\ Found(s, i, Stored(i))
         \/ Failing(s, Remove(i))
  BY DEF DeleteDocument, Exec
<1>2. CASE UNCHANGED <<db, owner>> /\ Respond(s, "500", NoDoc)
  BY <1>1, <1>2, Refused
<1>3. CASE Stored(i) = NoDoc
  <2>1. i \in Ids /\ ns \in Tenants /\ db \in [Tenants -> [Ids -> Documents \cup {NoDoc}]]
    BY <1>1, RequestFacts DEF AloneInv, ServerInv, TypeInv, TypeOK, WellFormed, Fits
  <2>2. Remove(i) => UNCHANGED <<db, owner>>
    BY <1>3, <2>1 DEF Remove, Stored
  <2>3. UNCHANGED <<db, owner>> /\ (Respond(s, "404", NoDoc) \/ Respond(s, "500", NoDoc))
    BY <1>1, <1>3, <2>2 DEF Found, Failing
  <2> QED
    BY <1>1, <1>2, <1>3, <2>3, MissingServed
<1>4. CASE /\ Stored(i) # NoDoc /\ Remove(i)
           /\ Respond(s, "200", Stored(i)) \/ Respond(s, "500", NoDoc)
  <2>1. db' = [db EXCEPT ![ns][i] = NoDoc] /\ UNCHANGED owner
    BY <1>4 DEF Remove
  <2>2. /\ Pending # NoJob /\ Pending.op = "delete" /\ Pending.tenant = ns
        /\ Pending.id = i /\ Store!Mine = Stored(i) /\ Store!Mine # NoDoc
    BY <1>1, <1>4, ServedFacts
  <2>3. /\ Pending' = NoJob
        /\ \/ answer' = [code |-> "200", doc |-> Stored(i)]
           \/ answer' = [code |-> "500", doc |-> NoDoc]
    BY <1>1, <1>4, Answered
  <2>4. Store!Delete
    BY <2>1, <2>2, <2>3 DEF Store!Delete, Store!On, Store!Finish, Store!Put
  <2> QED
    BY <2>4 DEF Store!Next
<1> QED
  BY <1>1, <1>2, <1>3, <1>4 DEF Found, Failing


\* Submit and cancel are the two requests that set a status.
LEMMA SetStatusNext ==
  ASSUME NEW op \in {"submit", "cancel"}, Store!SetStatus(op, TargetStatus(op))
  PROVE  Store!Next
  BY DEF Store!Next, TargetStatus

LEMMA SelectServed ==
  ASSUME AloneInv, NEW s \in Slots, SelectDocument(s)
  PROVE  [Store!Next]_(Store!vars)
<1> DEFINE i == job[s].id
           n == TargetStatus(job[s].op)
           new == WithStatus(Stored(i), n)
<1>1. /\ pc[s] = "select" /\ UNCHANGED <<db, owner>>
      /\ job[s].op \in {"submit", "cancel"}
  BY DEF SelectDocument, AloneInv, ServerInv, TypeInv, WellFormed, Fits
<1>2. CASE Respond(s, "500", NoDoc)
  BY <1>1, <1>2, Refused
<1>3. CASE Stored(i) = NoDoc /\ Respond(s, "404", NoDoc)
  BY <1>1, <1>3, MissingServed
<1>4. CASE Stored(i) # NoDoc /\ ~Lawful(i, new) /\ Respond(s, "400", NoDoc)
  <2>1. /\ Pending # NoJob /\ Pending.op = job[s].op /\ Pending.id = i
        /\ Store!Mine = Stored(i) /\ Store!Mine # NoDoc
    BY <1>1, <1>4, ServedFacts
  <2>2. /\ Pending' = NoJob /\ answer' = [code |-> "400", doc |-> NoDoc]
    BY <1>1, <1>4, Answered
  <2>3. ~(/\ Pending.id \in HasSchema
          /\ Store!ValidateTransition(Store!Mine, Store!WithStatus(Store!Mine, n)) = "Ok")
    BY <1>4, <2>1, SameLifecycle DEF Lawful
  <2>4. Store!Finish("400", NoDoc, Store!Same, Store!Same)
    BY <1>1, <2>1, <2>2 DEF Store!Finish, Store!Same
  <2> HIDE DEF n
  <2>5. Store!SetStatus(job[s].op, n)
    BY <2>1, <2>3, <2>4 DEF Store!SetStatus, Store!On
  <2> QED
    BY <1>1, <2>5, SetStatusNext DEF n
<1>5. CASE /\ Stored(i) # NoDoc
           /\ pc' = [pc EXCEPT ![s] = "write"]
           /\ job' = [job EXCEPT ![s].doc = new]
           /\ UNCHANGED answer
  <2>1. /\ job[s] \in Jobs /\ job \in [Slots -> Jobs \cup {NoJob}]
        /\ Pending = Sent(job[s])
    BY <1>1, PendingIs DEF AloneInv, ServerInv, TypeInv, TypeOK
  <2>2. Stored(i) \in Documents /\ n \in {1, 2}
    BY <1>1, <1>5, RequestFacts
    DEF AloneInv, ServerInv, TypeInv, TypeOK, WellFormed, Fits, Stored, TargetStatus
  <2>3. new \in Documents
    BY <2>2, WithStatusType
  <2> HIDE DEF new
  <2> DEFINE j == [job[s] EXCEPT !.doc = new]
  <2>4. job' = [job EXCEPT ![s] = j] /\ j \in Jobs
    BY <1>5, <2>1, <2>3 DEF Jobs
  <2>5. Sent(j) = Sent(job[s])
    BY <1>1, <2>1, SentFacts
  <2> HIDE DEF j
  <2>6. Pending' = Sent(j)
    BY <1>1, <2>4, PendingNext, RoutesAssumption
  <2> QED
    BY <1>1, <1>5, <2>1, <2>5, <2>6 DEF Store!vars
<1> QED
  BY <1>2, <1>3, <1>4, <1>5 DEF SelectDocument

\* The write finds what the select found: the two are one step.
LEMMA WriteServed ==
  ASSUME AloneInv, NEW s \in Slots, WriteStatus(s)
  PROVE  Store!Next
<1> DEFINE i == job[s].id
           n == TargetStatus(job[s].op)
           new == job[s].doc
<1>1. /\ pc[s] = "write" /\ job[s].op \in {"submit", "cancel"}
      /\ \/ Replace(i, new) /\ Found(s, i, new)
         \/ Failing(s, Replace(i, new))
  BY DEF WriteStatus, AloneInv, ServerInv, TypeInv, WellFormed, Fits
<1>2. /\ Stored(i) # NoDoc /\ new = WithStatus(Stored(i), n)
      /\ i \in HasSchema /\ ValidateTransition(Stored(i), new) = "Ok"
  BY <1>1 DEF AloneInv, Undisturbed, Lawful
<1>3. CASE UNCHANGED <<db, owner>> /\ Respond(s, "500", NoDoc)
  BY <1>1, <1>3, Refused
<1>4. CASE Replace(i, new) /\ (Respond(s, "200", new) \/ Respond(s, "500", NoDoc))
  <2>1. db' = [db EXCEPT ![ns][i] = new] /\ UNCHANGED owner
    BY <1>2, <1>4 DEF Replace
  <2>2. /\ Pending # NoJob /\ Pending.op = job[s].op /\ Pending.tenant = ns
        /\ Pending.id = i /\ Store!Mine = Stored(i)
    BY <1>1, ServedFacts
  <2>3. /\ Pending' = NoJob
        /\ \/ answer' = [code |-> "200", doc |-> new]
           \/ answer' = [code |-> "500", doc |-> NoDoc]
    BY <1>1, <1>4, Answered
  <2>4. /\ new = Store!WithStatus(Store!Mine, n)
        /\ Store!ValidateTransition(Store!Mine, new) = "Ok"
    BY <1>2, <2>2, SameLifecycle
  <2> HIDE DEF n, new
  <2>5. Store!Finish("200", new, Store!Put(new)
                       /\ UNCHANGED {z \in Ids : owner[z] # NoTenant}, Store!Same)
    BY <2>1, <2>2, <2>3 DEF Store!Finish, Store!Put
  <2>6. Store!SetStatus(job[s].op, n)
    BY <1>2, <2>2, <2>4, <2>5 DEF Store!SetStatus, Store!On
  <2> QED
    BY <1>1, <2>6, SetStatusNext DEF n
<1> QED
  BY <1>1, <1>2, <1>3, <1>4 DEF Found, Failing

\* Selecting the namespace is no step of the store, unless it fails.
LEMMA UseNsServed ==
  ASSUME AloneInv, NEW s \in Slots, UseNs(s)
  PROVE  [Store!Next]_(Store!vars)
<1>1. pc[s] = "use_ns" /\ UNCHANGED <<db, owner>>
  BY DEF UseNs
<1>2. CASE Respond(s, "500", NoDoc)
  BY <1>1, <1>2, Refused
<1>3. CASE UNCHANGED <<job, answer>>
  BY <1>1, <1>3 DEF Store!vars, Pending, InService
<1> QED
  BY <1>2, <1>3 DEF UseNs

LEMMA ReceiveServed ==
  ASSUME AloneInv, InFlight <= 1, NEW s \in Slots, Receive(s), Cardinality(Busy) < InFlight
  PROVE  Store!Next
<1>1. Busy = {}
  BY NoneBusy DEF AloneInv
<1>2. PICK j \in Requests : job' = [job EXCEPT ![s] = j]
  BY DEF Receive
<1>3. j \in Jobs /\ j # NoJob /\ Sent(j) = j
  BY RequestFacts, SentFacts, RoutesAssumption
<1>4. Pending' = j
  BY <1>1, <1>2, <1>3, PendingNext
<1>5. \A z \in Slots : job[z] = NoJob
  BY <1>1, SlotAlone DEF AloneInv, Undisturbed, Receive
<1>6. Pending = NoJob
  BY <1>5 DEF Pending
<1>7. Store!Accept
  BY <1>4, <1>6 DEF Store!Accept, Receive
<1> QED
  BY <1>7 DEF Store!Next

(***************************************************************************)
(* When requests are served one at a time, the handlers with their shared  *)
(* session, their awaits and their failing calls implement DocumentStore,  *)
(* with tenants provisioned in between: each request takes effect in one   *)
(* step, on its own tenant, and its answer tells which.                    *)
(***************************************************************************)
THEOREM OneStepServed ==
  ASSUME InFlight <= 1
  PROVE  ServerSpec => ServedInOneStep
<1>1. ServerInit => Store!Init
  BY DEF ServerInit, Init, Store!Init, Pending
<1>2. AloneInv /\ [ServerNext]_serverVars => [Store!Next]_(Store!vars)
  <2> SUFFICES ASSUME AloneInv, [ServerNext]_serverVars PROVE [Store!Next]_(Store!vars)
    OBVIOUS
  <2>1. CASE UNCHANGED routeVars
    BY <2>1 DEF routeVars, Store!vars, Pending, InService
  <2>2. CASE UNCHANGED serverVars
    BY <2>1, <2>2 DEF serverVars, vars, routeVars
  <2>3. ASSUME NEW s \in Slots, (Cardinality(Busy) < InFlight /\ Receive(s)) \/ Handle(s)
        PROVE  [Store!Next]_(Store!vars)
    BY <2>3, ReceiveServed, UseNsServed, CreateServed, GetServed, UpdateServed,
       DeleteServed, SelectServed, WriteServed DEF Handle
  <2> QED
    BY <2>1, <2>2, <2>3 DEF ServerNext
<1> QED
  BY <1>1, <1>2, AloneInvariance, PTL DEF ServerSpec, ServedInOneStep, Store!Spec
=============================================================================
