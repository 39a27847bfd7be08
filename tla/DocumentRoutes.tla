--------------------------- MODULE DocumentRoutes ---------------------------
(***************************************************************************)
(* The document endpoints of crates/frappe-net/src/routes.rs.  Every       *)
(* handler runs against the one Surreal<Client> held in web::Data: all     *)
(* requests in flight share its session, hence its current namespace.  A   *)
(* handler first selects its tenant's namespace with use_ns, then issues   *)
(* its database calls; the handlers of other requests may run at every     *)
(* await between them.                                                     *)
(***************************************************************************)
EXTENDS DocLifecycle

CONSTANTS
  Tenants,     \* tenant ids, each the name of a namespace
  Ids,         \* record ids: a doctype together with a document id
  HasSchema,   \* record ids whose doctype is in the SchemaRegistry
  Slots,       \* requests that can be in flight at the same time
  Ops,         \* the endpoints the clients call
  Bodies,      \* JSON bodies of POST and PUT requests
  PutIds,      \* record ids that clients PUT
  NoTenant, NoId, NoDoc, NoJob

AllOps == {"create", "get", "update", "delete", "submit", "cancel"}

Jobs == [op : AllOps, tenant : Tenants, id : Ids \cup {NoId},
         doc : Documents \cup {NoDoc}]

ASSUME RoutesAssumption ==
  /\ Ops \subseteq AllOps
  /\ HasSchema \subseteq Ids
  /\ Bodies \subseteq Documents
  /\ NoTenant \notin Tenants
  /\ NoId \notin Ids
  /\ NoDoc \notin Documents
  /\ NoJob \notin Jobs

VARIABLES
  ns,      \* namespace of the shared session
  db,      \* db[t][i]: document i in the namespace of tenant t
  owner,   \* owner[i]: tenant whose request created i (NoTenant: unused id)
  pc,      \* pc[s]: the await the handler in slot s is at
  job,     \* job[s]: its request, later the document it is about to write
  answer   \* the last response sent

vars == <<ns, db, owner, pc, job, answer>>

Requests ==
  { j \in [op : Ops, tenant : Tenants, id : Ids \cup {NoId},
           doc : Bodies \cup {NoDoc}] :
      /\ j.op = "create" <=> j.id = NoId
      /\ j.op \in {"create", "update"} <=> j.doc # NoDoc
      /\ j.op = "update" => j.id \in PutIds }

Codes == {"None", "200", "201", "400", "404", "500"}

Init ==
  /\ ns = NoTenant
  /\ db = [t \in Tenants |-> [i \in Ids |-> NoDoc]]
  /\ owner = [i \in Ids |-> NoTenant]
  /\ pc = [s \in Slots |-> "idle"]
  /\ job = [s \in Slots |-> NoJob]
  /\ answer = [code |-> "None", doc |-> NoDoc]

-----------------------------------------------------------------------------
Respond(s, code, doc) ==
  /\ pc' = [pc EXCEPT ![s] = "idle"]
  /\ job' = [job EXCEPT ![s] = NoJob]
  /\ answer' = [code |-> code, doc |-> doc]

\* A call that writes to the database as Effect says and may fail: the error
\* can come before the write or, when the connection breaks, after it.
Failing(s, Effect) ==
  /\ Respond(s, "500", NoDoc)
  /\ Effect \/ UNCHANGED <<db, owner>>

\* The document that record i has in the session's namespace.
Stored(i) == db[ns][i]

\* Mutant of Replace: an UPSERT.
ReplaceUpsert(i, doc) ==
  /\ db' = [db EXCEPT ![ns][i] = doc]
  /\ UNCHANGED owner

\* UPDATE ... CONTENT: replaces a record that exists, never creates one.
Replace(i, doc) ==
  /\ db' = IF Stored(i) = NoDoc THEN db ELSE [db EXCEPT ![ns][i] = doc]
  /\ UNCHANGED owner

Remove(i) ==
  /\ db' = [db EXCEPT ![ns][i] = NoDoc]
  /\ UNCHANGED owner

\* CREATE under a new UUID.
Insert(s, i) ==
  /\ db' = [db EXCEPT ![ns][i] = job[s].doc]
  /\ owner' = [owner EXCEPT ![i] = job[s].tenant]

\* Ok(Some(doc)) => 200, Ok(None) => 404
Found(s, i, doc) ==
  IF Stored(i) = NoDoc THEN Respond(s, "404", NoDoc) ELSE Respond(s, "200", doc)

-----------------------------------------------------------------------------
Receive(s) ==
  /\ pc[s] = "idle"
  /\ \E j \in Requests : job' = [job EXCEPT ![s] = j]
  /\ pc' = [pc EXCEPT ![s] = "use_ns"]
  /\ UNCHANGED <<ns, db, owner, answer>>

\* Mutant of Target: the namespace is selected once per connection.
TargetOnce(s) == IF ns = NoTenant THEN job[s].tenant ELSE ns

Target(s) == job[s].tenant

\* db.use_ns(tenant_id).use_db("frappe").await
UseNs(s) ==
  /\ pc[s] = "use_ns"
  /\ \/ /\ ns' = Target(s)
        /\ pc' = [pc EXCEPT ![s] = IF job[s].op \in {"submit", "cancel"}
                                     THEN "select" ELSE "exec"]
        /\ UNCHANGED <<job, answer>>
     \/ /\ ns' \in {ns, job[s].tenant}
        /\ Respond(s, "500", NoDoc)
  /\ UNCHANGED <<db, owner>>

Exec(s, op) ==
  /\ pc[s] = "exec"
  /\ job[s].op = op
  /\ UNCHANGED ns

\* Without a fresh id left (a bound of the models) the call can only fail.
CreateDocument(s) ==
  /\ Exec(s, "create")
  /\ \/ \E i \in Ids :
          /\ owner[i] = NoTenant
          /\ Insert(s, i)
          /\ Respond(s, "201", job[s].doc) \/ Respond(s, "500", NoDoc)
     \/ Respond(s, "500", NoDoc) /\ UNCHANGED <<db, owner>>

GetDocument(s) ==
  /\ Exec(s, "get")
  /\ Found(s, job[s].id, Stored(job[s].id)) \/ Respond(s, "500", NoDoc)
  /\ UNCHANGED <<db, owner>>

UpdateDocument(s) ==
  /\ Exec(s, "update")
  /\ LET i == job[s].id
         Write == Replace(i, job[s].doc)
     IN  (Write /\ Found(s, i, job[s].doc)) \/ Failing(s, Write)

DeleteDocument(s) ==
  /\ Exec(s, "delete")
  /\ LET i == job[s].id
     IN  (Remove(i) /\ Found(s, i, Stored(i))) \/ Failing(s, Remove(i))

\* The docstatus that submit_document and cancel_document insert.
TargetStatus(op) == IF op = "submit" THEN 1 ELSE 2

\* Mutant of Lawful: no call of validate_transition.
LawfulAlways(i, new) == i \in HasSchema

\* The schema is in the registry, and allows the transition.
Lawful(i, new) == i \in HasSchema /\ ValidateTransition(Stored(i), new) = "Ok"

\* submit_document and cancel_document up to their write: select, look the
\* schema up, validate the transition on the selected document.
SelectDocument(s) ==
  /\ pc[s] = "select"
  /\ LET i == job[s].id
         new == WithStatus(Stored(i), TargetStatus(job[s].op))
     IN  \/ Stored(i) = NoDoc /\ Respond(s, "404", NoDoc)
         \/ Stored(i) # NoDoc /\ ~Lawful(i, new) /\ Respond(s, "400", NoDoc)
         \/ /\ Stored(i) # NoDoc /\ Lawful(i, new)
            /\ pc' = [pc EXCEPT ![s] = "write"]
            /\ job' = [job EXCEPT ![s].doc = new]
            /\ UNCHANGED answer
         \/ Respond(s, "500", NoDoc)
  /\ UNCHANGED <<ns, db, owner>>

\* Their write: db.update(...).content(new_doc_val).await
WriteStatus(s) ==
  /\ pc[s] = "write"
  /\ LET i == job[s].id
         Write == Replace(i, job[s].doc)
     IN  (Write /\ Found(s, i, job[s].doc)) \/ Failing(s, Write)
  /\ UNCHANGED ns

Handle(s) ==
  \/ UseNs(s)
  \/ CreateDocument(s) \/ GetDocument(s) \/ UpdateDocument(s)
  \/ DeleteDocument(s) \/ SelectDocument(s) \/ WriteStatus(s)

Next == \E s \in Slots : Receive(s) \/ Handle(s)

Spec == Init /\ [][Next]_vars

-----------------------------------------------------------------------------
TypeOK ==
  /\ ns \in Tenants \cup {NoTenant}
  /\ db \in [Tenants -> [Ids -> Documents \cup {NoDoc}]]
  /\ owner \in [Ids -> Tenants \cup {NoTenant}]
  /\ pc \in [Slots -> {"idle", "use_ns", "exec", "select", "write"}]
  /\ job \in [Slots -> Jobs \cup {NoJob}]
  /\ answer \in [code : Codes, doc : Documents \cup {NoDoc}]

(***************************************************************************)
(* Whatever requests are in flight, the records obey RecordStore: an id is *)
(* created once, lives in one namespace, is replaced only where it is, and *)
(* is never re-created by a late PUT, submit or cancel after a DELETE.     *)
(***************************************************************************)
Records ==
  INSTANCE RecordStore
    WITH Namespaces <- Tenants, store <- db,
         used <- {i \in Ids : owner[i] # NoTenant}

RecordsKept == Records!Spec

(***************************************************************************)
(* "Use specific SurrealDB namespace matching tenant_id" (routes.rs:50): a *)
(* stored document is in the namespace of the tenant that created it.      *)
(***************************************************************************)
OwnNamespace ==
  \A t \in Tenants, i \in Ids : db[t][i] # NoDoc => owner[i] = t

\* Job j as the client sent it, without the document prepared since.
Sent(j) == IF j.op \in {"submit", "cancel"} THEN [j EXCEPT !.doc = NoDoc] ELSE j

\* The request in flight; with one at a time there is no other.
InService == CHOOSE s \in Slots : job[s] # NoJob

Pending == IF \E s \in Slots : job[s] # NoJob THEN Sent(job[InService]) ELSE NoJob

(***************************************************************************)
(* Requests that arrive one at a time are served as DocumentStore says: in *)
(* one step each, on their own tenant, with a truthful answer.  The select *)
(* and the write of submit and cancel together are one step.               *)
(***************************************************************************)
Store ==
  INSTANCE DocumentStore
    WITH store <- db, used <- {i \in Ids : owner[i] # NoTenant},
         request <- Pending

ServedInOneStep == Store!Spec

\* What a step does to record i of namespace t, when it is there before and after.
Kept(t, i) == db[t][i] # NoDoc /\ db'[t][i] # NoDoc

(***************************************************************************)
(* A document that nobody PUTs is never taken from Draft to Cancelled, and *)
(* never back to Draft, by submit and cancel requests that race on it,     *)
(* although each validates a document it read earlier and writes later.    *)
(***************************************************************************)
NoSkippedSubmit ==
  [][\A t \in Tenants, i \in Ids \ PutIds :
       Kept(t, i) =>
         /\ StatusOf(db'[t][i]) = "Cancelled" => StatusOf(db[t][i]) # "Draft"
         /\ StatusOf(db'[t][i]) = "Draft" => StatusOf(db[t][i]) = "Draft"]_vars

(***************************************************************************)
(* The snapshot that a late submit or cancel writes back never changes a   *)
(* field other than docstatus of a document that nobody PUTs.              *)
(***************************************************************************)
ContentKept ==
  [][\A t \in Tenants, i \in Ids \ PutIds, k \in Keys \ {"docstatus"} :
       Kept(t, i) => db'[t][i][k] = db[t][i][k]]_vars
=============================================================================
