-------------------------------- MODULE Server --------------------------------
(***************************************************************************)
(* The document endpoints together with POST /press/provision: a           *)
(* provision_tenant (crates/frappe-net/src/routes.rs) defines a tenant's   *)
(* namespace, selects it on the session that the document requests use     *)
(* too, loads the schemas from disk into a registry of its own             *)
(* (crates/frappe-meta/src/registry.rs) and syncs a table for each.  What  *)
(* one sync does to one table is in SchemaSync, which reads the table and  *)
(* alters it at two awaits; here it is one step.                           *)
(***************************************************************************)
EXTENDS DocumentRoutes, FiniteSets

CONSTANTS
  Provisions,   \* requests to provision a tenant
  Files,        \* schema files: records with a doctype and a version
  InFlight      \* bound: requests of both kinds in flight together

ASSUME ServerAssumption ==
  /\ InFlight \in Nat
  /\ Slots \cap Provisions = {}

Doctypes == {f.doctype : f \in Files}

VARIABLES
  defined,   \* tenants whose namespace and database have been defined
  tables,    \* tables[t][d]: versions the fields of table d in t come from
  prov       \* prov[p]: the handler of request p

provVars == <<defined, tables, prov>>
routeVars == <<db, owner, pc, job, answer>>
serverVars == <<vars, provVars>>

Done == {"200", "401", "403", "500"}

ServerInit ==
  /\ Init
  /\ defined = {}
  /\ tables = [t \in Tenants |-> [d \in Doctypes |-> {}]]
  /\ prov = [p \in Provisions |->
       [at |-> "idle", tenant |-> NoTenant, schemas |-> {}, todo |-> {}, failed |-> {}]]

Busy == {s \in Slots : pc[s] # "idle"}
          \cup {p \in Provisions : prov[p].at \notin Done \cup {"idle"}}

Reply(p, code) == prov' = [prov EXCEPT ![p].at = code]

-----------------------------------------------------------------------------
\* The roles in the request's claims decide; without claims it is a 401.
ReceiveProvision(p) ==
  /\ prov[p].at = "idle"
  /\ \/ \E t \in Tenants :
          prov' = [prov EXCEPT ![p].at = "define", ![p].tenant = t]
     \/ \E code \in {"401", "403"} : Reply(p, code)
  /\ UNCHANGED <<ns, defined, tables>>

\* Mutant of Definable: DEFINE ... IF NOT EXISTS.
DefinableAgain(t) == TRUE

\* SurrealDB (3.0.5 in Cargo.toml) is external: since version 2 DEFINE fails on
\* what exists.
Definable(t) == t \notin defined

\* Mutant of Define: the answer is not looked at, without res.check().
DefineUnchecked(p) ==
  /\ prov[p].at = "define"
  /\ LET t == prov[p].tenant IN
     /\ ns' \in {ns, t}
     /\ Reply(p, "use_ns") /\ defined' = defined \cup {t}
  /\ UNCHANGED tables

\* The query: DEFINE NAMESPACE and DATABASE, USE, DEFINE USER.  A statement
\* that fails does not stop the others, and the answer is an error then.  The
\* USE in it may or may not stay with the session.
Define(p) ==
  /\ prov[p].at = "define"
  /\ LET t == prov[p].tenant IN
     /\ ns' \in {ns, t}
     /\ \/ Definable(t) /\ Reply(p, "use_ns") /\ defined' = defined \cup {t}
        \/ Reply(p, "500") /\ defined' \in {defined, defined \cup {t}}
  /\ UNCHANGED tables

\* Mutant of Crawled: schemas are kept by path.
CrawledByPath == SUBSET Files

\* What crawl_and_load_schemas can leave in a registry: a file that cannot be
\* read or parsed is left out, of those that name the same doctype the one
\* whose read is completed last stays.
Crawled ==
  {R \in SUBSET Files : \A f, g \in R : f.doctype = g.doctype => f = g}

\* Mutant of Selected: the session keeps its namespace.
SelectedOnce(p) == ns' = IF ns = NoTenant THEN prov[p].tenant ELSE ns

Selected(p) == ns' = prov[p].tenant

\* db.use_ns(&tenant_id).use_db("frappe").await, then the crawl.
SwitchNs(p) ==
  /\ prov[p].at = "use_ns"
  /\ \/ /\ Selected(p)
        /\ \E R \in Crawled :
             prov' = [prov EXCEPT ![p].at = "sync", ![p].schemas = R, ![p].todo = R]
     \/ Reply(p, "500") /\ ns' \in {ns, prov[p].tenant}
  /\ UNCHANGED <<defined, tables>>

\* An error of sync_schema is logged.
Failure(p, f) ==
  prov' = [prov EXCEPT ![p].todo = @ \ {f}, ![p].failed = @ \cup {f}]

\* The transaction, in the session's namespace: what the table had is dropped,
\* or kept when sync_schema took it for a new one.
Altered(f) ==
  \E kept \in {{}, tables[ns][f.doctype]} :
    tables' = [tables EXCEPT ![ns][f.doctype] = kept \cup {f.version}]

\* manager.sync_schema(&schema).await; the transaction of one that fails may
\* have been committed, when only its answer was lost.
Sync(p) ==
  /\ prov[p].at = "sync"
  /\ \E f \in prov[p].todo :
       \/ Altered(f) /\ prov' = [prov EXCEPT ![p].todo = @ \ {f}]
       \/ (Altered(f) \/ UNCHANGED tables) /\ Failure(p, f)
  /\ UNCHANGED <<ns, defined>>

Succeed(p) ==
  /\ prov[p].at = "sync"
  /\ prov[p].todo = {}
  /\ Reply(p, "200")
  /\ UNCHANGED <<ns, defined, tables>>

HandleProvision(p) == Define(p) \/ SwitchNs(p) \/ Sync(p) \/ Succeed(p)

ServerNext ==
  \/ /\ Cardinality(Busy) < InFlight
     /\ \/ \E s \in Slots : Receive(s) /\ UNCHANGED provVars
        \/ \E p \in Provisions : ReceiveProvision(p) /\ UNCHANGED routeVars
  \/ \E s \in Slots : Handle(s) /\ UNCHANGED provVars
  \/ \E p \in Provisions : HandleProvision(p) /\ UNCHANGED routeVars

ServerSpec == ServerInit /\ [][ServerNext]_serverVars

-----------------------------------------------------------------------------
ServerTypeOK ==
  /\ defined \subseteq Tenants
  /\ tables \in [Tenants -> [Doctypes -> SUBSET {f.version : f \in Files}]]
  /\ \A p \in Provisions :
       /\ prov[p].at \in Done \cup {"idle", "define", "use_ns", "sync"}
       /\ prov[p].tenant \in Tenants \cup {NoTenant}
       /\ prov[p].schemas \in Crawled
       /\ prov[p].failed \subseteq prov[p].schemas
       /\ prov[p].todo \subseteq prov[p].schemas \ prov[p].failed

(***************************************************************************)
(* A provision that answers "provisioned successfully" (routes.rs:209) has *)
(* synced every schema it loaded in the namespace it switched to for that  *)
(* (routes.rs:188), or logged its error.  So it is with one request at a   *)
(* time; with another one in flight it is not.                             *)
(***************************************************************************)
SuccessIsComplete ==
  \A p \in Provisions :
    prov[p].at = "200" =>
      \A f \in prov[p].schemas \ prov[p].failed :
        f.version \in tables[prov[p].tenant][f.doctype]

(***************************************************************************)
(* With one request at a time, no table of a tenant mixes two versions of  *)
(* a doctype, although the directory may hold several: a provision brings  *)
(* one (lines 51-57 of registry.rs), also when it fails after its effect,  *)
(* and no tenant gets the tables of two provisions.  Two tenants may get   *)
(* different versions.                                                     *)
(***************************************************************************)
OneVersion ==
  \A t \in Tenants, d \in Doctypes : Cardinality(tables[t][d]) <= 1

(***************************************************************************)
(* However many provisions overlap, a tenant is provisioned with success   *)
(* at most once.                                                           *)
(***************************************************************************)
OneSuccess ==
  \A p, q \in Provisions :
    prov[p].at = "200" /\ prov[q].at = "200" /\ prov[p].tenant = prov[q].tenant => p = q

(***************************************************************************)
(* A provision that arrives when the tenant's namespace is defined, be it  *)
(* by one that succeeded, failed half way or is still running, never gets  *)
(* to the tenant's tables and never reports success: not even a retry of   *)
(* one that failed after it had defined the namespace.                     *)
(***************************************************************************)
RetriesFail ==
  \A p \in Provisions, t \in Tenants :
    [](prov[p].at = "idle" /\ t \in defined =>
         [](prov[p].at \in {"use_ns", "sync", "200"} => prov[p].tenant # t))
===============================================================================
