-------------------------- MODULE PressOrchestrator --------------------------
(***************************************************************************)
(* crates/frappe-drive/src/press_orchestrator.rs: calls that provision,    *)
(* deprovision and look at the Kubernetes site of one tenant; the sites of *)
(* different tenants share nothing.  The cluster is external: creating     *)
(* what exists is a conflict, nothing is created in a namespace that is    *)
(* not active, a deleted namespace terminates, loses its contents in any   *)
(* order and is gone, and a deployment's pods come and go.                 *)
(***************************************************************************)
EXTENDS Naturals

CONSTANTS
  Provisions,     \* callers of provision_tenant_site
  Deprovisions,   \* callers of deprovision_tenant_site
  MaxLives        \* bound: how often the namespace is created

ASSUME OrchestratorAssumption == MaxLives \in Nat

Replicas == 2

VARIABLES
  namespace,   \* "absent", "active" or "terminating"
  contents,    \* what exists in it: "service", "deployment"
  pods,        \* ready pods of the deployment
  pc,          \* pc[p]: the call p waits for, or its result
  lives,       \* history: namespaces created so far
  winners,     \* history: Ok results since the last one was created
  disturbed,   \* history: the namespace was deleted since p created it
  crossed      \* history: a disturbed call has created something in this one

cluster == <<namespace, contents, pods>>
history == <<lives, winners, disturbed, crossed>>
siteVars == <<cluster, pc, history>>

SiteInit ==
  /\ namespace = "absent" /\ contents = {} /\ pods = 0
  /\ pc = [p \in Provisions \cup Deprovisions |-> "idle"]
  /\ lives = 0 /\ winners = 0
  /\ disturbed = [p \in Provisions |-> FALSE] /\ crossed = FALSE

Return(p, result) == pc' = [pc EXCEPT ![p] = result]

-----------------------------------------------------------------------------
(* provision_tenant_site: three create calls, each ended early by ?  *)

Provision(p) ==
  /\ pc[p] \in {"idle", "ok", "err"}
  /\ Return(p, "namespace")
  /\ UNCHANGED <<cluster, history>>

\* A refusal, or a broken connection before the effect.
CreateFails(p) ==
  /\ pc[p] \in {"namespace", "service", "deployment"}
  /\ Return(p, "err")
  /\ UNCHANGED <<cluster, history>>

Order == <<"service", "deployment">>

\* Mutant of After: success after the first call.
AfterOne(kind) == "ok"

After(kind) == IF kind = Order[1] THEN Order[2] ELSE "ok"

\* Mutant of Free: a namespace that exists is taken, and the call succeeds.
FreeOrActive == namespace \in {"absent", "active"}

Free == namespace = "absent"

\* Mutant of Creatable: what exists is replaced, and the call succeeds.
CreatableTwice(kind) == namespace = "active"

Creatable(kind) == namespace = "active" /\ kind \notin contents

\* The connection may also break after the effect.
CreateNamespace(p) ==
  /\ pc[p] = "namespace"
  /\ Free /\ lives < MaxLives
  /\ namespace' = "active"
  /\ lives' = lives + 1 /\ winners' = 0 /\ crossed' = FALSE
  /\ disturbed' = [disturbed EXCEPT ![p] = FALSE]
  /\ Return(p, Order[1]) \/ Return(p, "err")
  /\ UNCHANGED <<contents, pods>>

Create(p, kind) ==
  /\ pc[p] = kind
  /\ Creatable(kind)
  /\ contents' = contents \cup {kind}
  /\ Return(p, After(kind)) \/ Return(p, "err")
  /\ winners' = IF pc'[p] = "ok" THEN winners + 1 ELSE winners
  /\ crossed' = (crossed \/ disturbed[p])
  /\ UNCHANGED <<namespace, pods, lives, disturbed>>

-----------------------------------------------------------------------------
Deprovision(p) ==
  /\ pc[p] \in {"idle", "ok", "err"}
  /\ Return(p, "delete")
  /\ UNCHANGED <<cluster, history>>

DeleteNamespace(p) ==
  /\ pc[p] = "delete"
  /\ \/ /\ namespace # "absent"
        /\ namespace' = "terminating"
        /\ disturbed' = [q \in Provisions |-> TRUE]
        /\ Return(p, "ok") \/ Return(p, "err")
     \/ Return(p, "err") /\ UNCHANGED <<namespace, disturbed>>
  /\ UNCHANGED <<contents, pods, lives, winners, crossed>>

\* What check_tenant_site_status reports as ready, from one read.
Ready == "deployment" \in contents /\ pods = Replicas

-----------------------------------------------------------------------------
(* The cluster's controllers *)

ScalePods ==
  /\ "deployment" \in contents
  /\ pods' \in 0..Replicas \ {pods}
  /\ UNCHANGED <<namespace, contents, pc, history>>

RemoveContents ==
  /\ namespace = "terminating"
  /\ \E kind \in contents : contents' = contents \ {kind}
  /\ pods' = IF "deployment" \in contents' THEN pods ELSE 0
  /\ UNCHANGED <<namespace, pc, history>>

Finalize ==
  /\ namespace = "terminating" /\ contents = {}
  /\ namespace' = "absent"
  /\ UNCHANGED <<contents, pods, pc, history>>

SiteNext ==
  \/ \E p \in Provisions :
       \/ Provision(p) \/ CreateFails(p) \/ CreateNamespace(p)
       \/ \E kind \in {"service", "deployment"} : Create(p, kind)
  \/ \E p \in Deprovisions : Deprovision(p) \/ DeleteNamespace(p)
  \/ ScalePods \/ RemoveContents \/ Finalize

SiteSpec == SiteInit /\ [][SiteNext]_siteVars

-----------------------------------------------------------------------------
SiteTypeOK ==
  /\ namespace \in {"absent", "active", "terminating"}
  /\ contents \subseteq {"service", "deployment"}
  /\ namespace = "absent" => contents = {}
  /\ pods \in 0..Replicas
  /\ pc \in [Provisions \cup Deprovisions ->
              {"idle", "namespace", "service", "deployment", "delete", "ok", "err"}]
  /\ lives \in 0..MaxLives
  /\ winners \in Nat
  /\ disturbed \in [Provisions -> BOOLEAN]
  /\ crossed \in BOOLEAN

(***************************************************************************)
(* However many calls provision the tenant at the same time, fail or run   *)
(* on into a namespace that was deleted and created again: between two     *)
(* creations of the namespace at most one of them returns Ok.              *)
(***************************************************************************)
OneWinner == winners <= 1

(***************************************************************************)
(* A provision that returned Ok has left a complete site, and keeps it     *)
(* until it is deprovisioned, unless a call that began before an earlier   *)
(* deprovision has created part of it.                                     *)
(***************************************************************************)
OkIsComplete ==
  winners > 0 /\ namespace = "active" /\ ~crossed =>
    contents = {"service", "deployment"}

(***************************************************************************)
(* A site that check_tenant_site_status calls ready can be reached: the    *)
(* service is there before the deployment, with the same exception.        *)
(***************************************************************************)
ReadyIsReachable ==
  Ready /\ namespace = "active" /\ ~crossed => "service" \in contents

\* No call is left that would complete the site.
Abandoned ==
  /\ namespace = "active" /\ winners = 0
  /\ \A p \in Provisions : pc[p] \notin {"service", "deployment"}

(***************************************************************************)
(* A site whose provision failed half way stays as it is, and every retry  *)
(* fails, until it is deprovisioned (each create is ended by ?).           *)
(***************************************************************************)
AbandonedUntilDeleted ==
  [][Abandoned => \/ namespace' = "terminating"
                  \/ Abandoned' /\ contents' = contents]_siteVars
=============================================================================
