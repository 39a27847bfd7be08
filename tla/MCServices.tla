----------------------------- MODULE MCServices -----------------------------
(***************************************************************************)
(* A webhook job and callers of the Kubernetes orchestrator at the same    *)
(* time, for TLC.  The two share no state: whatever the one is at, the     *)
(* other may do its next step.                                             *)
(***************************************************************************)
EXTENDS WebhookWorker, PressOrchestrator

servicesVars == <<jobVars, siteVars>>

ServicesInit == JobInit /\ SiteInit

ServicesNext ==
  \/ JobNext /\ UNCHANGED siteVars
  \/ SiteNext /\ UNCHANGED jobVars

\* As in JobFairSpec; nothing is assumed of the callers and the cluster.
ServicesSpec ==
  ServicesInit /\ [][ServicesNext]_servicesVars /\ WF_jobVars(JobNext)
=============================================================================
