--------------------------- MODULE PureFunctions ---------------------------
(***************************************************************************)
(* The parts of the system that are functions of their arguments: a        *)
(* behaviour asks one of them about one argument, and the properties say   *)
(* what the answer has to be.                                              *)
(***************************************************************************)
EXTENDS PermissionEvaluator, PasetoAuth, TenantResolver, DatabaseClient,
        ScriptValues, PageBuilder

VARIABLES
  of,    \* the function that is asked, or "none"
  arg    \* its argument

Cases == [user : Users, doc : Docs, schema : Schemas]
HostPairs == [first : Hosts, second : Hosts]

Init == of = "none" /\ arg = 0

Ask(function, arguments) ==
  /\ of = "none"
  /\ of' = function
  /\ arg' \in arguments

Next ==
  \/ Ask("compile_ast", Layouts)
  \/ Ask("check_permission", Cases)
  \/ Ask("call", Requests)
  \/ Ask("get_list", Queries)
  \/ Ask("json_to_dynamic", Jsons)
  \/ Ask("tenant", HostPairs)

vars == <<of, arg>>

Spec == Init /\ [][Next]_vars

-----------------------------------------------------------------------------
(***************************************************************************)
(* compile_ast writes a page that reads back as the layout it was given,   *)
(* nested as it was, without what is below a self-closing tag and with the *)
(* attributes of each node that its names make, which are these names when *)
(* each is one word; it fails exactly when a node that has a place in the  *)
(* page is unsafe, and names the first one in document order, whatever is  *)
(* wrong behind it.                                                        *)
(***************************************************************************)
PagesReadBack == of = "compile_ast" => ParsesBack(arg) /\ BlocksFirst(arg)

(***************************************************************************)
(* "Returns true if at least one role of the user has the required         *)
(* permission" (permissions.rs:30): actions, rows and fields open to a     *)
(* user are those that each of the roles opens alone; no role, and no      *)
(* order of the DocPerms, takes anything away.                             *)
(***************************************************************************)
RolesAddUp ==
  of = "check_permission" => RolesSum(arg.user, arg.doc, arg.schema)

(***************************************************************************)
(* A request with a token that was made with the key of another call of    *)
(* get_paseto_key is served exactly when both calls found the same secret  *)
(* in the environment and the token is in order; never by fallback keys.   *)
(***************************************************************************)
TokensNeedSecret == of = "call" => NeedsSecret(arg)

(***************************************************************************)
(* The pages of get_list, read one after the other, are all the documents  *)
(* that match the filters, once each and in order, if the names are        *)
(* identifiers and no filter has the name of a paging parameter.           *)
(***************************************************************************)
PagesCoverList == of = "get_list" => PagesAreAll(arg)

(***************************************************************************)
(* A JSON value that goes into a script and comes back is the same, except *)
(* that integers beyond i64 come back as the floats next to them.          *)
(***************************************************************************)
ValuesSurvive == of = "json_to_dynamic" => ComesBack(arg)

(***************************************************************************)
(* The sites of a domain have tenants of their own, the same from the Host *)
(* header as from the TLS server name, with a port or without, and none is *)
(* the default tenant.                                                     *)
(***************************************************************************)
SitesKeptApart == of = "tenant" => KeptApart(arg.first, arg.second)
=============================================================================
