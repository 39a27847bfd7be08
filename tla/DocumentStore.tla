---------------------------- MODULE DocumentStore ----------------------------
(***************************************************************************)
(* What one client at a time sees of the document endpoints: a store of    *)
(* documents per tenant.  A request is served in one step, on the          *)
(* requester's own tenant, and its answer tells what happened; only after  *)
(* a 500 the client does not know whether the request took effect.         *)
(***************************************************************************)
EXTENDS DocLifecycle

CONSTANTS Tenants, Ids, HasSchema, Requests, NoDoc, NoJob

VARIABLES
  store,     \* store[t][i]: document i of tenant t
  used,      \* ids handed out so far
  request,   \* the request being served, or NoJob
  answer     \* the last answer

vars == <<store, used, request, answer>>

Init ==
  /\ store = [t \in Tenants |-> [i \in Ids |-> NoDoc]]
  /\ used = {}
  /\ request = NoJob
  /\ answer = [code |-> "None", doc |-> NoDoc]

Accept ==
  /\ request = NoJob
  /\ request' \in Requests
  /\ UNCHANGED <<store, used, answer>>

Mine == store[request.tenant][request.id]

Put(doc) == store' = [store EXCEPT ![request.tenant][request.id] = doc]

\* The answer says what took effect, or is a 500 and Effect may have happened.
Finish(code, doc, Effect, NoEffect) ==
  /\ request # NoJob
  /\ request' = NoJob
  /\ \/ Effect /\ answer' = [code |-> code, doc |-> doc]
     \/ (Effect \/ NoEffect) /\ answer' = [code |-> "500", doc |-> NoDoc]

Same == UNCHANGED <<store, used>>

Create ==
  /\ request # NoJob
  /\ request.op = "create"
  /\ \E i \in Ids \ used :
       Finish("201", request.doc,
              /\ store' = [store EXCEPT ![request.tenant][i] = request.doc]
              /\ used' = used \cup {i},
              Same)

On(op) == request # NoJob /\ request.op = op

Missing ==
  /\ request # NoJob
  /\ request.op # "create"
  /\ Mine = NoDoc
  /\ Finish("404", NoDoc, Same, Same)

Get == On("get") /\ Mine # NoDoc /\ Finish("200", Mine, Same, Same)

Update ==
  /\ On("update")
  /\ Mine # NoDoc
  /\ Finish("200", request.doc, Put(request.doc) /\ UNCHANGED used, Same)

Delete ==
  /\ On("delete")
  /\ Mine # NoDoc
  /\ Finish("200", Mine, Put(NoDoc) /\ UNCHANGED used, Same)

\* Submit and cancel obey the lifecycle of the document stored now.
SetStatus(op, n) ==
  /\ On(op)
  /\ Mine # NoDoc
  /\ LET new == WithStatus(Mine, n)
         legal == request.id \in HasSchema /\ ValidateTransition(Mine, new) = "Ok"
     IN  \/ legal /\ Finish("200", new, Put(new) /\ UNCHANGED used, Same)
         \/ ~legal /\ Finish("400", NoDoc, Same, Same)

\* No connection: nothing was tried.
Refuse ==
  /\ request # NoJob
  /\ request' = NoJob
  /\ answer' = [code |-> "500", doc |-> NoDoc]
  /\ Same

Next ==
  \/ Accept \/ Refuse \/ Create \/ Missing \/ Get \/ Update \/ Delete
  \/ SetStatus("submit", 1) \/ SetStatus("cancel", 2)

Spec == Init /\ [][Next]_vars
=============================================================================
