------------------------------ MODULE H3Server ------------------------------
(***************************************************************************)
(* The UDP loop of crates/frappe-net/src/h3_server.rs: one task that       *)
(* selects between the idle sweep and the next datagram, and a second task *)
(* that answers requests.                                                  *)
(*                                                                         *)
(* quiche is external: a datagram may be rejected, may complete the        *)
(* handshake, may bring HTTP/3 events and may end the connection; its      *)
(* timers only run when the sweep calls on_timeout.  An event is           *)
(* <<kind, stream>>.  A client is named by what its datagrams say of it;   *)
(* any datagram may carry any destination connection id.                   *)
(***************************************************************************)
EXTENDS Naturals, Sequences

CONSTANTS
  Clients,
  Cids,        \* connection ids
  Scid,        \* Scid[c]: source connection id in client c's headers
  SniTenant,   \* SniTenant[c]: tenant that the server name c asks for resolves to
  Default,     \* "default_site"
  MaxStreams,  \* bound of the models: requests on a connection
  None

VARIABLES
  conns,       \* conns[d]: the ConnectionState under d, or None
  tenant_map,  \* tenant_map[d]: the tenant resolved for d, or None
  loop,        \* where the loop is: "select", "poll" or "reply"
  dcid,        \* the connection it is busy with
  request,     \* the H3Request in the channel to the second task
  response     \* the H3Response in the channel back

vars == <<conns, tenant_map, loop, dcid, request, response>>

Streams == 1..MaxStreams
Events == {"headers", "data", "finished", "reset"} \X Streams

\* answered: the streams a response was handed to quiche for.
ConnectionState ==
  [client : Clients, scid : Cids, h3 : BOOLEAN, opened : 0..MaxStreams,
   phase : {"handshake", "established", "closed"},
   events : Seq(Events), answered : SUBSET Streams]

H3Requests == [dcid : Cids, stream : Streams, tenant : {Default} \cup {SniTenant[c] : c \in Clients}]

ASSUME H3Assumption ==
  /\ Scid \in [Clients -> Cids]
  /\ MaxStreams \in Nat
  /\ None \notin Streams /\ None \notin ConnectionState /\ None \notin H3Requests
  /\ None # Default /\ \A c \in Clients : None # SniTenant[c]

Init ==
  /\ conns = [d \in Cids |-> None]
  /\ tenant_map = [d \in Cids |-> None]
  /\ loop = "select"
  /\ dcid \in Cids
  /\ request = None
  /\ response = None

\* quiche::accept(&scid, Some(&dcid), ..): the server's source connection id
\* is the client's.
Accepted(c) ==
  [client |-> c, scid |-> Scid[c], h3 |-> FALSE, opened |-> 0,
   phase |-> "handshake", events |-> << >>, answered |-> {}]

\* server_name() is read before the first recv: there is no name yet.
ServerName(c) == None

Resolve(c) == IF ServerName(c) = None THEN Default ELSE SniTenant[c]

Get(n) == << <<"headers", n>>, <<"finished", n>> >>
GetTwo(n) == << <<"headers", n>>, <<"finished", n>>, <<"headers", n + 1>>, <<"finished", n + 1>> >>
Post(n) == << <<"headers", n>>, <<"data", n>> >>
Reset(n) == << <<"headers", n>>, <<"reset", n>> >>

\* What a datagram may bring: a request without a body, one with a body (it
\* is never read, so quiche never reports its end), one that its client gives
\* up, two requests at once.  Trailers, a second Headers event on the stream
\* of a request, are left out.
Arrivals(n) ==
  { [events |-> << >>, requests |-> 0], [events |-> Get(n), requests |-> 1],
    [events |-> Post(n), requests |-> 1], [events |-> Reset(n), requests |-> 1],
    [events |-> GetTwo(n), requests |-> 2] }

\* quiche::Connection::recv by an established connection, or one that it
\* establishes.
Received(s) ==
  {[s EXCEPT !.phase = "established", !.events = @ \o a.events, !.opened = @ + a.requests]
     : a \in {b \in Arrivals(s.opened + 1) : s.opened + b.requests <= MaxStreams}}

\* recv returns Ok, unless the datagram is not of this connection.
RecvOk(c, s) ==
  IF s.client # c \/ s.phase = "closed" THEN {}
  ELSE Received(s) \cup {s, [s EXCEPT !.phase = "closed"]}

\* A datagram of client c with destination id d; one without a QUIC header
\* changes nothing.  After an error of recv, which may close the connection,
\* the loop goes on: no flush, no check for a closed connection.
Receive(c, d) ==
  LET known == conns[d] # None
      state == IF known THEN conns[d] ELSE Accepted(c)
  IN /\ loop = "select"
     /\ tenant_map' = IF known THEN tenant_map
                      ELSE [tenant_map EXCEPT ![d] = Resolve(c)]
     /\ \/ /\ \E s \in RecvOk(c, state) : conns' = [conns EXCEPT ![d] = s]
           /\ loop' = "poll"
           /\ dcid' = d
        \/ /\ \E phase \in {state.phase, "closed"} :
                conns' = [conns EXCEPT ![d] = [state EXCEPT !.phase = phase]]
           /\ UNCHANGED <<loop, dcid>>
     /\ UNCHANGED <<request, response>>

\* conns.retain: the connections that on_timeout finds expired, and those
\* that were closed before.
Expired == {{d} : d \in Cids} \cup {{}}

SweptOut(x) == {d \in Cids : conns[d] # None /\ (d \in x \/ conns[d].phase = "closed")}

\* Mutant of Sweep: tenant_map is not swept.
SweepConns(x) ==
  /\ loop = "select"
  /\ conns' = [d \in Cids |-> IF d \in SweptOut(x) THEN None ELSE conns[d]]
  /\ UNCHANGED <<tenant_map, loop, dcid, request, response>>

\* Mutant of Sweep: only what expires now is removed.
SweepExpired(x) ==
  /\ loop = "select"
  /\ conns' = [d \in Cids |-> IF d \in x THEN None ELSE conns[d]]
  /\ tenant_map' = [d \in Cids |-> IF d \in x THEN None ELSE tenant_map[d]]
  /\ UNCHANGED <<loop, dcid, request, response>>

Sweep(x) ==
  /\ loop = "select"
  /\ conns' = [d \in Cids |-> IF d \in SweptOut(x) THEN None ELSE conns[d]]
  /\ tenant_map' = [d \in Cids |-> IF d \in SweptOut(x) THEN None ELSE tenant_map[d]]
  /\ UNCHANGED <<loop, dcid, request, response>>

-----------------------------------------------------------------------------
Polling == loop = "poll" /\ conns[dcid].h3 /\ conns[dcid].phase = "established"

NextEvent == Head(conns[dcid].events)

\* with_transport, on the first datagram after the handshake.
StartH3 ==
  /\ loop = "poll" /\ conns[dcid].phase = "established" /\ ~conns[dcid].h3
  /\ conns' = [conns EXCEPT ![dcid].h3 = TRUE]
  /\ UNCHANGED <<tenant_map, loop, dcid, request, response>>

\* A Headers event: the request goes to the second task with the tenant.
PollHeaders ==
  /\ Polling
  /\ conns[dcid].events # << >> /\ NextEvent[1] = "headers"
  /\ conns' = [conns EXCEPT ![dcid].events = Tail(@)]
  /\ request' = [dcid |-> dcid, stream |-> NextEvent[2], tenant |-> tenant_map[dcid]]
  /\ loop' = "reply"
  /\ UNCHANGED <<tenant_map, dcid, response>>

\* A Data event, and any other in the last arm, changes nothing.
PollData ==
  /\ Polling
  /\ conns[dcid].events # << >> /\ NextEvent[1] \in {"data", "reset"}
  /\ conns' = [conns EXCEPT ![dcid].events = Tail(@)]
  /\ UNCHANGED <<tenant_map, loop, dcid, request, response>>

\* Everything quiche has to send is sent; a closed connection is removed.
FlushTo(state) ==
  /\ conns' = [conns EXCEPT ![dcid] = IF state.phase = "closed" THEN None ELSE state]
  /\ tenant_map' = [tenant_map EXCEPT ![dcid] = IF state.phase = "closed" THEN None ELSE @]
  /\ loop' = "select"
  /\ UNCHANGED <<dcid, request, response>>

\* Mutant of PollFinished: what was not polled yet is thrown away.
PollClears ==
  /\ Polling
  /\ conns[dcid].events # << >> /\ NextEvent[1] = "finished"
  /\ FlushTo([conns[dcid] EXCEPT !.events = << >>])

\* A Finished event ends the polling: later events stay in quiche.
PollFinished ==
  /\ Polling
  /\ conns[dcid].events # << >> /\ NextEvent[1] = "finished"
  /\ FlushTo([conns[dcid] EXCEPT !.events = Tail(@)])

\* Mutant of PollDone: the loop goes on polling.
PollSpins ==
  /\ loop = "poll"
  /\ UNCHANGED vars

\* Nothing to poll: Done, or no HTTP/3 connection (with_transport may fail).
PollDone ==
  /\ loop = "poll"
  /\ \/ ~Polling
     \/ Polling /\ conns[dcid].events = << >>
  /\ FlushTo(conns[dcid])

PollError == Polling /\ FlushTo(conns[dcid])

\* The second task: every request is answered.
Serve ==
  /\ request # None
  /\ response' = request.stream
  /\ request' = None
  /\ UNCHANGED <<conns, tenant_map, loop, dcid>>

\* resp_rx.recv() returns: send_response and send_body, errors ignored.
Reply ==
  /\ loop = "reply" /\ response # None
  /\ conns' = [conns EXCEPT ![dcid].answered = @ \cup {response}]
  /\ response' = None
  /\ loop' = "poll"
  /\ UNCHANGED <<tenant_map, dcid, request>>

LoopStep == StartH3 \/ PollHeaders \/ PollData \/ PollFinished \/ PollDone \/ Reply

AnySweep == \E x \in Expired : Sweep(x)

Next ==
  \/ \E c \in Clients, d \in Cids : Receive(c, d)
  \/ AnySweep
  \/ LoopStep
  \/ PollError
  \/ Serve

Spec == Init /\ [][Next]_vars

(***************************************************************************)
(* The loop and the second task are never blocked; select! chooses a       *)
(* branch at random among the ready ones, so that the interval's tick is   *)
(* taken again and again however many datagrams arrive.                    *)
(***************************************************************************)
FairSpec == Spec /\ WF_vars(LoopStep) /\ WF_vars(Serve) /\ SF_vars(AnySweep)

-----------------------------------------------------------------------------
TypeOK ==
  /\ conns \in [Cids -> ConnectionState \cup {None}]
  /\ tenant_map \in [Cids -> {Default, None} \cup {SniTenant[c] : c \in Clients}]
  /\ loop \in {"select", "poll", "reply"}
  /\ dcid \in Cids
  /\ request \in H3Requests \cup {None}
  /\ response \in Streams \cup {None}
  /\ loop # "select" => conns[dcid] # None
  /\ loop = "reply" <=> request # None \/ response # None
  /\ request = None \/ response = None

(***************************************************************************)
(* conns and tenant_map have the same keys: no tenant outlives its         *)
(* connection, to be given to the next one under the same id.              *)
(***************************************************************************)
TenantsOfConns == \A d \in Cids : conns[d] = None <=> tenant_map[d] = None

\* The requests that are announced by es and have not been polled.
Waiting(es) == {n \in Streams : \E i \in 1..Len(es) : es[i] = <<"headers", n>>}

InService(d) ==
  IF loop # "reply" \/ dcid # d THEN {}
  ELSE {IF request # None THEN request.stream ELSE response}

\* The requests of s are either waiting, in service or answered.
Accounted(s, serving) ==
  /\ 1..s.opened = Waiting(s.events) \cup serving \cup s.answered
  /\ Waiting(s.events) \cap serving = {}
  /\ s.answered \cap (Waiting(s.events) \cup serving) = {}

(***************************************************************************)
(* Every request of a live connection is exactly one of: not polled yet,   *)
(* in service, answered.  The loop polls one connection at a time, stops   *)
(* in the middle, and answers from another task; nothing gets lost, is     *)
(* answered twice, or is answered on another stream or connection.         *)
(***************************************************************************)
RequestsAccounted ==
  \A d \in Cids : conns[d] # None => Accounted(conns[d], InService(d))

(***************************************************************************)
(* The loop gets back to its select: neither a connection's events nor the *)
(* wait for the second task hold it.                                       *)
(***************************************************************************)
LoopReturns == loop # "select" ~> loop = "select"

(***************************************************************************)
(* A closed connection is removed, even when the error that closed it made *)
(* the loop skip its own check.                                            *)
(***************************************************************************)
ClosedRemoved ==
  \A d \in Cids : conns[d] # None /\ conns[d].phase = "closed" ~>
                  conns[d] = None \/ conns[d].phase # "closed"
=============================================================================
