------------------------------ MODULE SseEvents ------------------------------
(***************************************************************************)
(* Server-sent events, crates/frappe-net/src/sse.rs: a broadcast channel   *)
(* of Capacity events, and for every connection a task that forwards the   *)
(* events of its tenant and topic into a queue of QueueSize messages that  *)
(* the response body drains.                                               *)
(*                                                                         *)
(* An event is named by its position in the log of published events.  The  *)
(* channel holds the last Capacity positions; a receiver that is further   *)
(* behind gets Lagged.  The greeting of a connection has position 0.       *)
(***************************************************************************)
EXTENDS Naturals, Sequences

CONSTANTS
  Conns,       \* connections
  Tenants,
  Topics,
  AnyTopic,    \* a subscription without ?topic=
  Capacity,    \* of the broadcast channel (1024)
  QueueSize,   \* of the mpsc channel (100)
  MaxEvents    \* bound of the models: events published

ASSUME SseAssumption ==
  /\ Capacity \in Nat \ {0}
  /\ QueueSize \in Nat \ {0}
  /\ MaxEvents \in Nat
  /\ AnyTopic \notin Topics

VARIABLES
  log,     \* the events published so far
  filter,  \* filter[c]: the tenant and topic of connection c
  task,    \* task[c]: where the forwarding task of c is
  since,   \* since[c]: last position published before c subscribed
  next,    \* next[c]: last position c's receiver has taken
  queued,  \* queued[c]: positions put into the mpsc channel, oldest first
  read,    \* read[c]: how many of them the client has read
  gone     \* gone[c]: the response body, hence the mpsc receiver, is dropped

vars == <<log, filter, task, since, next, queued, read, gone>>

Events == [tenant : Tenants, topic : Topics]
Filters == [tenant : Tenants, topic : Topics \cup {AnyTopic}]

Init ==
  /\ log = << >>
  /\ filter \in [Conns -> Filters]
  /\ task = [c \in Conns |-> "none"]
  /\ since = [c \in Conns |-> 0]
  /\ next = [c \in Conns |-> 0]
  /\ queued = [c \in Conns |-> << >>]
  /\ read = [c \in Conns |-> 0]
  /\ gone = [c \in Conns |-> FALSE]

Matches(c, p) ==
  /\ log[p].tenant = filter[c].tenant
  /\ filter[c].topic \in {AnyTopic, log[p].topic}

Lagged(c) == Len(log) - next[c] > Capacity

HasRoom(c) == Len(queued[c]) - read[c] < QueueSize

-----------------------------------------------------------------------------
\* EventBroadcaster::publish; it never waits for a receiver.
Publish ==
  /\ Len(log) < MaxEvents
  /\ \E e \in Events : log' = Append(log, e)
  /\ UNCHANGED <<filter, task, since, next, queued, read, gone>>

\* sse_handler: subscribe at the tail, spawn the task, return the response.
Connect(c) ==
  /\ task[c] = "none"
  /\ task' = [task EXCEPT ![c] = "greet"]
  /\ since' = [since EXCEPT ![c] = Len(log)]
  /\ next' = [next EXCEPT ![c] = Len(log)]
  /\ UNCHANGED <<log, filter, queued, read, gone>>

\* Mutants of Send: try_send, whose Full error ends the task; try_send, whose
\* error is ignored; and a send whose error is ignored.
SendOrQuit(c, p) ==
  /\ task' = [task EXCEPT ![c] = IF gone[c] \/ ~HasRoom(c) THEN "done" ELSE "recv"]
  /\ queued' = IF gone[c] \/ ~HasRoom(c) THEN queued
                 ELSE [queued EXCEPT ![c] = Append(@, p)]
  /\ UNCHANGED <<log, filter, since, next, read, gone>>

SendOrDrop(c, p) ==
  /\ task' = [task EXCEPT ![c] = "recv"]
  /\ queued' = IF gone[c] \/ ~HasRoom(c) THEN queued
                 ELSE [queued EXCEPT ![c] = Append(@, p)]
  /\ UNCHANGED <<log, filter, since, next, read, gone>>

SendIgnoringError(c, p) ==
  /\ gone[c] \/ HasRoom(c)
  /\ task' = [task EXCEPT ![c] = "recv"]
  /\ queued' = IF gone[c] THEN queued ELSE [queued EXCEPT ![c] = Append(@, p)]
  /\ UNCHANGED <<log, filter, since, next, read, gone>>

\* tx.send(p).await: waits for room, ends the task when the client is gone.
Send(c, p) ==
  /\ \/ /\ gone[c]
        /\ task' = [task EXCEPT ![c] = "done"]
        /\ UNCHANGED queued
     \/ /\ ~gone[c]
        /\ HasRoom(c)
        /\ queued' = [queued EXCEPT ![c] = Append(@, p)]
        /\ task' = [task EXCEPT ![c] = "recv"]
  /\ UNCHANGED <<log, filter, since, next, read, gone>>

Greet(c) == task[c] = "greet" /\ Send(c, 0)

\* The event taken last.
Forward(c) == task[c] = "send" /\ Send(c, next[c])

\* Mutant of Recv: the events of every tenant and topic are forwarded.
RecvUnfiltered(c) ==
  /\ task[c] = "recv"
  /\ next[c] < Len(log)
  /\ next' = [next EXCEPT ![c] = @ + 1]
  /\ task' = [task EXCEPT ![c] = "send"]
  /\ UNCHANGED <<log, filter, since, queued, read, gone>>

\* Mutant of Recv: a lagging receiver goes on with the oldest event kept.
RecvSkipping(c) ==
  /\ task[c] = "recv"
  /\ next[c] < Len(log)
  /\ next' = [next EXCEPT ![c] = 1 + IF Lagged(c) THEN Len(log) - Capacity ELSE @]
  /\ task' = [task EXCEPT ![c] = IF Matches(c, next'[c]) THEN "send" ELSE "recv"]
  /\ UNCHANGED <<log, filter, since, queued, read, gone>>

\* while let Ok(event) = rx.recv().await: Lagged ends the loop and the task.
Recv(c) ==
  /\ task[c] = "recv"
  /\ next[c] < Len(log)
  /\ \/ /\ Lagged(c)
        /\ task' = [task EXCEPT ![c] = "done"]
        /\ UNCHANGED next
     \/ /\ ~Lagged(c)
        /\ next' = [next EXCEPT ![c] = @ + 1]
        /\ task' = [task EXCEPT ![c] = IF Matches(c, next[c] + 1) THEN "send" ELSE "recv"]
  /\ UNCHANGED <<log, filter, since, queued, read, gone>>

\* SseStream::poll_next yields the next message.
ClientReads(c) ==
  /\ ~gone[c]
  /\ read[c] < Len(queued[c])
  /\ read' = [read EXCEPT ![c] = @ + 1]
  /\ UNCHANGED <<log, filter, task, since, next, queued, gone>>

\* The client disconnects, or poll_next yields None: actix drops the body.
BodyDropped(c) ==
  /\ task[c] # "none"
  /\ ~gone[c]
  /\ gone' = [gone EXCEPT ![c] = TRUE]
  /\ UNCHANGED <<log, filter, task, since, next, queued, read>>

Task(c) == Greet(c) \/ Forward(c) \/ Recv(c)

Next == Publish \/ \E c \in Conns :
          Connect(c) \/ Task(c) \/ ClientReads(c) \/ BodyDropped(c)

Spec == Init /\ [][Next]_vars

\* tokio polls every task that can move; the client keeps reading.
FairSpec == Spec /\ \A c \in Conns : WF_vars(Task(c)) /\ WF_vars(ClientReads(c))

-----------------------------------------------------------------------------
TypeOK ==
  /\ log \in Seq(Events)
  /\ filter \in [Conns -> Filters]
  /\ task \in [Conns -> {"none", "greet", "recv", "send", "done"}]
  /\ since \in [Conns -> Nat]
  /\ next \in [Conns -> Nat]
  /\ queued \in [Conns -> Seq(Nat)]
  /\ read \in [Conns -> Nat]
  /\ gone \in [Conns -> BOOLEAN]

(***************************************************************************)
(* What a connection has been sent is its greeting and then the events of  *)
(* its tenant and topic, in the order they were published, ...             *)
(***************************************************************************)
InOrder ==
  \A c \in Conns :
    /\ \A n \in 1..Len(queued[c]) :
         queued[c][n] = 0 \/ (queued[c][n] \in since[c] + 1 .. next[c] /\ Matches(c, queued[c][n]))
    /\ \A m, n \in 1..Len(queued[c]) : m < n => queued[c][m] < queued[c][n]

(***************************************************************************)
(* ... without a gap: as long as the client is there or the task runs,     *)
(* every matching event the receiver has passed is queued or about to be,  *)
(* however far the connection fell behind the channel.                     *)
(***************************************************************************)
NoGap ==
  \A c \in Conns : ~gone[c] \/ task[c] # "done" =>
    \A p \in since[c] + 1 .. next[c] : Matches(c, p) =>
      \/ \E n \in 1..Len(queued[c]) : queued[c][n] = p
      \/ task[c] = "send" /\ p = next[c]

(***************************************************************************)
(* The server ends the stream of a client that is still there only when    *)
(* the events it has not taken no longer fit the channel.                  *)
(***************************************************************************)
EndsOnlyWhenLagged ==
  \A c \in Conns : task[c] = "done" /\ ~gone[c] => Lagged(c)

(***************************************************************************)
(* A client that keeps reading gets every event that matches, unless the   *)
(* server ends its stream or it leaves.                                    *)
(***************************************************************************)
Wanted(c, p) ==
  task[c] # "none" /\ p \in since[c] + 1 .. Len(log) /\ Matches(c, p)

Got(c, p) == \E n \in 1..read[c] : queued[c][n] = p

Delivered ==
  \A c \in Conns, p \in 1..MaxEvents :
    Wanted(c, p) ~> (Got(c, p) \/ task[c] = "done" \/ gone[c])

(***************************************************************************)
(* The task of a client that left ends once another matching event comes.  *)
(* (Only then: a task waiting in recv does not notice the client leave.)   *)
(***************************************************************************)
AbandonedTaskEnds ==
  \A c \in Conns :
    (gone[c] /\ \E p \in next[c] + 1 .. Len(log) : Matches(c, p)) ~> task[c] = "done"
=============================================================================
