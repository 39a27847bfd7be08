-------------------------- MODULE Services_proofs ---------------------------
(***************************************************************************)
(* Proofs about the three services that run beside the requests and share  *)
(* no state: the event streams (SseEvents), for any number of connections  *)
(* and events and any capacity of the channels; a webhook job              *)
(* (WebhookWorker), for every width of its counters; and a Kubernetes site *)
(* (PressOrchestrator), for any number of callers and lives of its         *)
(* namespace.                                                              *)
(***************************************************************************)
EXTENDS SseEvents, WebhookWorker, PressOrchestrator, TLAPS

-----------------------------------------------------------------------------
(* Event streams: what a connection is sent *)

\* Where the receiver of c is, and what that says about its queue.
Position(c) ==
  /\ since[c] <= next[c]
  /\ next[c] <= Len(log)
  /\ task[c] \in {"none", "greet"} => since[c] = next[c] /\ queued[c] = << >>
  /\ task[c] = "send" => /\ since[c] < next[c]
                         /\ Matches(c, next[c])
                         /\ \A n \in 1..Len(queued[c]) : queued[c][n] < next[c]

\* InOrder, NoGap and EndsOnlyWhenLagged for one connection.
InOrderAt(c) ==
  /\ \A n \in 1..Len(queued[c]) :
       queued[c][n] = 0 \/ (queued[c][n] \in since[c] + 1 .. next[c] /\ Matches(c, queued[c][n]))
  /\ \A m, n \in 1..Len(queued[c]) : m < n => queued[c][m] < queued[c][n]

NoGapAt(c) ==
  ~gone[c] \/ task[c] # "done" =>
    \A p \in since[c] + 1 .. next[c] : Matches(c, p) =>
      \/ \E n \in 1..Len(queued[c]) : queued[c][n] = p
      \/ task[c] = "send" /\ p = next[c]

EndsAt(c) == task[c] = "done" /\ ~gone[c] => Lagged(c)

ConnInv(c) == Position(c) /\ InOrderAt(c) /\ NoGapAt(c) /\ EndsAt(c)

IInv == TypeOK /\ \A c \in Conns : ConnInv(c)

LEMMA IInvImplies == IInv => InOrder /\ NoGap /\ EndsOnlyWhenLagged
  BY DEF IInv, ConnInv, InOrderAt, NoGapAt, EndsAt, InOrder, NoGap, EndsOnlyWhenLagged

LEMMA InitIInv == Init => IInv
  BY DEF Init, IInv, TypeOK, ConnInv, Position, InOrderAt, NoGapAt, EndsAt, Filters

LEMMA NextTypeOK == TypeOK /\ [Next]_vars => TypeOK'
<1> SUFFICES ASSUME TypeOK, [Next]_vars PROVE TypeOK'
  OBVIOUS
<1> USE DEF TypeOK
<1>1. CASE Publish
  BY <1>1 DEF Publish
<1>2. ASSUME NEW c \in Conns, Connect(c) PROVE TypeOK'
  BY <1>2 DEF Connect
<1>3. ASSUME NEW c \in Conns, NEW p \in Nat, Send(c, p) PROVE TypeOK'
  <2>1. Append(queued[c], p) \in Seq(Nat)
    OBVIOUS
  <2> QED
    BY <1>3, <2>1 DEF Send
<1>4. ASSUME NEW c \in Conns, Task(c) PROVE TypeOK'
  <2>1. CASE Greet(c)
    BY <1>3, <2>1 DEF Greet
  <2>2. CASE Forward(c)
    BY <1>3, <2>2 DEF Forward
  <2>3. CASE Recv(c)
    <3>1. next[c] + 1 \in Nat
      OBVIOUS
    <3>2. /\ \/ next' = next \/ next' = [next EXCEPT ![c] = next[c] + 1]
          /\ \/ task' = [task EXCEPT ![c] = "done"] \/ task' = [task EXCEPT ![c] = "send"]
             \/ task' = [task EXCEPT ![c] = "recv"]
          /\ UNCHANGED <<log, filter, since, queued, read, gone>>
      BY <2>3 DEF Recv
    <3>3. next' \in [Conns -> Nat]
      BY <3>1, <3>2
    <3>4. task' \in [Conns -> {"none", "greet", "recv", "send", "done"}]
      BY <3>2
    <3> QED
      BY <3>2, <3>3, <3>4
  <2> QED
    BY <1>4, <2>1, <2>2, <2>3 DEF Task
<1>5. ASSUME NEW c \in Conns, ClientReads(c) \/ BodyDropped(c) PROVE TypeOK'
  <2>1. CASE ClientReads(c)
    <3>1. read[c] + 1 \in Nat
      OBVIOUS
    <3> QED
      BY <2>1, <3>1 DEF ClientReads
  <2>2. CASE BodyDropped(c)
    BY <2>2 DEF BodyDropped
  <2> QED
    BY <1>5, <2>1, <2>2
<1>6. CASE UNCHANGED vars
  BY <1>6 DEF vars
<1> QED
  BY <1>1, <1>2, <1>4, <1>5, <1>6 DEF Next

\* A connection that a step leaves alone, but for new events, stays as it is.
LEMMA Untouched ==
  ASSUME IInv, NEW c \in Conns,
         log' = log \/ \E e \in Events : log' = Append(log, e),
         filter' = filter, task'[c] = task[c], since'[c] = since[c],
         next'[c] = next[c], queued'[c] = queued[c], gone'[c] = gone[c]
  PROVE  ConnInv(c)'
<1>1. /\ log \in Seq(Events) /\ since[c] \in Nat /\ next[c] \in Nat
      /\ queued[c] \in Seq(Nat)
  BY DEF IInv, TypeOK
<1>2. /\ Len(log') \in Nat /\ Len(log) \in Nat /\ Len(log') >= Len(log)
      /\ \A p \in 1..Len(log) : log'[p] = log[p]
  BY <1>1
<1>3. \A p \in 1..Len(log) : Matches(c, p)' <=> Matches(c, p)
  BY <1>2 DEF Matches
<1>4. ConnInv(c)
  BY DEF IInv
<1> DEFINE q == queued[c]
           P == since[c] + 1 .. next[c]
<1>9. /\ P \subseteq 1..Len(log)
      /\ queued'[c] = q /\ since'[c] = since[c] /\ next'[c] = next[c]
      /\ task'[c] = task[c] /\ gone'[c] = gone[c]
  BY <1>1, <1>2, <1>4 DEF ConnInv, Position
<1>5. Position(c)'
  <2>1. /\ since[c] <= next[c]
        /\ next[c] <= Len(log)
        /\ task[c] \in {"none", "greet"} => since[c] = next[c] /\ q = << >>
        /\ task[c] = "send" => /\ since[c] < next[c]
                               /\ Matches(c, next[c])
                               /\ \A n \in 1..Len(q) : q[n] < next[c]
    BY <1>4 DEF ConnInv, Position
  <2>2. task[c] = "send" => next[c] \in 1..Len(log)
    BY <1>1, <1>2, <2>1
  <2>3. task[c] = "send" => Matches(c, next[c])'
    <3>1. task[c] = "send" => log'[next[c]] = log[next[c]]
      BY <1>2, <2>2
    <3> QED
      BY <1>9, <2>1, <3>1 DEF Matches
  <2>4. next[c] <= Len(log')
    BY <1>1, <1>2, <2>1
  <2> QED
    BY <1>9, <2>1, <2>3, <2>4 DEF Position
<1>6. InOrderAt(c)'
  <2>1. \A p \in P : Matches(c, p) => (log'[p].tenant = filter'[c].tenant
                                     /\ filter'[c].topic \in {AnyTopic, log'[p].topic})
    BY <1>2, <1>9 DEF Matches
  <2>2. /\ \A n \in 1..Len(q) : q[n] = 0 \/ (q[n] \in P /\ Matches(c, q[n]))
        /\ \A m, n \in 1..Len(q) : m < n => q[m] < q[n]
    BY <1>4 DEF ConnInv, InOrderAt
  <2> QED
    BY <1>9, <2>1, <2>2 DEF InOrderAt, Matches
<1>7. NoGapAt(c)'
  <2>1. \A p \in P : (log'[p].tenant = filter'[c].tenant
                    /\ filter'[c].topic \in {AnyTopic, log'[p].topic}) => Matches(c, p)
    BY <1>2, <1>9 DEF Matches
  <2>2. ~gone[c] \/ task[c] # "done" =>
          \A p \in P : Matches(c, p) =>
            (\E n \in 1..Len(q) : q[n] = p) \/ (task[c] = "send" /\ p = next[c])
    BY <1>4 DEF ConnInv, NoGapAt
  <2> QED
    BY <1>9, <2>1, <2>2 DEF NoGapAt, Matches
<1>8. EndsAt(c)'
  BY <1>1, <1>2, <1>4, SseAssumption DEF ConnInv, EndsAt, Lagged
<1> QED
  BY <1>5, <1>6, <1>7, <1>8 DEF ConnInv

\* The forwarding task sends p, its greeting or the event taken last.
LEMMA SendStep ==
  ASSUME IInv, NEW c \in Conns, NEW p \in Nat, Send(c, p),
         \/ task[c] = "greet" /\ p = 0
         \/ task[c] = "send" /\ p = next[c]
  PROVE  ConnInv(c)'
<1>1. /\ since[c] \in Nat /\ next[c] \in Nat /\ queued[c] \in Seq(Nat)
      /\ task \in [Conns -> {"none", "greet", "recv", "send", "done"}]
      /\ queued \in [Conns -> Seq(Nat)]
  BY DEF IInv, TypeOK
<1>2. ConnInv(c)
  BY DEF IInv
<1>3. CASE gone[c]
  <2>1. /\ task'[c] = "done" /\ queued' = queued
        /\ UNCHANGED <<log, filter, since, next, gone>>
    BY <1>1, <1>3 DEF Send
  <2> QED
    BY <1>1, <1>2, <1>3, <2>1
       DEF ConnInv, Position, InOrderAt, NoGapAt, EndsAt, Matches
<1>4. CASE ~gone[c]
  <2>1. /\ task'[c] = "recv" /\ queued'[c] = Append(queued[c], p)
        /\ UNCHANGED <<log, filter, since, next, gone>>
    BY <1>1, <1>4 DEF Send
  <2> DEFINE q == queued[c]
             r == Append(q, p)
  <2>2. /\ Len(r) = Len(q) + 1 /\ r[Len(q) + 1] = p
        /\ \A n \in 1..Len(q) : r[n] = q[n]
        /\ Len(q) \in Nat
    BY <1>1
  <2>3. queued'[c] = r
    BY <2>1
  <2> HIDE DEF r
  <2>4. Position(c)'
    BY <1>1, <1>2, <2>1 DEF ConnInv, Position, Matches
  <2>5. \/ p = 0 /\ Len(q) = 0
        \/ /\ p \in since[c] + 1 .. next[c] /\ Matches(c, p)
           /\ \A n \in 1..Len(q) : q[n] < p
    <3>1. CASE task[c] = "greet"
      BY <1>2, <3>1 DEF ConnInv, Position
    <3>2. CASE task[c] = "send" /\ p = next[c]
      BY <1>1, <1>2, <3>2 DEF ConnInv, Position
    <3> QED
      BY <3>1, <3>2
  <2>6. InOrderAt(c)'
    <3>1. \A n \in 1..Len(r) : n \in 1..Len(q) \/ n = Len(q) + 1
      BY <2>2
    <3>2. \A n \in 1..Len(r) :
            r[n] = 0 \/ (r[n] \in since[c] + 1 .. next[c] /\ Matches(c, r[n]))
      BY <1>2, <2>2, <2>5, <3>1 DEF ConnInv, InOrderAt
    <3>3. \A m, n \in 1..Len(r) : m < n => r[m] < r[n]
      <4>1. \A m, n \in 1..Len(q) : m < n => q[m] < q[n]
        BY <1>2 DEF ConnInv, InOrderAt
      <4> SUFFICES ASSUME NEW m \in 1..Len(r), NEW n \in 1..Len(r), m < n
                   PROVE  r[m] < r[n]
        OBVIOUS
      <4>2. CASE n \in 1..Len(q)
        BY <2>2, <4>1, <4>2
      <4>3. CASE n = Len(q) + 1
        <5>1. m \in 1..Len(q)
          BY <2>2, <4>3
        <5> QED
          BY <2>2, <2>5, <4>3, <5>1
      <4> QED
        BY <3>1, <4>2, <4>3
    <3> QED
      BY <2>1, <2>3, <3>2, <3>3 DEF InOrderAt, Matches
  <2>7. NoGapAt(c)'
    <3>1. \A x \in since[c] + 1 .. next[c] : Matches(c, x) =>
            (\E n \in 1..Len(q) : q[n] = x) \/ x = p
      BY <1>1, <1>2, <1>4 DEF ConnInv, NoGapAt, Position
    <3>2. \A x \in since[c] + 1 .. next[c] : Matches(c, x) =>
            \E n \in 1..Len(r) : r[n] = x
      BY <2>2, <3>1
    <3> QED
      BY <2>1, <2>3, <3>2 DEF NoGapAt, Matches
  <2>8. EndsAt(c)'
    BY <2>1 DEF EndsAt
  <2> QED
    BY <2>4, <2>6, <2>7, <2>8 DEF ConnInv
<1> QED
  BY <1>3, <1>4

LEMMA RecvStep ==
  ASSUME IInv, NEW c \in Conns, Recv(c)
  PROVE  ConnInv(c)'
<1>1. /\ since[c] \in Nat /\ next[c] \in Nat /\ queued[c] \in Seq(Nat)
      /\ log \in Seq(Events)
      /\ task \in [Conns -> {"none", "greet", "recv", "send", "done"}]
      /\ next \in [Conns -> Nat]
  BY DEF IInv, TypeOK
<1>2. ConnInv(c) /\ task[c] = "recv" /\ next[c] < Len(log) /\ Len(log) \in Nat
  BY <1>1 DEF IInv, Recv
<1>3. CASE Lagged(c)
  <2>1. task'[c] = "done" /\ UNCHANGED <<log, filter, since, next, queued, gone>>
    BY <1>1, <1>3 DEF Recv
  <2> QED
    BY <1>1, <1>2, <1>3, <2>1
       DEF ConnInv, Position, InOrderAt, NoGapAt, EndsAt, Matches, Lagged
<1>4. CASE ~Lagged(c)
  <2>1. /\ next'[c] = next[c] + 1
        /\ task'[c] = IF Matches(c, next[c] + 1) THEN "send" ELSE "recv"
        /\ UNCHANGED <<log, filter, since, queued, gone>>
    BY <1>1, <1>4 DEF Recv
  <2>2. \A p : Matches(c, p)' <=> Matches(c, p)
    BY <2>1 DEF Matches
  <2>3. \A n \in 1..Len(queued[c]) : queued[c][n] \in Nat /\ queued[c][n] <= next[c]
    <3>1. \A n \in 1..Len(queued[c]) :
            queued[c][n] = 0 \/ queued[c][n] \in since[c] + 1 .. next[c]
      BY <1>2 DEF ConnInv, InOrderAt
    <3> QED
      BY <1>1, <3>1
  <2>4. Position(c)'
    BY <1>1, <1>2, <2>1, <2>3 DEF ConnInv, Position, Matches
  <2>5. InOrderAt(c)'
    <3>1. since[c] + 1 .. next[c] \subseteq since[c] + 1 .. next[c] + 1
      BY <1>1
    <3>2. /\ \A n \in 1..Len(queued[c]) : queued[c][n] = 0 \/
               (queued[c][n] \in since[c] + 1 .. next[c] + 1 /\ Matches(c, queued[c][n]))
          /\ \A m, n \in 1..Len(queued[c]) : m < n => queued[c][m] < queued[c][n]
      BY <1>2, <3>1 DEF ConnInv, InOrderAt
    <3> QED
      BY <2>1, <3>2 DEF InOrderAt, Matches
  <2>6. NoGapAt(c)'
    <3>1. \A p \in since[c] + 1 .. next[c] : Matches(c, p) =>
            \E n \in 1..Len(queued[c]) : queued[c][n] = p
      BY <1>2 DEF ConnInv, NoGapAt
    <3>2. \A p \in since[c] + 1 .. next[c] + 1 :
            p \in since[c] + 1 .. next[c] \/ p = next[c] + 1
      BY <1>1
    <3> QED
      BY <2>1, <3>1, <3>2 DEF NoGapAt, Matches
  <2>7. EndsAt(c)'
    BY <2>1 DEF EndsAt
  <2> QED
    BY <2>4, <2>5, <2>6, <2>7 DEF ConnInv
<1> QED
  BY <1>3, <1>4

LEMMA NextIInv == IInv /\ [Next]_vars => IInv'
<1> SUFFICES ASSUME IInv, [Next]_vars PROVE IInv'
  OBVIOUS
<1>1. TypeOK'
  BY NextTypeOK DEF IInv
<1>2. ASSUME NEW c \in Conns PROVE ConnInv(c)'
  <2>0. /\ task \in [Conns -> {"none", "greet", "recv", "send", "done"}]
        /\ since \in [Conns -> Nat] /\ next \in [Conns -> Nat]
        /\ queued \in [Conns -> Seq(Nat)] /\ gone \in [Conns -> BOOLEAN]
        /\ log \in Seq(Events)
    BY DEF IInv, TypeOK
  <2>1. CASE Publish
    BY <2>1, Untouched DEF Publish
  <2>2. ASSUME NEW d \in Conns, Connect(d) PROVE ConnInv(c)'
    <3>1. CASE d = c
      <4>1. /\ task'[c] = "greet" /\ since'[c] = Len(log) /\ next'[c] = Len(log)
            /\ queued'[c] = << >> /\ log' = log /\ Len(log) \in Nat
        BY <2>0, <2>2, <3>1 DEF Connect, IInv, ConnInv, Position
      <4> QED
        BY <4>1 DEF ConnInv, Position, InOrderAt, NoGapAt, EndsAt
    <3>2. CASE d # c
      BY <2>0, <2>2, <3>2, Untouched DEF Connect
    <3> QED
      BY <3>1, <3>2
  <2>3. ASSUME NEW d \in Conns, Greet(d) PROVE ConnInv(c)'
    <3>1. CASE d = c
      BY <2>3, <3>1, SendStep DEF Greet
    <3>2. CASE d # c
      BY <2>0, <2>3, <3>2, Untouched DEF Greet, Send
    <3> QED
      BY <3>1, <3>2
  <2>4. ASSUME NEW d \in Conns, Forward(d) PROVE ConnInv(c)'
    <3>1. CASE d = c
      BY <2>0, <2>4, <3>1, SendStep DEF Forward
    <3>2. CASE d # c
      BY <2>0, <2>4, <3>2, Untouched DEF Forward, Send
    <3> QED
      BY <3>1, <3>2
  <2>5. ASSUME NEW d \in Conns, Recv(d) PROVE ConnInv(c)'
    <3>1. CASE d = c
      BY <2>5, <3>1, RecvStep
    <3>2. CASE d # c
      BY <2>0, <2>5, <3>2, Untouched DEF Recv
    <3> QED
      BY <3>1, <3>2
  <2>6. ASSUME NEW d \in Conns, ClientReads(d) PROVE ConnInv(c)'
    BY <2>6, Untouched DEF ClientReads
  <2>7. ASSUME NEW d \in Conns, BodyDropped(d) PROVE ConnInv(c)'
    <3>1. CASE d = c
      <4>1. /\ gone'[c] = TRUE /\ gone[c] = FALSE /\ task[c] # "none"
            /\ UNCHANGED <<log, filter, task, since, next, queued>>
        BY <2>0, <2>7, <3>1 DEF BodyDropped
      <4> QED
        BY <4>1 DEF IInv, ConnInv, Position, InOrderAt, NoGapAt, EndsAt, Matches
    <3>2. CASE d # c
      BY <2>0, <2>7, <3>2, Untouched DEF BodyDropped
    <3> QED
      BY <3>1, <3>2
  <2>8. CASE UNCHANGED vars
    BY <2>8, Untouched DEF vars
  <2> QED
    BY <2>1, <2>2, <2>3, <2>4, <2>5, <2>6, <2>7, <2>8 DEF Next, Task
<1> QED
  BY <1>1, <1>2 DEF IInv

LEMMA Invariance == Spec => []IInv
  BY InitIInv, NextIInv, PTL DEF Spec

(***************************************************************************)
(* Type correctness, for any number of connections and any capacities.     *)
(***************************************************************************)
THEOREM TypeCorrect == Spec => []TypeOK
  BY Invariance, PTL DEF IInv

(***************************************************************************)
(* A connection is sent only events of its own tenant and topic that were  *)
(* published after it subscribed, in the order of publication.             *)
(***************************************************************************)
THEOREM SentInOrder == Spec => []InOrder
  BY Invariance, IInvImplies, PTL

(***************************************************************************)
(* It misses none of them, although the broadcast channel overwrites its   *)
(* oldest events while the task waits for a slow client.                   *)
(***************************************************************************)
THEOREM SentWithoutGap == Spec => []NoGap
  BY Invariance, IInvImplies, PTL

(***************************************************************************)
(* Only a receiver that has lagged loses its stream.                       *)
(***************************************************************************)
THEOREM EndsWhenLagged == Spec => []EndsOnlyWhenLagged
  BY Invariance, IInvImplies, PTL

-----------------------------------------------------------------------------
(* A webhook job *)

\* Failures counted before the first request.  The counter of a job that is
\* handed over at U8Max wraps at the first failure, and counts from 0 then.
Base == IF first = U8Max THEN -1 ELSE first

\* The requests after which the counter reaches the limit.
Reached == IF max_retries - Base < 1 THEN 1 ELSE max_retries - Base

\* attempt counts the failures; while the job runs it is below the limit.
Counting ==
  /\ sends <= Reached
  /\ stage = "send" => \/ attempt = first /\ sends = 0
                       \/ attempt = Base + sends /\ sends > 0 /\ sends < Reached
  /\ stage = "wait" => \/ attempt = first /\ sends = 1
                       \/ attempt + 1 = Base + sends /\ sends > 1
  /\ stage = "sleep" => attempt = Base + sends /\ sends > 0 /\ sends < Reached
  /\ stage # "done" => result = "none"
  /\ result = "aborted" => sends = Reached

JobInv == JobTypeOK /\ Counting /\ ScheduleKept

LEMMA Bounds ==
  ASSUME JobInv
  PROVE  /\ U8Max \in Nat \ {0} /\ SendsBound \in Nat
         /\ Base \in -1..(U8Max - 1) /\ Reached \in 1..(U8Max + 1)
         /\ SendsBound >= Reached
         /\ first < U8Max => Base = first /\ Reached = Limit
  BY WebhookAssumption DEF JobInv, JobTypeOK, Base, Reached, SendsBound, Limit

LEMMA InitJobInv == JobInit => JobInv
  BY WebhookAssumption
  DEF JobInit, JobInv, JobTypeOK, Counting, ScheduleKept, Reached, Base, SendsBound

\* The counter wraps on the first failure of a job handed over at U8Max, and
\* never else.
LEMMA BumpStep ==
  ASSUME JobInv, stage = "wait"
  PROVE  Bump = Base + sends /\ Bump \in 0..U8Max /\ sends \in 1..Reached
<1>1. sends \in 1..Reached /\ first \in 0..U8Max /\ max_retries \in 0..U8Max
  BY Bounds DEF JobInv, JobTypeOK, Counting
<1>2. CASE attempt = first /\ sends = 1
  BY <1>1, <1>2, Bounds DEF Bump, Base
<1>3. CASE attempt + 1 = Base + sends /\ sends > 1
  <2>1. Base + sends <= U8Max
    BY <1>1, <1>3, Bounds DEF Reached
  <2> QED
    BY <1>1, <1>3, <2>1, Bounds DEF Bump, JobInv, JobTypeOK
<1> QED
  BY <1>2, <1>3 DEF JobInv, Counting

\* The table of delays holds the powers of two.
LEMMA DelayTable ==
  ASSUME NEW n \in Nat
  PROVE  /\ Delay(n) = IF n \in 1..4 THEN 2 ^ n ELSE 32
         /\ Delay(n) \in {2, 4, 8, 16, 32}
<1>1. /\ backoff_delays[1] = 2 /\ backoff_delays[2] = 4 /\ backoff_delays[3] = 8
      /\ backoff_delays[4] = 16 /\ backoff_delays[5] = 32
  BY DEF backoff_delays
<1>2. 2 ^ 1 = 2 /\ 2 ^ 2 = 4 /\ 2 ^ 3 = 8 /\ 2 ^ 4 = 16
  OBVIOUS
<1>3. CASE n = 1
  BY <1>1, <1>2, <1>3 DEF Delay
<1>4. CASE n = 2
  BY <1>1, <1>2, <1>4 DEF Delay
<1>5. CASE n = 3
  BY <1>1, <1>2, <1>5 DEF Delay
<1>6. CASE n = 4
  BY <1>1, <1>2, <1>6 DEF Delay
<1>7. CASE n \notin 1..4
  BY <1>1, <1>7 DEF Delay
<1>8. n \notin 1..4 \/ n = 1 \/ n = 2 \/ n = 3 \/ n = 4
  OBVIOUS
<1> QED
  BY <1>3, <1>4, <1>5, <1>6, <1>7, <1>8

LEMMA EndStep ==
  ASSUME JobInv, NEW how \in {"succeeded", "panicked"}, End(how)
  PROVE  JobInv'
  BY DEF End, JobInv, JobTypeOK, Counting, ScheduleKept, Reached, Base, SendsBound

LEMMA NextJobInv == JobInv /\ [JobNext]_jobVars => JobInv'
<1> SUFFICES ASSUME JobInv, [JobNext]_jobVars PROVE JobInv'
  OBVIOUS
<1>1. CASE Post
  BY <1>1, Bounds
  DEF Post, JobInv, JobTypeOK, Counting, ScheduleKept, Reached, Base, SendsBound
<1>2. CASE Failed
  <2>1. /\ stage = "wait" /\ attempt' = Bump /\ UNCHANGED <<max_retries, first, sends>>
        /\ Reached' = Reached /\ Base' = Base /\ SendsBound' = SendsBound
    BY <1>2 DEF Failed, Reached, Base, SendsBound
  <2>2. /\ Bump = Base + sends /\ Bump \in 0..U8Max /\ sends \in 1..Reached
        /\ result = "none"
    BY <2>1, BumpStep DEF JobInv, Counting
  <2>3. CASE Bump >= max_retries
    <3>1. stage' = "done" /\ result' = "aborted" /\ delay' = delay
      BY <1>2, <2>3 DEF Failed, Over
    <3>2. sends = Reached
      BY <2>2, <2>3, Bounds DEF JobInv, JobTypeOK, Reached
    <3> QED
      BY <2>1, <2>2, <3>1, <3>2 DEF JobInv, JobTypeOK, Counting, ScheduleKept
  <2>4. CASE ~(Bump >= max_retries)
    <3>1. stage' = "sleep" /\ result' = "none" /\ delay' = Delay(Bump)
      BY <1>2, <2>2, <2>4 DEF Failed, Over
    <3>2. sends < Reached
      BY <2>2, <2>4, Bounds DEF JobInv, JobTypeOK, Reached
    <3>3. /\ Delay(Bump) = IF Bump \in 1..4 THEN 2 ^ Bump ELSE 32
          /\ Delay(Bump) \in {2, 4, 8, 16, 32}
      BY <2>2, Bounds, DelayTable
    <3>4. JobTypeOK'
      BY <2>1, <2>2, <3>1, <3>3 DEF JobInv, JobTypeOK
    <3>5. Counting'
      BY <2>1, <2>2, <3>1, <3>2 DEF Counting
    <3>6. ScheduleKept'
      BY <2>1, <2>2, <3>1, <3>3, Bounds DEF ScheduleKept
    <3> QED
      BY <3>4, <3>5, <3>6 DEF JobInv
  <2> QED
    BY <2>3, <2>4
<1>3. CASE Succeeded
  BY <1>3, EndStep DEF Succeeded
<1>4. CASE Panic
  BY <1>4, EndStep DEF Panic
<1>5. CASE Wake
  BY <1>5 DEF Wake, JobInv, JobTypeOK, Counting, ScheduleKept, Reached, Base, SendsBound
<1>6. CASE UNCHANGED jobVars
  BY <1>6 DEF jobVars, JobInv, JobTypeOK, Counting, ScheduleKept, Reached, Base, SendsBound
<1> QED
  BY <1>1, <1>2, <1>3, <1>4, <1>5, <1>6 DEF JobNext

LEMMA JobInvariance == JobSpec => []JobInv
  BY InitJobInv, NextJobInv, PTL DEF JobSpec

(***************************************************************************)
(* Every variable keeps its type; the attempt stays a u8.                  *)
(***************************************************************************)
THEOREM JobTypeCorrect == JobSpec => []JobTypeOK
  BY JobInvariance, PTL DEF JobInv

(***************************************************************************)
(* No job sends more requests than were left of its limit, and it gives up *)
(* only after all of them, unless it was handed over at U8Max.             *)
(***************************************************************************)
THEOREM LimitIsKept == JobSpec => []LimitKept
<1>1. JobInv => LimitKept
  BY Bounds DEF JobInv, Counting, LimitKept
<1> QED
  BY <1>1, JobInvariance, PTL

(***************************************************************************)
(* The sleeps follow the exponential schedule, unless the job was handed   *)
(* over at U8Max.                                                          *)
(***************************************************************************)
THEOREM BackoffSchedule == JobSpec => []ScheduleKept
  BY JobInvariance, PTL DEF JobInv

(***************************************************************************)
(* The counter is never incremented at U8Max but in a job that came so.    *)
(***************************************************************************)
THEOREM NeverOverflows == JobSpec => []NoOverflow
<1>1. JobInv => NoOverflow
  <2> SUFFICES ASSUME JobInv, attempt = U8Max, stage \in {"send", "wait"}
               PROVE  first = U8Max
    BY DEF NoOverflow
  <2>1. CASE attempt = first
    BY <2>1
  <2>2. CASE attempt # first /\ stage = "send"
    <3>1. U8Max = Base + sends /\ sends < Reached /\ sends > 0
      BY <2>2 DEF JobInv, Counting
    <3> QED
      BY <3>1, Bounds DEF JobInv, JobTypeOK, Reached
  <2>3. CASE attempt # first /\ stage = "wait"
    <3>1. U8Max + 1 = Base + sends /\ sends <= Reached /\ sends > 1
      BY <2>3 DEF JobInv, Counting
    <3> QED
      BY <3>1, Bounds DEF JobInv, JobTypeOK, Reached
  <2> QED
    BY <2>1, <2>2, <2>3
<1> QED
  BY <1>1, JobInvariance, PTL

-----------------------------------------------------------------------------
(* A site of the orchestrator *)

\* A call that was not overtaken by a deletion still has its namespace, and
\* in it what it has created; nothing outlives the namespace.
Building ==
  /\ namespace = "absent" => contents = {}
  /\ \A p \in Provisions : pc[p] \in {"service", "deployment"} /\ ~disturbed[p] =>
       /\ namespace = "active"
       /\ pc[p] = "deployment" => "service" \in contents

\* The deployment is the last thing created, and what an Ok stands for.
Finished ==
  /\ winners > 0 /\ namespace = "active" => "deployment" \in contents
  /\ "deployment" \in contents /\ namespace = "active" /\ ~crossed =>
       "service" \in contents

SiteInv == SiteTypeOK /\ OneWinner /\ Building /\ Finished

USE OrchestratorAssumption

LEMMA InitSiteInv == SiteInit => SiteInv
<1> SUFFICES ASSUME SiteInit PROVE SiteInv
  OBVIOUS
<1>1. SiteTypeOK
  <2>1. crossed \in BOOLEAN
    BY Zenon DEF SiteInit
  <2>2. disturbed \in [Provisions -> BOOLEAN]
    BY DEF SiteInit
  <2> QED
    BY <2>1, <2>2 DEF SiteInit, SiteTypeOK, Replicas
<1>2. OneWinner /\ Building /\ Finished
  BY DEF SiteInit, OneWinner, Building, Finished
<1> QED
  BY <1>1, <1>2 DEF SiteInv

\* The calls of provision_tenant_site.
LEMMA ProvisionStep ==
  ASSUME SiteInv, NEW p \in Provisions,
         \/ Provision(p) \/ CreateFails(p) \/ CreateNamespace(p)
         \/ \E kind \in {"service", "deployment"} : Create(p, kind)
  PROVE  SiteInv'
<1> USE DEF SiteInv, SiteTypeOK, OneWinner, Building, Finished
<1>1. CASE Provision(p) \/ CreateFails(p)
  BY <1>1 DEF Provision, CreateFails, Return, cluster, history
<1>2. CASE CreateNamespace(p)
  <2>1. /\ namespace = "absent" /\ namespace' = "active" /\ lives' = lives + 1
        /\ lives < MaxLives /\ winners' = 0 /\ crossed' = FALSE
        /\ disturbed' = [disturbed EXCEPT ![p] = FALSE]
        /\ pc' = [pc EXCEPT ![p] = "service"] \/ pc' = [pc EXCEPT ![p] = "err"]
        /\ contents = {} /\ contents' = contents /\ pods' = pods
    BY <1>2 DEF CreateNamespace, Return, Free, Order
  <2>2. SiteTypeOK'
    <3>1. crossed' \in BOOLEAN
      BY <2>1, Zenon
    <3>2. disturbed' \in [Provisions -> BOOLEAN]
      BY <2>1
    <3> QED
      BY <2>1, <3>1, <3>2
  <2>3. Building'
    BY <2>1
  <2>4. OneWinner' /\ Finished'
    BY <2>1
  <2> QED
    BY <2>2, <2>3, <2>4
<1>3. CASE Create(p, "service")
  BY <1>3 DEF Create, Creatable, Return, After, Order
<1>4. CASE Create(p, "deployment")
  <2>1. /\ namespace = "active" /\ "deployment" \notin contents /\ winners = 0
        /\ namespace' = namespace /\ contents' = contents \cup {"deployment"}
        /\ crossed' = (crossed \/ disturbed[p]) /\ pods' = pods /\ lives' = lives
        /\ disturbed' = disturbed /\ winners' \in {0, 1} /\ pc[p] = "deployment"
        /\ pc' = [pc EXCEPT ![p] = "ok"] \/ pc' = [pc EXCEPT ![p] = "err"]
    BY <1>4 DEF Create, Creatable, Return, After, Order
  <2> QED
    BY <2>1
<1> QED
  BY <1>1, <1>2, <1>3, <1>4

LEMMA NextSiteInv == SiteInv /\ [SiteNext]_siteVars => SiteInv'
<1> SUFFICES ASSUME SiteInv, [SiteNext]_siteVars PROVE SiteInv'
  OBVIOUS
<1> USE DEF SiteInv, SiteTypeOK, OneWinner, Building, Finished
<1>1. ASSUME NEW p \in Deprovisions, Deprovision(p) \/ DeleteNamespace(p) PROVE SiteInv'
  BY <1>1 DEF Deprovision, DeleteNamespace, Return, cluster, history
<1>2. CASE ScalePods
  BY <1>2 DEF ScalePods, history, Replicas
<1>3. CASE RemoveContents
  BY <1>3 DEF RemoveContents, history, Replicas
<1>4. CASE Finalize
  BY <1>4 DEF Finalize, history
<1>5. CASE UNCHANGED siteVars
  BY <1>5 DEF siteVars, cluster, history
<1> QED
  BY <1>1, <1>2, <1>3, <1>4, <1>5, ProvisionStep DEF SiteNext

LEMMA SiteInvariance == SiteSpec => []SiteInv
  BY InitSiteInv, NextSiteInv, PTL DEF SiteSpec

(***************************************************************************)
(* Every variable keeps its type.                                          *)
(***************************************************************************)
THEOREM SiteTypeCorrect == SiteSpec => []SiteTypeOK
  BY SiteInvariance, PTL DEF SiteInv

(***************************************************************************)
(* However many callers there are, one at most provisions a namespace.     *)
(***************************************************************************)
THEOREM AtMostOneWins == SiteSpec => []OneWinner
  BY SiteInvariance, PTL DEF SiteInv

(***************************************************************************)
(* What a provision reported as done is complete.                          *)
(***************************************************************************)
THEOREM OkMeansComplete == SiteSpec => []OkIsComplete
<1>1. SiteInv => OkIsComplete
  BY DEF SiteInv, SiteTypeOK, Finished, OkIsComplete
<1> QED
  BY <1>1, SiteInvariance, PTL

(***************************************************************************)
(* A ready site has its service.                                           *)
(***************************************************************************)
THEOREM ReadyMeansReachable == SiteSpec => []ReadyIsReachable
<1>1. SiteInv => ReadyIsReachable
  BY DEF SiteInv, Finished, ReadyIsReachable, Ready
<1> QED
  BY <1>1, SiteInvariance, PTL

(***************************************************************************)
(* Retries cannot complete a site that was left half built.                *)
(***************************************************************************)
THEOREM AbandonedStays == SiteSpec => AbandonedUntilDeleted
<1> DEFINE Kept == Abandoned => \/ namespace' = "terminating"
                                \/ Abandoned' /\ contents' = contents
<1>1. SiteInv /\ [SiteNext]_siteVars => [Kept]_siteVars
  <2> SUFFICES ASSUME SiteInv, SiteNext, Abandoned PROVE Kept
    OBVIOUS
  <2> USE DEF SiteInv, SiteTypeOK, Abandoned
  <2>1. ASSUME NEW p \in Provisions, Provision(p) \/ CreateFails(p) PROVE Kept
    BY <2>1 DEF Provision, CreateFails, Return, cluster, history
  <2>2. ASSUME NEW p \in Provisions, NEW kind \in {"service", "deployment"},
               CreateNamespace(p) \/ Create(p, kind)
        PROVE  FALSE
    BY <2>2 DEF CreateNamespace, Free, Create
  <2>3. ASSUME NEW p \in Deprovisions, Deprovision(p) \/ DeleteNamespace(p) PROVE Kept
    BY <2>3 DEF Deprovision, DeleteNamespace, Return, cluster, history
  <2>4. CASE ScalePods
    BY <2>4 DEF ScalePods, history
  <2>5. CASE RemoveContents \/ Finalize
    BY <2>5 DEF RemoveContents, Finalize
  <2> QED
    BY <2>1, <2>2, <2>3, <2>4, <2>5 DEF SiteNext
<1>2. [][Kept]_siteVars <=> AbandonedUntilDeleted
  BY PTL DEF AbandonedUntilDeleted
<1> QED
  BY <1>1, <1>2, SiteInvariance, PTL DEF SiteSpec
=============================================================================
