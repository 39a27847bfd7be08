--------------------------- MODULE H3Server_proofs ---------------------------
(***************************************************************************)
(* Safety of the UDP loop for every number of clients, connection ids and  *)
(* requests.                                                               *)
(***************************************************************************)
EXTENDS H3Server, TLAPS

-----------------------------------------------------------------------------
(* Events *)

\* A request is announced once.
Once(es) ==
  \A n \in Streams, i, j \in 1..Len(es) :
    es[i] = <<"headers", n>> /\ es[j] = <<"headers", n>> => i = j

LEMMA NoEvents == Waiting(<< >>) = {} /\ Once(<< >>)
  BY DEF Waiting, Once

LEMMA MoreEvents ==
  ASSUME NEW old \in Seq(Events), NEW more \in Seq(Events),
         Once(old), Once(more), Waiting(old) \cap Waiting(more) = {}
  PROVE  /\ old \o more \in Seq(Events) /\ Once(old \o more)
         /\ Waiting(old \o more) = Waiting(old) \cup Waiting(more)
<1> DEFINE all == old \o more
<1>1. /\ all \in Seq(Events) /\ Len(all) = Len(old) + Len(more)
      /\ Len(old) \in Nat /\ Len(more) \in Nat
      /\ \A i \in 1..Len(old) : i \in 1..Len(all) /\ all[i] = old[i]
      /\ \A i \in 1..Len(more) :
           i + Len(old) \in 1..Len(all) /\ all[i + Len(old)] = more[i]
  OBVIOUS
<1> HIDE DEF all
<1>2. ASSUME NEW i \in 1..Len(all), i \notin 1..Len(old)
      PROVE  i - Len(old) \in 1..Len(more) /\ all[i] = more[i - Len(old)]
  BY <1>1, <1>2
<1>3. Waiting(all) = Waiting(old) \cup Waiting(more)
  <2>1. ASSUME NEW n \in Waiting(all) PROVE n \in Waiting(old) \cup Waiting(more)
    <3>1. PICK i \in 1..Len(all) : n \in Streams /\ all[i] = <<"headers", n>>
      BY <2>1 DEF Waiting
    <3>2. CASE i \in 1..Len(old)
      BY <1>1, <3>1, <3>2 DEF Waiting
    <3>3. CASE i \notin 1..Len(old)
      BY <1>2, <3>1, <3>3 DEF Waiting
    <3> QED
      BY <3>2, <3>3
  <2>2. ASSUME NEW n \in Waiting(old) PROVE n \in Waiting(all)
    <3>1. PICK i \in 1..Len(old) : n \in Streams /\ old[i] = <<"headers", n>>
      BY <2>2 DEF Waiting
    <3> QED
      BY <1>1, <3>1 DEF Waiting
  <2>3. ASSUME NEW n \in Waiting(more) PROVE n \in Waiting(all)
    <3>1. PICK i \in 1..Len(more) : n \in Streams /\ more[i] = <<"headers", n>>
      BY <2>3 DEF Waiting
    <3> QED
      BY <1>1, <3>1 DEF Waiting
  <2> QED
    BY <2>1, <2>2, <2>3
<1>4. ASSUME NEW n \in Streams, NEW i \in 1..Len(all), NEW j \in 1..Len(all),
             all[i] = <<"headers", n>>, all[j] = <<"headers", n>>
      PROVE  i = j
  <2>1. ASSUME NEW k \in 1..Len(all), all[k] = <<"headers", n>>, k \in 1..Len(old)
        PROVE  n \in Waiting(old)
    BY <1>1, <2>1 DEF Waiting
  <2>2. ASSUME NEW k \in 1..Len(all), all[k] = <<"headers", n>>, k \notin 1..Len(old)
        PROVE  n \in Waiting(more)
    BY <1>2, <2>2 DEF Waiting
  <2>3. CASE i \in 1..Len(old) /\ j \in 1..Len(old)
    BY <1>1, <1>4, <2>3 DEF Once
  <2>4. CASE i \notin 1..Len(old) /\ j \notin 1..Len(old)
    <3>1. i - Len(old) = j - Len(old)
      BY <1>2, <1>4, <2>4 DEF Once
    <3> QED
      BY <1>1, <3>1
  <2> QED
    BY <1>4, <2>1, <2>2, <2>3, <2>4
<1> QED
  BY <1>1, <1>3, <1>4 DEF Once, all

\* Polling an event takes it from the front.
LEMMA FewerEvents ==
  ASSUME NEW es \in Seq(Events), es # << >>, Once(es)
  PROVE  /\ Tail(es) \in Seq(Events) /\ Once(Tail(es)) /\ Head(es) \in Events
         /\ Head(es)[1] # "headers" => Waiting(Tail(es)) = Waiting(es)
         /\ \A n \in Streams : Head(es) = <<"headers", n>> =>
              n \in Waiting(es) /\ Waiting(Tail(es)) = Waiting(es) \ {n}
<1> DEFINE rest == Tail(es)
<1>1. /\ rest \in Seq(Events) /\ Len(es) \in Nat \ {0} /\ Len(rest) = Len(es) - 1
      /\ \A i \in 1..Len(rest) : i + 1 \in 1..Len(es) /\ rest[i] = es[i + 1]
      /\ 1 \in 1..Len(es) /\ Head(es) = es[1] /\ es[1] \in Events
  OBVIOUS
<1> HIDE DEF rest
<1>2. ASSUME NEW i \in 1..Len(es), i # 1
      PROVE  i - 1 \in 1..Len(rest) /\ rest[i - 1] = es[i]
  BY <1>1, <1>2
<1>3. Once(rest)
  <2> SUFFICES ASSUME NEW n \in Streams, NEW i \in 1..Len(rest), NEW j \in 1..Len(rest),
                      rest[i] = <<"headers", n>>, rest[j] = <<"headers", n>>
               PROVE  i = j
    BY DEF Once
  <2>1. i + 1 = j + 1
    BY <1>1 DEF Once
  <2> QED
    BY <1>1, <2>1
<1>4. ASSUME NEW n \in Streams
      PROVE  n \in Waiting(es) <=> n \in Waiting(rest) \/ Head(es) = <<"headers", n>>
  BY <1>1, <1>2 DEF Waiting
<1>5. Waiting(es) \subseteq Streams /\ Waiting(rest) \subseteq Streams
  BY DEF Waiting
<1>6. ASSUME NEW n \in Streams, Head(es) = <<"headers", n>>
      PROVE  n \notin Waiting(rest)
  <2> SUFFICES ASSUME NEW i \in 1..Len(rest), rest[i] = <<"headers", n>>
               PROVE  FALSE
    BY DEF Waiting
  <2>1. i + 1 = 1
    BY <1>1, <1>6 DEF Once
  <2> QED
    BY <1>1, <2>1
<1>7. ASSUME Head(es)[1] # "headers" PROVE Waiting(rest) = Waiting(es)
  <2>1. ASSUME NEW n \in Streams, Head(es) = <<"headers", n>> PROVE FALSE
    BY <1>7, <2>1
  <2> QED
    BY <1>4, <1>5, <2>1
<1>8. ASSUME NEW n \in Streams, Head(es) = <<"headers", n>>
      PROVE  n \in Waiting(es) /\ Waiting(rest) = Waiting(es) \ {n}
  <2>1. ASSUME NEW m \in Streams, Head(es) = <<"headers", m>> PROVE m = n
    BY <1>8, <2>1
  <2> QED
    BY <1>4, <1>5, <1>6, <1>8, <2>1
<1> QED
  BY <1>1, <1>3, <1>7, <1>8 DEF rest

\* What arrives announces the next requests.
LEMMA ArrivalFacts ==
  ASSUME NEW n \in Nat \ {0}, NEW a \in Arrivals(n), n - 1 + a.requests <= MaxStreams
  PROVE  /\ a.events \in Seq(Events) /\ a.requests \in Nat
         /\ Waiting(a.events) = n..(n - 1 + a.requests)
         /\ Once(a.events)
<1> USE H3Assumption
<1>1. CASE a = [events |-> << >>, requests |-> 0]
  <2>1. a.events = << >> /\ a.requests = 0 /\ n..(n - 1) = {} /\ << >> \in Seq(Events)
    BY <1>1
  <2>2. Waiting(a.events) = {} /\ Once(a.events) /\ a.events \in Seq(Events)
    BY <2>1, NoEvents
  <2>3. n..(n - 1 + a.requests) = {} /\ a.requests \in Nat
    BY <2>1
  <2> QED
    BY <2>2, <2>3
<1>2. CASE a = [events |-> Get(n), requests |-> 1]
  BY <1>2 DEF Events, Streams, Waiting, Once, Get
<1>3. CASE a = [events |-> Post(n), requests |-> 1]
  BY <1>3 DEF Events, Streams, Waiting, Once, Post
<1>4. CASE a = [events |-> Reset(n), requests |-> 1]
  BY <1>4 DEF Events, Streams, Waiting, Once, Reset
<1>5. CASE a = [events |-> GetTwo(n), requests |-> 2]
  <2> DEFINE es == GetTwo(n)
  <2>1. n \in Streams /\ n + 1 \in Streams
    BY <1>5 DEF Streams
  <2>2. /\ es \in Seq(Events) /\ Len(es) = 4
        /\ es[1] = <<"headers", n>> /\ es[2] = <<"finished", n>>
        /\ es[3] = <<"headers", n + 1>> /\ es[4] = <<"finished", n + 1>>
    BY <2>1 DEF Events, GetTwo
  <2> HIDE DEF es
  <2>3. ASSUME NEW m \in Streams, NEW i \in 1..Len(es), es[i] = <<"headers", m>>
        PROVE  (i = 1 /\ m = n) \/ (i = 3 /\ m = n + 1)
    <3>1. i = 1 \/ i = 2 \/ i = 3 \/ i = 4
      BY <2>2
    <3> QED
      BY <2>2, <2>3, <3>1
  <2>4. Waiting(es) = {n, n + 1}
    BY <2>1, <2>2, <2>3 DEF Waiting
  <2>5. Once(es)
    <3> SUFFICES ASSUME NEW m \in Streams, NEW i \in 1..Len(es), NEW j \in 1..Len(es),
                        es[i] = <<"headers", m>>, es[j] = <<"headers", m>>
                 PROVE  i = j
      BY DEF Once
    <3> QED
      BY <2>3
  <2>6. a.events = es /\ a.requests = 2 /\ n..(n - 1 + 2) = {n, n + 1}
    BY <1>5 DEF es
  <2>7. n..(n - 1 + a.requests) = {n, n + 1} /\ a.requests \in Nat
    BY <2>6
  <2> QED
    BY <2>2, <2>4, <2>5, <2>6, <2>7
<1> QED
  BY <1>1, <1>2, <1>3, <1>4, <1>5 DEF Arrivals

-----------------------------------------------------------------------------
(* One connection *)

Sound(s, serving) == s \in ConnectionState /\ Accounted(s, serving) /\ Once(s.events)

LEMMA AcceptedSound ==
  ASSUME NEW c \in Clients
  PROVE  Sound(Accepted(c), {})
<1>1. Accepted(c) \in ConnectionState
  BY H3Assumption DEF Accepted, ConnectionState
<1>2. /\ Accepted(c).events = << >> /\ Accepted(c).opened = 0
      /\ Accepted(c).answered = {}
  BY DEF Accepted
<1> QED
  BY <1>1, <1>2, NoEvents DEF Sound, Accounted

\* A change of the phase, or of h3, touches no request.
LEMMA SameRequests ==
  ASSUME NEW s, NEW t \in ConnectionState, NEW serving, Sound(s, serving),
         t.events = s.events, t.opened = s.opened, t.answered = s.answered
  PROVE  Sound(t, serving)
  BY DEF Sound, Accounted

LEMMA ReceivedSound ==
  ASSUME NEW s, Sound(s, {}), NEW t \in Received(s)
  PROVE  Sound(t, {})
<1>1. PICK a \in Arrivals(s.opened + 1) :
        /\ s.opened + a.requests <= MaxStreams
        /\ t = [s EXCEPT !.phase = "established", !.events = @ \o a.events,
                         !.opened = @ + a.requests]
  BY DEF Received
<1>2. s \in ConnectionState /\ s.opened \in 0..MaxStreams /\ s.events \in Seq(Events)
  BY DEF Sound, ConnectionState
<1> DEFINE new == (s.opened + 1)..(s.opened + a.requests)
           all == s.events \o a.events
<1>3. /\ a.events \in Seq(Events) /\ a.requests \in Nat
      /\ Waiting(a.events) = new /\ Once(a.events)
  BY <1>1, <1>2, ArrivalFacts, H3Assumption
<1>4. /\ new \subseteq Streams /\ new \cap 1..s.opened = {}
      /\ 1..(s.opened + a.requests) = 1..s.opened \cup new
      /\ s.opened + a.requests \in 0..MaxStreams
  BY <1>1, <1>2, <1>3, H3Assumption DEF Streams
<1>5. /\ 1..s.opened = Waiting(s.events) \cup s.answered
      /\ Waiting(s.events) \cap s.answered = {} /\ Once(s.events)
  BY DEF Sound, Accounted
<1> HIDE DEF new, all
<1>6. /\ all \in Seq(Events) /\ Once(all)
      /\ Waiting(all) = Waiting(s.events) \cup new
  <2>1. Waiting(s.events) \cap Waiting(a.events) = {}
    BY <1>3, <1>4, <1>5
  <2> QED
    BY <1>2, <1>3, <1>5, <2>1, MoreEvents DEF all
<1>7. /\ t.events = all /\ t.opened = s.opened + a.requests
      /\ t.answered = s.answered /\ t \in ConnectionState
  <2>1. t = [s EXCEPT !.phase = "established", !.events = all,
                      !.opened = s.opened + a.requests]
    BY <1>1 DEF all
  <2> QED
    BY <1>2, <1>4, <1>6, <2>1 DEF ConnectionState
<1>8. Accounted(t, {})
  BY <1>4, <1>5, <1>6, <1>7 DEF Accounted
<1> QED
  BY <1>6, <1>7, <1>8 DEF Sound

\* The connection after an event has been polled.
LEMMA PolledSound ==
  ASSUME NEW s, NEW serving, Sound(s, serving), s.events # << >>,
         NEW t, t = [s EXCEPT !.events = Tail(@)]
  PROVE  /\ t \in ConnectionState /\ Once(t.events) /\ t.phase = s.phase
         /\ Head(s.events) \in Events
         /\ Head(s.events)[1] # "headers" => Sound(t, serving)
         /\ \A n \in Streams :
              serving = {} /\ Head(s.events) = <<"headers", n>> => Sound(t, {n})
<1> DEFINE es == s.events
           rest == Tail(es)
<1>1. es \in Seq(Events) /\ s \in ConnectionState /\ Once(es) /\ Accounted(s, serving)
  BY DEF Sound, ConnectionState
<1>2. /\ rest \in Seq(Events) /\ Once(rest) /\ Head(es) \in Events
      /\ Head(es)[1] # "headers" => Waiting(rest) = Waiting(es)
      /\ \A n \in Streams : Head(es) = <<"headers", n>> =>
           n \in Waiting(es) /\ Waiting(rest) = Waiting(es) \ {n}
  BY <1>1, FewerEvents
<1>3. t = [s EXCEPT !.events = rest]
  OBVIOUS
<1> HIDE DEF rest
<1>4. /\ t \in ConnectionState /\ t.events = rest /\ t.opened = s.opened
      /\ t.answered = s.answered /\ t.phase = s.phase
  BY <1>1, <1>2, <1>3 DEF ConnectionState
<1>5. ASSUME Head(es)[1] # "headers" PROVE Sound(t, serving)
  BY <1>1, <1>2, <1>4, <1>5 DEF Sound, Accounted
<1>6. ASSUME NEW n \in Streams, serving = {}, Head(es) = <<"headers", n>>
      PROVE  Sound(t, {n})
  BY <1>1, <1>2, <1>4, <1>6 DEF Sound, Accounted
<1> QED
  BY <1>2, <1>4, <1>5, <1>6

-----------------------------------------------------------------------------
(* The loop *)

AllSound == \A d \in Cids : conns[d] # None => Sound(conns[d], InService(d))

IInv == TypeOK /\ TenantsOfConns /\ AllSound

Tenants == {Default} \cup {SniTenant[c] : c \in Clients}

LEMMA TenantFacts ==
  /\ None \notin Tenants
  /\ \A c \in Clients : Resolve(c) \in Tenants
  BY H3Assumption DEF Tenants, Resolve

LEMMA NoneIsNoState == \A s, serving : Sound(s, serving) => s # None /\ s \in ConnectionState
  BY H3Assumption DEF Sound

LEMMA InitIInv == Init => IInv
  BY DEF Init, IInv, TypeOK, TenantsOfConns, AllSound

\* Between requests nothing is in service.
LEMMA Quiet ==
  ASSUME IInv, loop # "reply"
  PROVE  request = None /\ response = None /\ \A d \in Cids : InService(d) = {}
  BY DEF IInv, TypeOK, InService

\* A step changes connection d only, to s, and the tenants as it should.
LEMMA OneConnection ==
  ASSUME IInv, NEW d \in Cids, NEW s, conns' = [conns EXCEPT ![d] = s],
         s # None => Sound(s, InService(d)'),
         \A e \in Cids \ {d} : InService(e)' = InService(e),
         NEW tenant, tenant_map' = [tenant_map EXCEPT ![d] = tenant],
         tenant \in Tenants \cup {None}, s = None <=> tenant = None
  PROVE  /\ conns' \in [Cids -> ConnectionState \cup {None}]
         /\ tenant_map' \in [Cids -> {Default, None} \cup {SniTenant[c] : c \in Clients}]
         /\ TenantsOfConns' /\ AllSound'
<1>1. /\ conns \in [Cids -> ConnectionState \cup {None}]
      /\ tenant_map \in [Cids -> {Default, None} \cup {SniTenant[c] : c \in Clients}]
      /\ TenantsOfConns /\ AllSound
  BY DEF IInv, TypeOK
<1>2. s \in ConnectionState \cup {None}
  BY NoneIsNoState
<1>3. /\ conns' \in [Cids -> ConnectionState \cup {None}]
      /\ conns'[d] = s /\ \A e \in Cids \ {d} : conns'[e] = conns[e]
  BY <1>1, <1>2
<1>4. /\ tenant_map' \in [Cids -> {Default, None} \cup {SniTenant[c] : c \in Clients}]
      /\ tenant_map'[d] = tenant /\ \A e \in Cids \ {d} : tenant_map'[e] = tenant_map[e]
  BY <1>1 DEF Tenants
<1>5. TenantsOfConns'
  BY <1>1, <1>3, <1>4 DEF TenantsOfConns
<1>6. ASSUME NEW e \in Cids, conns'[e] # None PROVE Sound(conns'[e], InService(e)')
  BY <1>1, <1>3, <1>6 DEF AllSound
<1>7. AllSound'
  BY <1>6 DEF AllSound
<1> QED
  BY <1>3, <1>4, <1>5, <1>7

\* The same, when the tenant stays.
LEMMA SameTenant ==
  ASSUME IInv, NEW d \in Cids, conns[d] # None, NEW s, conns' = [conns EXCEPT ![d] = s],
         Sound(s, InService(d)'),
         \A e \in Cids \ {d} : InService(e)' = InService(e),
         UNCHANGED tenant_map
  PROVE  /\ conns' \in [Cids -> ConnectionState \cup {None}]
         /\ tenant_map' \in [Cids -> {Default, None} \cup {SniTenant[c] : c \in Clients}]
         /\ TenantsOfConns' /\ AllSound'
<1>1. /\ tenant_map \in [Cids -> {Default, None} \cup {SniTenant[c] : c \in Clients}]
      /\ TenantsOfConns
  BY DEF IInv, TypeOK
<1>2. /\ tenant_map' = [tenant_map EXCEPT ![d] = tenant_map[d]]
      /\ tenant_map[d] \in Tenants \cup {None} /\ tenant_map[d] # None
  BY <1>1 DEF Tenants, TenantsOfConns
<1>3. s # None
  BY NoneIsNoState
<1> QED
  BY <1>2, <1>3, OneConnection

LEMMA ReceiveStep ==
  ASSUME IInv, NEW c \in Clients, NEW d \in Cids, Receive(c, d)
  PROVE  IInv'
<1> DEFINE state == IF conns[d] # None THEN conns[d] ELSE Accepted(c)
           tenant == IF conns[d] # None THEN tenant_map[d] ELSE Resolve(c)
<1>1. /\ loop = "select" /\ loop' \in {"select", "poll"} /\ dcid' \in Cids
      /\ UNCHANGED <<request, response>>
  BY DEF Receive, IInv, TypeOK
<1>2. /\ request' = None /\ response' = None
      /\ \A e \in Cids : InService(e) = {} /\ InService(e)' = {}
  BY <1>1, Quiet DEF InService
<1>3. Sound(state, {})
  BY <1>2, AcceptedSound DEF IInv, AllSound
<1>4. /\ tenant_map' = [tenant_map EXCEPT ![d] = tenant]
      /\ tenant \in Tenants
  <2>1. /\ tenant_map \in [Cids -> {Default, None} \cup {SniTenant[b] : b \in Clients}]
        /\ conns[d] # None => tenant_map[d] # None
    BY DEF IInv, TypeOK, TenantsOfConns
  <2> QED
    BY <2>1, TenantFacts DEF Receive, Tenants
<1>5. ASSUME NEW phase \in {"handshake", "established", "closed"}
      PROVE  Sound([state EXCEPT !.phase = phase], {})
  <2> DEFINE t == [state EXCEPT !.phase = phase]
  <2> HIDE DEF state
  <2>1. state \in ConnectionState
    BY <1>3, NoneIsNoState
  <2>2. /\ t \in ConnectionState /\ t.events = state.events /\ t.opened = state.opened
        /\ t.answered = state.answered
    BY <2>1 DEF ConnectionState
  <2> QED
    BY <1>3, <2>2, SameRequests
<1>6. state.phase \in {"handshake", "established", "closed"}
  BY <1>3, NoneIsNoState DEF ConnectionState
<1>7. \E s : conns' = [conns EXCEPT ![d] = s] /\ Sound(s, {})
  <2>1. CASE \E s \in RecvOk(c, state) : conns' = [conns EXCEPT ![d] = s]
    BY <1>3, <1>5, <2>1, ReceivedSound DEF RecvOk
  <2>2. CASE \E phase \in {state.phase, "closed"} :
               conns' = [conns EXCEPT ![d] = [state EXCEPT !.phase = phase]]
    BY <1>5, <1>6, <2>2
  <2> QED
    BY <2>1, <2>2 DEF Receive
<1>8. PICK s : conns' = [conns EXCEPT ![d] = s] /\ Sound(s, {})
  BY <1>7
<1>9. loop' = "poll" => dcid' = d
  BY <1>1 DEF Receive
<1> HIDE DEF state, tenant
<1>10. /\ conns' \in [Cids -> ConnectionState \cup {None}]
       /\ tenant_map' \in [Cids -> {Default, None} \cup {SniTenant[b] : b \in Clients}]
       /\ TenantsOfConns' /\ AllSound'
  <2>1. /\ s # None /\ tenant # None
        /\ \A e \in Cids \ {d} : InService(e)' = InService(e)
        /\ Sound(s, InService(d)')
    BY <1>2, <1>4, <1>8, NoneIsNoState, TenantFacts
  <2> QED
    BY <1>4, <1>8, <2>1, OneConnection
<1>11. conns'[d] # None
  BY <1>8, NoneIsNoState DEF IInv, TypeOK
<1> QED
  BY <1>1, <1>2, <1>9, <1>10, <1>11 DEF IInv, TypeOK

LEMMA SweepStep ==
  ASSUME IInv, NEW x, Sweep(x)
  PROVE  IInv'
<1>1. /\ loop = "select" /\ UNCHANGED <<loop, dcid, request, response>>
      /\ \A e \in Cids : InService(e) = {} /\ InService(e)' = {}
  BY Quiet DEF Sweep, InService
<1>2. /\ conns \in [Cids -> ConnectionState \cup {None}]
      /\ tenant_map \in [Cids -> {Default, None} \cup {SniTenant[c] : c \in Clients}]
  BY DEF IInv, TypeOK
<1>3. /\ conns' = [d \in Cids |-> IF d \in SweptOut(x) THEN None ELSE conns[d]]
      /\ tenant_map' = [d \in Cids |-> IF d \in SweptOut(x) THEN None ELSE tenant_map[d]]
  BY DEF Sweep
<1>4. /\ conns' \in [Cids -> ConnectionState \cup {None}]
      /\ tenant_map' \in [Cids -> {Default, None} \cup {SniTenant[c] : c \in Clients}]
      /\ \A d \in Cids :
           \/ conns'[d] = None /\ tenant_map'[d] = None
           \/ conns'[d] = conns[d] /\ tenant_map'[d] = tenant_map[d]
  BY <1>2, <1>3
<1>5. TypeOK'
  BY <1>1, <1>4 DEF IInv, TypeOK
<1>6. TenantsOfConns'
  BY <1>4 DEF IInv, TenantsOfConns
<1>7. AllSound'
  BY <1>1, <1>4 DEF IInv, AllSound
<1> QED
  BY <1>5, <1>6, <1>7 DEF IInv

\* The loop is busy with a connection that is there.
LEMMA Busy ==
  ASSUME IInv, loop # "select"
  PROVE  /\ dcid \in Cids /\ conns[dcid] # None /\ tenant_map[dcid] \in Tenants
         /\ Sound(conns[dcid], InService(dcid)) /\ conns[dcid] \in ConnectionState
<1>1. dcid \in Cids /\ conns[dcid] # None
  BY DEF IInv, TypeOK
<1>2. tenant_map[dcid] \in Tenants
  BY <1>1 DEF IInv, TypeOK, TenantsOfConns, Tenants
<1>3. Sound(conns[dcid], InService(dcid))
  BY <1>1 DEF IInv, AllSound
<1> QED
  BY <1>1, <1>2, <1>3, NoneIsNoState

LEMMA FlushStep ==
  ASSUME IInv, loop = "poll", NEW s, Sound(s, {}), FlushTo(s)
  PROVE  IInv'
<1>1. /\ dcid \in Cids /\ tenant_map[dcid] \in Tenants
      /\ request = None /\ response = None
      /\ loop' = "select" /\ UNCHANGED <<dcid, request, response>>
      /\ \A e \in Cids : InService(e) = {} /\ InService(e)' = {}
  BY Busy, Quiet DEF FlushTo, InService
<1> DEFINE t == IF s.phase = "closed" THEN None ELSE s
           tenant == IF s.phase = "closed" THEN None ELSE tenant_map[dcid]
<1>2. /\ conns' = [conns EXCEPT ![dcid] = t]
      /\ tenant_map' = [tenant_map EXCEPT ![dcid] = tenant]
  BY DEF FlushTo
<1>3. /\ t # None => Sound(t, {})
      /\ tenant \in Tenants \cup {None} /\ (t = None <=> tenant = None)
  BY <1>1, TenantFacts, NoneIsNoState
<1> HIDE DEF t, tenant
<1>4. /\ conns' \in [Cids -> ConnectionState \cup {None}]
      /\ tenant_map' \in [Cids -> {Default, None} \cup {SniTenant[c] : c \in Clients}]
      /\ TenantsOfConns' /\ AllSound'
  BY <1>1, <1>2, <1>3, OneConnection
<1> QED
  BY <1>1, <1>4 DEF IInv, TypeOK

\* The front event is polled and the loop goes on polling.
LEMMA PollStep ==
  ASSUME IInv, Polling, conns[dcid].events # << >>
  PROVE  /\ loop = "poll" /\ Sound(conns[dcid], {})
         /\ NextEvent \in Events
         /\ NextEvent[1] # "headers" =>
              Sound([conns[dcid] EXCEPT !.events = Tail(@)], {})
         /\ \A n \in Streams : NextEvent = <<"headers", n>> =>
              Sound([conns[dcid] EXCEPT !.events = Tail(@)], {n})
<1>1. loop = "poll"
  BY DEF Polling
<1>2. Sound(conns[dcid], {})
  BY <1>1, Busy, Quiet
<1> QED
  BY <1>1, <1>2, PolledSound DEF NextEvent

LEMMA StartH3Step ==
  ASSUME IInv, StartH3
  PROVE  IInv'
<1>1. /\ loop = "poll" /\ UNCHANGED <<tenant_map, loop, dcid, request, response>>
      /\ \A e \in Cids : InService(e)' = InService(e)
      /\ conns' = [conns EXCEPT ![dcid] = [conns[dcid] EXCEPT !.h3 = TRUE]]
  BY DEF StartH3, InService
<1>2. /\ dcid \in Cids /\ conns[dcid] # None /\ conns[dcid] \in ConnectionState
      /\ Sound(conns[dcid], InService(dcid))
  BY <1>1, Busy
<1> DEFINE s == conns[dcid]
           t == [s EXCEPT !.h3 = TRUE]
<1>3. Sound(t, InService(dcid)')
  <2>1. /\ t \in ConnectionState /\ t.events = s.events /\ t.opened = s.opened
        /\ t.answered = s.answered
    BY <1>2 DEF ConnectionState
  <2> HIDE DEF s, t
  <2>2. Sound(s, InService(dcid))
    BY <1>2 DEF s
  <2> QED
    BY <1>1, <1>2, <2>1, <2>2, SameRequests
<1>4. conns' = [conns EXCEPT ![dcid] = t]
  BY <1>1
<1> HIDE DEF t
<1>5. /\ conns' \in [Cids -> ConnectionState \cup {None}]
      /\ tenant_map' \in [Cids -> {Default, None} \cup {SniTenant[c] : c \in Clients}]
      /\ TenantsOfConns' /\ AllSound'
  BY <1>1, <1>2, <1>3, <1>4, SameTenant
<1>6. conns'[dcid] # None
  BY <1>2, <1>3, <1>4, NoneIsNoState DEF IInv, TypeOK
<1> QED
  BY <1>1, <1>5, <1>6 DEF IInv, TypeOK

LEMMA PollHeadersStep ==
  ASSUME IInv, PollHeaders
  PROVE  IInv'
<1> DEFINE t == [conns[dcid] EXCEPT !.events = Tail(@)]
           r == [dcid |-> dcid, stream |-> NextEvent[2], tenant |-> tenant_map[dcid]]
<1>1. /\ Polling /\ conns[dcid].events # << >> /\ NextEvent[1] = "headers"
      /\ conns' = [conns EXCEPT ![dcid] = t]
      /\ request' = r /\ loop' = "reply" /\ UNCHANGED <<tenant_map, dcid, response>>
  BY DEF PollHeaders
<1>2. loop = "poll" /\ NextEvent \in Events
  BY <1>1, PollStep
<1>3. /\ dcid \in Cids /\ conns[dcid] # None /\ tenant_map[dcid] \in Tenants
      /\ request = None /\ response = None /\ \A d \in Cids : InService(d) = {}
  BY <1>2, Busy, Quiet
<1>4. PICK n \in Streams : NextEvent = <<"headers", n>>
  BY <1>1, <1>2 DEF Events
<1>5. Sound(t, {n})
  BY <1>1, <1>4, PollStep
<1>6. r \in H3Requests /\ r.stream = n
  BY <1>3, <1>4 DEF H3Requests, Tenants
<1>7. r # None
  BY <1>6, H3Assumption
<1> HIDE DEF t, r
<1>8. /\ InService(dcid)' = {n}
      /\ \A d \in Cids \ {dcid} : InService(d)' = InService(d)
  BY <1>1, <1>3, <1>6, <1>7 DEF InService
<1>9. /\ conns' \in [Cids -> ConnectionState \cup {None}]
      /\ tenant_map' \in [Cids -> {Default, None} \cup {SniTenant[c] : c \in Clients}]
      /\ TenantsOfConns' /\ AllSound'
  BY <1>1, <1>3, <1>5, <1>8, SameTenant
<1>10. conns'[dcid] # None
  BY <1>1, <1>3, <1>5, NoneIsNoState DEF IInv, TypeOK
<1> QED
  BY <1>1, <1>3, <1>6, <1>7, <1>9, <1>10 DEF IInv, TypeOK

LEMMA PollDataStep ==
  ASSUME IInv, PollData
  PROVE  IInv'
<1> DEFINE t == [conns[dcid] EXCEPT !.events = Tail(@)]
<1>1. /\ Polling /\ conns[dcid].events # << >> /\ NextEvent[1] \in {"data", "reset"}
      /\ conns' = [conns EXCEPT ![dcid] = t]
      /\ UNCHANGED <<tenant_map, loop, dcid, request, response>>
  BY DEF PollData
<1>2. loop = "poll" /\ Sound(t, {})
  BY <1>1, PollStep
<1>3. /\ dcid \in Cids /\ conns[dcid] # None
      /\ \A d \in Cids : InService(d) = {} /\ InService(d)' = {}
  BY <1>1, <1>2, Busy, Quiet DEF InService
<1> HIDE DEF t
<1>4. /\ conns' \in [Cids -> ConnectionState \cup {None}]
      /\ tenant_map' \in [Cids -> {Default, None} \cup {SniTenant[c] : c \in Clients}]
      /\ TenantsOfConns' /\ AllSound'
  BY <1>1, <1>2, <1>3, SameTenant
<1>5. conns'[dcid] # None
  BY <1>1, <1>2, <1>3, NoneIsNoState DEF IInv, TypeOK
<1> QED
  BY <1>1, <1>4, <1>5 DEF IInv, TypeOK

LEMMA PollEndStep ==
  ASSUME IInv, PollFinished \/ PollDone \/ PollError
  PROVE  IInv'
<1>1. CASE PollFinished
  <2>1. loop = "poll" /\ Sound([conns[dcid] EXCEPT !.events = Tail(@)], {})
    BY <1>1, PollStep DEF PollFinished
  <2> QED
    BY <1>1, <2>1, FlushStep DEF PollFinished
<1>2. CASE PollDone \/ PollError
  <2>1. loop = "poll"
    BY <1>2 DEF PollDone, PollError, Polling
  <2>2. Sound(conns[dcid], {})
    BY <2>1, Busy, Quiet
  <2> QED
    BY <1>2, <2>1, <2>2, FlushStep DEF PollDone, PollError
<1> QED
  BY <1>1, <1>2

LEMMA ServeStep ==
  ASSUME IInv, Serve
  PROVE  IInv'
<1>1. /\ loop = "reply" /\ request \in H3Requests /\ request.stream \in Streams
      /\ UNCHANGED <<conns, tenant_map, loop, dcid>>
      /\ response' = request.stream /\ request' = None
  BY DEF Serve, IInv, TypeOK, H3Requests
<1>2. response' # None /\ response' \in Streams
  BY <1>1, H3Assumption
<1>3. \A d \in Cids : InService(d)' = InService(d)
  BY <1>1 DEF Serve, InService
<1>4. TypeOK'
  BY <1>1, <1>2 DEF IInv, TypeOK
<1>5. TenantsOfConns' /\ AllSound'
  BY <1>1, <1>3 DEF IInv, TenantsOfConns, AllSound
<1> QED
  BY <1>4, <1>5 DEF IInv

LEMMA ReplyStep ==
  ASSUME IInv, Reply
  PROVE  IInv'
<1> DEFINE s == conns[dcid]
           t == [s EXCEPT !.answered = @ \cup {response}]
<1>1. /\ loop = "reply" /\ response # None /\ response \in Streams /\ request = None
      /\ conns' = [conns EXCEPT ![dcid] = t]
      /\ response' = None /\ loop' = "poll" /\ UNCHANGED <<tenant_map, dcid, request>>
  BY DEF Reply, IInv, TypeOK
<1>2. /\ dcid \in Cids /\ s # None /\ s \in ConnectionState
      /\ InService(dcid) = {response} /\ Sound(s, {response})
  <2>1. dcid \in Cids /\ s # None /\ s \in ConnectionState /\ Sound(s, InService(dcid))
    BY <1>1, Busy
  <2>2. InService(dcid) = {response}
    BY <1>1 DEF InService
  <2> QED
    BY <2>1, <2>2
<1>3. \A d \in Cids : InService(d)' = {} /\ (d # dcid => InService(d) = {})
  BY <1>1 DEF InService
<1>4. Sound(t, {})
  <2> HIDE DEF s
  <2>1. /\ t \in ConnectionState /\ t.events = s.events /\ t.opened = s.opened
        /\ t.answered = s.answered \cup {response}
    BY <1>1, <1>2 DEF ConnectionState
  <2> HIDE DEF t
  <2> QED
    BY <1>2, <2>1 DEF Sound, Accounted
<1> HIDE DEF t
<1>5. /\ conns' \in [Cids -> ConnectionState \cup {None}]
      /\ tenant_map' \in [Cids -> {Default, None} \cup {SniTenant[c] : c \in Clients}]
      /\ TenantsOfConns' /\ AllSound'
  BY <1>1, <1>2, <1>3, <1>4, SameTenant
<1>6. conns'[dcid] # None
  BY <1>1, <1>2, <1>4, NoneIsNoState DEF IInv, TypeOK
<1> QED
  BY <1>1, <1>2, <1>5, <1>6 DEF IInv, TypeOK

LEMMA NextIInv == IInv /\ [Next]_vars => IInv'
<1> SUFFICES ASSUME IInv, [Next]_vars PROVE IInv'
  OBVIOUS
<1>1. CASE \E c \in Clients, d \in Cids : Receive(c, d)
  BY <1>1, ReceiveStep
<1>2. CASE AnySweep
  BY <1>2, SweepStep DEF AnySweep
<1>3. CASE LoopStep \/ PollError
  BY <1>3, StartH3Step, PollHeadersStep, PollDataStep, PollEndStep, ReplyStep DEF LoopStep
<1>4. CASE Serve
  BY <1>4, ServeStep
<1>5. CASE UNCHANGED vars
  BY <1>5 DEF vars, IInv, TypeOK, TenantsOfConns, AllSound, InService
<1> QED
  BY <1>1, <1>2, <1>3, <1>4, <1>5 DEF Next

LEMMA Invariance == Spec => []IInv
  BY InitIInv, NextIInv, PTL DEF Spec

(***************************************************************************)
(* Every variable keeps its type, the loop is never busy with a connection *)
(* that is gone, and it waits for an answer exactly when one is due.       *)
(***************************************************************************)
THEOREM TypeCorrect == Spec => []TypeOK
  BY Invariance, PTL DEF IInv

(***************************************************************************)
(* A tenant is kept for every connection and for nothing else.             *)
(***************************************************************************)
THEOREM TenantsAreOfConns == Spec => []TenantsOfConns
  BY Invariance, PTL DEF IInv

(***************************************************************************)
(* Every request of a connection is waiting, in service or answered.       *)
(***************************************************************************)
THEOREM RequestsAreAccounted == Spec => []RequestsAccounted
<1>1. IInv => RequestsAccounted
  BY DEF IInv, AllSound, Sound, RequestsAccounted
<1> QED
  BY <1>1, Invariance, PTL
=============================================================================
