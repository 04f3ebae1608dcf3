------------------------- MODULE ClientSession_proofs -------------------------
(***************************************************************************)
(* Theorems about the server, for any sets of connections, threads, ids    *)
(* and keys, and any limits, and about one client at work with it, for any *)
(* number of queries and calculation threads.                              *)
(***************************************************************************)
EXTENDS ClientSession, FiniteSetTheorems, SequenceTheorems, TLAPS

-----------------------------------------------------------------------------
(* Types and locals *)

\* What a handler's step says of its locals.
HandlerOK ==
    \A c \in Connections :
       /\ At(c, "keys") => handler[c].request \in KeysRequest
       /\ handler[c].step \in {"lookup", "push", "send_id"} =>
             handler[c].request \in QueryRequest
       /\ handler[c].step \in {"poll", "send_result"} =>
             handler[c].request \in ResultRequest
       /\ handler[c].step \in {"push", "send_result"} =>
             handler[c].query \in QueryType
       /\ At(c, "push") => handler[c].query.n = handler[c].request.n
       /\ At(c, "send_id") => handler[c].id \in Ids \cup {Refused}
       /\ At(c, "send_result") => handler[c].id \in Ids

\* What the state of a connection says of what is under way on it.
ConnOK ==
    \A c \in Connections :
       /\ conn[c].state # "open" =>
             conn[c].inbox = <<>> /\ conn[c].outbox = <<>>
       /\ conn[c].state = "new" => At(c, "idle")

\* What the state of a thread says of its job.
ThreadOK ==
    \A t \in Threads :
       /\ tpc[t] \in {"none", "run"} => job[t] = Absent
       /\ tpc[t] \in {"compute", "dead"} => job[t] \in JobType
       /\ server \in {"built", "listening"} => tpc[t] = "none"

LocalsOK == HandlerOK /\ ConnOK /\ ThreadOK

-----------------------------------------------------------------------------
(* The order of what is under way *)

\* The numbers of the requests that wait on a connection, and of the one its
\* handler works on.
Awaiting(c) == {conn[c].inbox[i].n : i \in DOMAIN conn[c].inbox}
InHand(c)   == IF At(c, "idle") THEN {} ELSE {handler[c].request.n}
Pending(c)  == Awaiting(c) \cup InHand(c)

\* A connection works off its requests in the order they were sent, and no
\* request is under way twice.
OrderOK ==
    /\ \A c \in Connections :
          /\ Pending(c) \subseteq 1 .. sent
          /\ \A i, j \in DOMAIN conn[c].inbox :
                i < j => conn[c].inbox[i].n < conn[c].inbox[j].n
          /\ \A n \in InHand(c), m \in Awaiting(c) : n < m
    /\ \A c, d \in Connections : c # d => Pending(c) \cap Pending(d) = {}

\* A request has no ticket before its query is pushed.
TicketsOK ==
    /\ \A n \in Numbers : n > sent => ticket[n] = NoId
    /\ \A c \in Connections :
          /\ \A n \in Awaiting(c) : ticket[n] = NoId
          /\ handler[c].step \in {"lookup", "push"} =>
                ticket[handler[c].request.n] = NoId

\* What is stored, computed or collected has the id of its ticket, and a
\* query is in one place at a time.
StoredOK(map) ==
    \A id \in Ids : Holds(map, id) =>
       ticket[map[id].n] = id /\ collector[map[id].n] = Absent

JobsOK ==
    \A t \in Threads : job[t] # Absent =>
       /\ ticket[job[t].query.n] = job[t].id
       /\ collector[job[t].query.n] = Absent

ApartOK ==
    /\ \A id \in Ids :
          Holds(qque, id) /\ Holds(rque, id) => qque[id].n # rque[id].n
    /\ \A t \in Threads : job[t] # Absent =>
          LET j == job[t]
          IN  /\ Holds(qque, j.id) => qque[j.id].n # j.query.n
              /\ Holds(rque, j.id) => rque[j.id].n # j.query.n
              /\ \A u \in Threads \ {t} :
                    job[u] # Absent => job[u].query.n # j.query.n

PlacedOK ==
    /\ StoredOK(qque) /\ StoredOK(rque) /\ JobsOK /\ ApartOK
    /\ \A n \in Numbers : collector[n] # Absent => ticket[n] \in Ids

-----------------------------------------------------------------------------
(* Keys and results *)

\* A query has keys, and they are those of its key id.
HasItsKeys(map, q) == q # Absent => q.keys # Absent /\ map[q.key_id] = q.keys

KeysHeld ==
    /\ \A c \in Connections : HasItsKeys(keymap, handler[c].query)
    /\ \A id \in Ids : HasItsKeys(keymap, qque[id]) /\ HasItsKeys(keymap, rque[id])
    /\ \A t \in Threads : job[t] # Absent => HasItsKeys(keymap, job[t].query)

\* The first keys a connection sent for an id are registered, or their
\* handler runs, or they are ahead of all later requests of the connection,
\* or went down with it while it was.
KeysAhead ==
    \A c \in Connections, k \in KeyIds :
       LET first == firstKeys[c][k]
       IN  first # 0 =>
              \/ Holds(keymap, k)
              \/ At(c, "keys") /\ handler[c].request.id = k
              \/ /\ ~At(c, "idle") => handler[c].request.n < first
                 /\ \/ conn[c].state = "closed"
                    \/ \E i \in DOMAIN conn[c].inbox :
                          /\ conn[c].inbox[i] \in KeysRequest
                          /\ conn[c].inbox[i].id = k
                          /\ conn[c].inbox[i].n = first

\* A result that was popped is being sent, was sent, or its connection broke.
CollectedOK ==
    \A n \in Numbers :
       LET c == collector[n]
       IN  c # Absent /\ n \notin delivered =>
              \/ conn[c].state = "closed"
              \/ At(c, "send_result") /\ handler[c].query.n = n

IndInv == /\ TypeOK /\ LocalsOK /\ OrderOK /\ TicketsOK /\ PlacedOK
          /\ KeysHeld /\ KeysAhead /\ CollectedOK

-----------------------------------------------------------------------------
(* Types *)

\* The two marks are no ids.
LEMMA MarksAreNoIds == NoId \notin Ids /\ Refused \notin Ids
  BY ParametersAssumption DEF NoId, Refused

\* A request under way is one of the three, and it has a number.
LEMMA RequestFacts ==
  ASSUME NEW r \in RequestType
  PROVE  /\ r.n \in Numbers
         /\ r.kind = "keys" => r \in KeysRequest
         /\ r.kind = "query" => r \in QueryRequest
         /\ r.kind \notin {"keys", "query"} => r \in ResultRequest
  BY DEF RequestType, KeysRequest, QueryRequest, ResultRequest

\* The server starts with types and locals in order.
LEMMA InitTypes == Init => TypeOK /\ LocalsOK
  BY ParametersAssumption
     DEF Init, TypeOK, LocalsOK, HandlerOK, ConnOK, ThreadOK, EmptyMap, Idle,
         Handlers, At, NoId

ConnType == [Connections -> [state : {"new", "open", "closed"},
                             inbox : Seq(RequestType), outbox : Seq(ReplyType)]]

HandlerState == [step : Handlers,
                 request : RequestType \cup {Absent},
                 query : QueryType \cup {Absent},
                 id : Ids \cup {Refused, NoId}]
HandlerType == [Connections -> [step : Handlers,
                                request : RequestType \cup {Absent},
                                query : QueryType \cup {Absent},
                                id : Ids \cup {Refused, NoId}]]

\* Changing one of a connection's two sequences leaves the rest alone.
LEMMA InboxUpdate ==
  ASSUME conn \in ConnType, NEW c \in Connections, NEW in \in Seq(RequestType),
         conn' = [conn EXCEPT ![c].inbox = in]
  PROVE  /\ conn' \in ConnType
         /\ \A d \in Connections : d # c => conn'[d] = conn[d]
         /\ conn'[c].state = conn[c].state
         /\ conn'[c].inbox = in
         /\ conn'[c].outbox = conn[c].outbox
<1> DEFINE I == Seq(RequestType)
           O == Seq(ReplyType)
<1>1. conn \in [Connections -> [state : {"new", "open", "closed"},
                              inbox : I, outbox : O]]
  BY DEF ConnType
<1>2. in \in I
  OBVIOUS
<1> HIDE DEF I, O
<1>3. conn' \in [Connections -> [state : {"new", "open", "closed"},
                              inbox : I, outbox : O]]
  BY <1>1, <1>2
<1> QED
  BY <1>1, <1>3 DEF ConnType, I, O

\* The same for what the server sends.
LEMMA OutboxUpdate ==
  ASSUME conn \in ConnType, NEW c \in Connections, NEW out \in Seq(ReplyType),
         conn' = [conn EXCEPT ![c].outbox = out]
  PROVE  /\ conn' \in ConnType
         /\ \A d \in Connections : d # c => conn'[d] = conn[d]
         /\ conn'[c].state = conn[c].state
         /\ conn'[c].inbox = conn[c].inbox
         /\ conn'[c].outbox = out
<1> DEFINE I == Seq(RequestType)
           O == Seq(ReplyType)
<1>1. conn \in [Connections -> [state : {"new", "open", "closed"},
                              inbox : I, outbox : O]]
  BY DEF ConnType
<1>2. out \in O
  OBVIOUS
<1> HIDE DEF I, O
<1>3. conn' \in [Connections -> [state : {"new", "open", "closed"},
                              inbox : I, outbox : O]]
  BY <1>1, <1>2
<1> QED
  BY <1>1, <1>3 DEF ConnType, I, O

\* A connection that breaks.
LEMMA BrokenTypes ==
  ASSUME TypeOK, ConnOK, NEW c \in Connections, conn' = Broken(c),
         \A d \in Connections : handler'[d] # handler[d] => d = c
  PROVE  conn' \in ConnType /\ ConnOK'
<1>1. /\ conn' \in ConnType
      /\ \A d \in Connections : conn'[d] = IF d = c
              THEN [state |-> "closed", inbox |-> <<>>, outbox |-> <<>>]
              ELSE conn[d]
  BY DEF TypeOK, Broken, ConnType
<1>2. ConnOK'
  BY <1>1 DEF ConnOK, At
<1> QED
  BY <1>1, <1>2

\* A handler that returns.
LEMMA ReturnTypes ==
  ASSUME TypeOK, HandlerOK, NEW c \in Connections, Return(c)
  PROVE  /\ handler' \in HandlerType
         /\ HandlerOK'
         /\ \A d \in Connections : handler'[d] = IF d = c THEN Idle ELSE handler[d]
<1>1. /\ handler' \in HandlerType
      /\ \A d \in Connections : handler'[d] = IF d = c THEN Idle ELSE handler[d]
  BY DEF TypeOK, HandlerType, Return, Idle, Handlers
<1>2. HandlerOK'
  BY <1>1 DEF HandlerOK, At, Idle
<1> QED
  BY <1>1, <1>2

\* A handler that throws.
LEMMA ThrowTypes ==
  ASSUME TypeOK, HandlerOK, ConnOK, NEW c \in Connections, Throw(c)
  PROVE  /\ handler' \in HandlerType /\ conn' \in ConnType
         /\ HandlerOK' /\ ConnOK'
<1>1. /\ handler' \in HandlerType
      /\ HandlerOK'
      /\ \A d \in Connections : handler'[d] = IF d = c THEN Idle ELSE handler[d]
  BY ReturnTypes DEF Throw
<1>2. CASE conn' = conn
  <2>1. ConnOK'
    BY <1>1, <1>2 DEF ConnOK, At, Idle
  <2> QED
    BY <1>1, <1>2, <2>1 DEF TypeOK, ConnType
<1>3. CASE conn' = Broken(c)
  BY <1>1, <1>3, BrokenTypes
<1> QED
  BY <1>2, <1>3 DEF Throw

\* A handler that sends its reply.
LEMMA ReplyTypes ==
  ASSUME TypeOK, HandlerOK, ConnOK, NEW c \in Connections,
         NEW reply \in ReplyType, Reply(c, reply)
  PROVE  /\ handler' \in HandlerType /\ conn' \in ConnType
         /\ HandlerOK' /\ ConnOK'
<1>1. CASE conn[c].state = "open"
  <2>1. /\ handler' \in HandlerType
        /\ HandlerOK'
        /\ \A d \in Connections : handler'[d] = IF d = c THEN Idle ELSE handler[d]
    BY <1>1, ReturnTypes DEF Reply
  <2>2. Append(conn[c].outbox, reply) \in Seq(ReplyType)
    BY DEF TypeOK
  <2>3. conn' = [conn EXCEPT ![c].outbox = Append(conn[c].outbox, reply)]
    BY <1>1 DEF Reply
  <2>4. /\ conn' \in ConnType
        /\ conn'[c].state = "open"
        /\ \A d \in Connections : d # c => conn'[d] = conn[d]
    BY <1>1, <2>2, <2>3, OutboxUpdate DEF TypeOK, ConnType
  <2>6. ConnOK'
    BY <2>1, <2>4 DEF ConnOK, At, Idle
  <2> QED
    BY <2>1, <2>4, <2>6
<1>2. CASE conn[c].state # "open"
  BY <1>2, ThrowTypes DEF Reply
<1> QED
  BY <1>1, <1>2

\* What a client sends arrives.
ArrivesAt(c, r) ==
    /\ Arrive(c, r)
    /\ UNCHANGED <<server, handler, keymap, managerVars, ticket, collector,
                   delivered>>

\* A client sends requests, with the next number.
LEMMA ClientRequests ==
  ASSUME TypeOK, NEW c \in Connections, ClientStep(c), ~Connect(c), ~Break(c)
  PROVE  \E r \in RequestType : r.n = sent + 1 /\ ArrivesAt(c, r)
<1>1. sent < MaxRequests
  BY DEF ClientStep, Arrive
<1>2. sent + 1 \in Numbers
  BY <1>1, ParametersAssumption DEF TypeOK, Numbers
<1>3. ASSUME NEW k \in KeyIds, NEW keys \in KeySets
      PROVE  /\ Request("keys", k, keys) \in RequestType
             /\ Request("keys", k, keys).n = sent + 1
  BY <1>2 DEF Request, RequestType, KeysRequest
<1>4. ASSUME NEW k \in KeyIds
      PROVE  /\ Request("query", k, Absent) \in RequestType
             /\ Request("query", k, Absent).n = sent + 1
  BY <1>2 DEF Request, RequestType, QueryRequest
<1>5. ASSUME NEW id \in Ids \cup {Refused}
      PROVE  /\ Request("result", id, Absent) \in RequestType
             /\ Request("result", id, Absent).n = sent + 1
  BY <1>2 DEF Request, RequestType, ResultRequest
<1> QED
  BY <1>3, <1>4, <1>5 DEF ClientStep, ArrivesAt

\* A request that arrives leaves types and locals in order.
LEMMA ArriveTypes ==
  ASSUME TypeOK, LocalsOK, NEW c \in Connections, NEW r \in RequestType,
         r.n = sent + 1, ArrivesAt(c, r)
  PROVE  TypeOK' /\ LocalsOK'
<1>1. Append(conn[c].inbox, r) \in Seq(RequestType)
  BY DEF TypeOK
<1>2. conn' = [conn EXCEPT ![c].inbox = Append(conn[c].inbox, r)]
  BY DEF ArrivesAt, Arrive
<1>3. /\ conn' \in ConnType
      /\ conn'[c].state = "open"
      /\ \A d \in Connections : d # c => conn'[d] = conn[d]
  BY <1>1, <1>2, InboxUpdate DEF ArrivesAt, Arrive, TypeOK, ConnType
<1>4. sent' \in 0 .. MaxRequests /\ r.n \in 0 .. MaxRequests
  BY ParametersAssumption DEF ArrivesAt, Arrive, TypeOK
<1>5. firstKeys' \in [Connections -> [KeyIds -> 0 .. MaxRequests]]
  BY <1>4 DEF ArrivesAt, Arrive, TypeOK
<1>6. TypeOK'
  BY <1>3, <1>4, <1>5 DEF ArrivesAt, TypeOK, ConnType, managerVars
<1>7. LocalsOK'
  BY <1>3 DEF ArrivesAt, LocalsOK, HandlerOK, ConnOK, ThreadOK, At, managerVars
<1> QED
  BY <1>6, <1>7

\* Every step keeps the types and the locals consistent.
LEMMA StepTypes ==
  TypeOK /\ LocalsOK /\ [Next]_serverVars => TypeOK' /\ LocalsOK'
<1> SUFFICES ASSUME TypeOK, LocalsOK, [Next]_serverVars PROVE TypeOK' /\ LocalsOK'
  OBVIOUS
<1> USE DEF managerVars, historyVars
<1>1. CASE Listen
  <2>1. server' = "listening" /\ server = "built"
    BY <1>1 DEF Listen
  <2>2. TypeOK'
    BY <1>1, <2>1 DEF Listen, TypeOK
  <2>3. LocalsOK'
    BY <1>1, <2>1 DEF Listen, LocalsOK, HandlerOK, ConnOK, ThreadOK, At
  <2> QED
    BY <2>2, <2>3
<1>2. CASE StartThreads
  <2>1. TypeOK'
    BY <1>2 DEF StartThreads, TypeOK
  <2>2. ThreadOK'
    BY <1>2 DEF StartThreads, TypeOK, LocalsOK, ThreadOK
  <2>3. LocalsOK'
    BY <1>2, <2>2 DEF StartThreads, LocalsOK, HandlerOK, ConnOK, At
  <2> QED
    BY <2>1, <2>3
<1>3. CASE Stop
  <2>1. TypeOK'
    BY <1>3 DEF Stop, TypeOK
  <2>2. HandlerOK' /\ ThreadOK'
    BY <1>3 DEF Stop, managerVars, LocalsOK, HandlerOK, ThreadOK, At
  <2>3. ConnOK'
    BY <1>3 DEF Stop, ConnOK
  <2> QED
    BY <2>1, <2>2, <2>3 DEF LocalsOK
<1>4. ASSUME NEW c \in Connections, Connect(c) PROVE TypeOK' /\ LocalsOK'
  <2>1. TypeOK'
    <3> DEFINE I == Seq(RequestType)
               O == Seq(ReplyType)
    <3>1. conn \in [Connections -> [state : {"new", "open", "closed"},
                                  inbox : I, outbox : O]]
      BY DEF TypeOK
    <3>2. conn' = [conn EXCEPT ![c].state = "open"]
      BY <1>4 DEF Connect
    <3> HIDE DEF I, O
    <3>3. conn' \in [Connections -> [state : {"new", "open", "closed"},
                                   inbox : I, outbox : O]]
      BY <3>1, <3>2
    <3> QED
      BY <1>4, <3>3 DEF Connect, TypeOK, managerVars, historyVars, I, O
  <2>2. /\ conn'[c].state = "open"
        /\ \A d \in Connections : d # c => conn'[d] = conn[d]
    BY <1>4 DEF Connect, TypeOK
  <2>3. LocalsOK'
    BY <1>4, <2>2 DEF Connect, LocalsOK, HandlerOK, ConnOK, ThreadOK, At
  <2> QED
    BY <2>1, <2>3
<1>5. ASSUME NEW c \in Connections, Break(c) PROVE TypeOK' /\ LocalsOK'
  <2>1. conn' \in ConnType /\ ConnOK'
    BY <1>5, BrokenTypes DEF Break, LocalsOK
  <2>2. TypeOK'
    BY <1>5, <2>1 DEF Break, TypeOK, ConnType
  <2>3. LocalsOK'
    BY <1>5, <2>1 DEF Break, LocalsOK, HandlerOK, ThreadOK, At
  <2> QED
    BY <2>2, <2>3
<1>6. ASSUME NEW c \in Connections, ClientStep(c), ~Connect(c), ~Break(c)
      PROVE  TypeOK' /\ LocalsOK'
  BY <1>6, ArriveTypes, ClientRequests
<1>7. ASSUME NEW c \in Connections, Receive(c) PROVE TypeOK' /\ LocalsOK'
  <2> DEFINE r == Head(conn[c].inbox)
  <2>1. conn[c].inbox \in Seq(RequestType) /\ conn[c].inbox # <<>>
    BY <1>7 DEF Receive, TypeOK
  <2>2. r \in RequestType /\ Tail(conn[c].inbox) \in Seq(RequestType)
    BY <2>1, HeadTailProperties
  <2>3. conn' = [conn EXCEPT ![c].inbox = Tail(conn[c].inbox)]
    BY <1>7 DEF Receive
  <2>4. /\ conn' \in ConnType
        /\ conn'[c].state = conn[c].state
        /\ \A d \in Connections : d # c => conn'[d] = conn[d]
    BY <2>2, <2>3, InboxUpdate DEF TypeOK, ConnType
  <2>5. conn[c].state = "open"
    BY <1>7, <2>1 DEF LocalsOK, ConnOK
  <2> DEFINE step == CASE r.kind = "keys"  -> "keys"
                       [] r.kind = "query" -> "lookup"
                       [] OTHER            -> "poll"
  <2>a. handler' = [handler EXCEPT ![c] = [Idle EXCEPT !.request = r, !.step = step]]
    BY <1>7 DEF Receive
  <2>c. /\ step \in {"keys", "lookup", "poll"}
        /\ step = "keys" => r.kind = "keys"
        /\ step = "lookup" => r.kind = "query"
        /\ step = "poll" => r.kind \notin {"keys", "query"}
    <3> HIDE DEF r
    <3> QED
      OBVIOUS
  <2> HIDE DEF step
  <2>7. /\ handler' \in HandlerType
        /\ handler'[c].step = step /\ handler'[c].request = r
        /\ \A d \in Connections : d # c => handler'[d] = handler[d]
    BY <2>2, <2>a, <2>c DEF TypeOK, HandlerType, Handlers, Idle
  <2>8. HandlerOK'
    BY <2>2, <2>c, <2>7, RequestFacts DEF LocalsOK, HandlerOK, At
  <2>9. ConnOK'
    BY <2>4, <2>5, <2>7 DEF LocalsOK, ConnOK, At
  <2>10. TypeOK'
    BY <1>7, <2>4, <2>7 DEF Receive, TypeOK, ConnType, HandlerType
  <2> QED
    BY <1>7, <2>8, <2>9, <2>10 DEF Receive, LocalsOK, ThreadOK
<1>8. ASSUME NEW c \in Connections, RegisterKeys(c) PROVE TypeOK' /\ LocalsOK'
  <2>1. handler[c].request \in KeysRequest
    BY <1>8 DEF RegisterKeys, LocalsOK, HandlerOK
  <2>2. handler[c].request.id \in KeyIds /\ handler[c].request.keys \in KeySets
    BY <2>1 DEF KeysRequest
  <2>3. keymap' \in [KeyIds -> KeySets \cup {Absent}]
    BY <1>8, <2>2 DEF RegisterKeys, Emplace, TypeOK
  <2>4. /\ handler' \in HandlerType /\ HandlerOK'
        /\ \A d \in Connections : handler'[d] = IF d = c THEN Idle ELSE handler[d]
    BY <1>8, ReturnTypes DEF RegisterKeys, LocalsOK
  <2>5. TypeOK'
    BY <1>8, <2>3, <2>4 DEF RegisterKeys, TypeOK, HandlerType
  <2>6. ConnOK'
    BY <1>8, <2>4 DEF RegisterKeys, LocalsOK, ConnOK, At, Idle
  <2> QED
    BY <1>8, <2>4, <2>5, <2>6 DEF RegisterKeys, LocalsOK, ThreadOK
<1>9. ASSUME NEW c \in Connections, LookUpKeys(c) PROVE TypeOK' /\ LocalsOK'
  <2> DEFINE r == handler[c].request
             q == Query(r, keymap[r.id])
  <2>a. r \in QueryRequest
    BY <1>9 DEF LookUpKeys, LocalsOK, HandlerOK, At
  <2>1. r \in QueryRequest /\ r.id \in KeyIds /\ r.n \in Numbers
    BY <2>a DEF QueryRequest
  <2>2. CASE Holds(keymap, r.id)
    <3>1. q \in QueryType /\ q.n = r.n
      BY <2>1, <2>2 DEF TypeOK, Holds, QueryType, Query
    <3>2. handler' = [handler EXCEPT ![c].step = "push", ![c].query = q]
      BY <1>9, <2>2 DEF LookUpKeys
    <3>a. handler' = [handler EXCEPT ![c] =
                         [handler[c] EXCEPT !.step = "push", !.query = q]]
      BY <3>2
    <3>3. /\ handler' \in HandlerType
          /\ handler'[c].step = "push" /\ handler'[c].query = q
          /\ handler'[c].request = r
          /\ \A d \in Connections : d # c => handler'[d] = handler[d]
      <4> DEFINE s == [handler[c] EXCEPT !.step = "push", !.query = q]
      <4>1. handler \in [Connections -> HandlerState]
        BY DEF TypeOK, HandlerState
      <4>2. /\ s \in HandlerState /\ s.step = "push" /\ s.query = q
            /\ s.request = r
        BY <3>1, <4>1 DEF HandlerState, Handlers
      <4>3. handler' = [handler EXCEPT ![c] = s]
        BY <3>a
      <4> HIDE DEF s, q, r
      <4>4. /\ handler' \in [Connections -> HandlerState] /\ handler'[c] = s
            /\ \A d \in Connections : d # c => handler'[d] = handler[d]
        BY <4>1, <4>2, <4>3
      <4> QED
        BY <4>2, <4>4 DEF HandlerType, HandlerState
    <3>4. HandlerOK'
      BY <2>1, <3>1, <3>3 DEF LocalsOK, HandlerOK, At
    <3>5. conn[c].state # "new"
      BY <1>9 DEF LookUpKeys, LocalsOK, ConnOK, At
    <3>6. ConnOK'
      BY <1>9, <2>2, <3>3, <3>5 DEF LookUpKeys, LocalsOK, ConnOK, At
    <3>7. TypeOK'
      BY <1>9, <2>2, <3>3 DEF LookUpKeys, TypeOK, HandlerType
    <3> QED
      BY <1>9, <3>4, <3>6, <3>7 DEF LookUpKeys, LocalsOK, ThreadOK
  <2>3. CASE ~Holds(keymap, r.id)
    <3>1. /\ handler' \in HandlerType /\ conn' \in ConnType
          /\ HandlerOK' /\ ConnOK'
      BY <1>9, <2>3, ThrowTypes DEF LookUpKeys, LocalsOK
    <3>2. TypeOK'
      BY <1>9, <3>1 DEF LookUpKeys, TypeOK, HandlerType, ConnType
    <3> QED
      BY <1>9, <3>1, <3>2 DEF LookUpKeys, LocalsOK, ThreadOK
  <2> QED
    BY <2>2, <2>3
<1>10. ASSUME NEW c \in Connections, PushQuery(c) PROVE TypeOK' /\ LocalsOK'
  <2> DEFINE q == handler[c].query
  <2>1. q \in QueryType
    BY <1>10 DEF PushQuery, LocalsOK, HandlerOK, At
  <2>2. q.n \in Numbers
    BY <2>1 DEF QueryType
  <2>3. handler[c].request \in QueryRequest /\ conn[c].state # "new"
    BY <1>10 DEF PushQuery, LocalsOK, HandlerOK, ConnOK, At
  <2>4. PICK id \in Ids, answer \in Ids \cup {Refused} :
           /\ answer \in {id, Refused}
           /\ qque' = IF answer = id THEN Emplace(qque, id, q) ELSE qque
           /\ ticket' = [ticket EXCEPT ![q.n] = answer]
           /\ handler' = [handler EXCEPT ![c].step = "send_id", ![c].id = answer]
    BY <1>10 DEF PushQuery
  <2>5. handler' = [handler EXCEPT ![c] =
                       [handler[c] EXCEPT !.step = "send_id", !.id = answer]]
    BY <2>4
  <2>6. /\ handler' \in HandlerType
        /\ handler'[c].step = "send_id" /\ handler'[c].id = answer
        /\ handler'[c].request = handler[c].request
        /\ \A d \in Connections : d # c => handler'[d] = handler[d]
    <3> DEFINE s == [handler[c] EXCEPT !.step = "send_id", !.id = answer]
    <3>1. handler \in [Connections -> HandlerState]
      BY DEF TypeOK, HandlerState
    <3>2. /\ s \in HandlerState /\ s.step = "send_id" /\ s.id = answer
          /\ s.request = handler[c].request
      BY <3>1 DEF HandlerState, Handlers
    <3>3. handler' = [handler EXCEPT ![c] = s]
      BY <2>5
    <3> HIDE DEF s
    <3>4. /\ handler' \in [Connections -> HandlerState] /\ handler'[c] = s
          /\ \A d \in Connections : d # c => handler'[d] = handler[d]
      BY <3>1, <3>2, <3>3
    <3> QED
      BY <3>2, <3>4 DEF HandlerType, HandlerState
  <2>7. HandlerOK'
    BY <2>3, <2>6 DEF LocalsOK, HandlerOK, At
  <2>8. ConnOK'
    BY <1>10, <2>3, <2>6 DEF PushQuery, LocalsOK, ConnOK, At
  <2>9. /\ qque' \in [Ids -> QueryType \cup {Absent}]
        /\ ticket' \in [Numbers -> Ids \cup {Refused, NoId}]
    BY <2>1, <2>2, <2>4 DEF TypeOK, Emplace
  <2>10. TypeOK'
    BY <1>10, <2>6, <2>9 DEF PushQuery, TypeOK, HandlerType
  <2> QED
    BY <1>10, <2>7, <2>8, <2>10 DEF PushQuery, LocalsOK, ThreadOK
<1>11. ASSUME NEW c \in Connections, SendQueryId(c) PROVE TypeOK' /\ LocalsOK'
  <2> DEFINE reply == [kind |-> "id", n |-> handler[c].request.n,
                       id |-> handler[c].id, query |-> Absent]
  <2>1. /\ handler[c].request \in QueryRequest
        /\ handler[c].id \in Ids \cup {Refused}
    BY <1>11 DEF SendQueryId, LocalsOK, HandlerOK, At
  <2>2. reply \in ReplyType
    BY <2>1 DEF QueryRequest, ReplyType
  <2>3. Reply(c, reply)
    BY <1>11 DEF SendQueryId
  <2>4. /\ handler' \in HandlerType /\ conn' \in ConnType
        /\ HandlerOK' /\ ConnOK'
    BY <2>2, <2>3, ReplyTypes DEF LocalsOK
  <2>5. TypeOK'
    BY <1>11, <2>4 DEF SendQueryId, TypeOK, HandlerType, ConnType
  <2> QED
    BY <1>11, <2>4, <2>5 DEF SendQueryId, LocalsOK, ThreadOK
<1>12. ASSUME NEW c \in Connections, PopResult(c) PROVE TypeOK' /\ LocalsOK'
  <2>1. PICK id \in Ids :
           /\ Holds(rque, id)
           /\ handler' = [handler EXCEPT ![c].step = "send_result",
                                         ![c].query = rque[id], ![c].id = id]
           /\ rque' = Erase(rque, id)
           /\ collector' = [collector EXCEPT ![rque[id].n] = c]
    BY <1>12 DEF PopResult, Poppable, Keys, Holds, TypeOK
  <2>2. rque[id] \in QueryType
    BY <2>1 DEF TypeOK, Holds
  <2>3. rque[id].n \in Numbers
    BY <2>2 DEF QueryType
  <2>4. handler[c].request \in ResultRequest /\ conn[c].state # "new"
    BY <1>12 DEF PopResult, LocalsOK, HandlerOK, ConnOK, At
  <2>5. handler' = [handler EXCEPT ![c] =
                       [handler[c] EXCEPT !.step = "send_result",
                                          !.query = rque[id], !.id = id]]
    BY <2>1
  <2>6. /\ handler' \in HandlerType
        /\ handler'[c].step = "send_result" /\ handler'[c].id = id
        /\ handler'[c].query = rque[id]
        /\ handler'[c].request = handler[c].request
        /\ \A d \in Connections : d # c => handler'[d] = handler[d]
    <3> DEFINE s == [handler[c] EXCEPT !.step = "send_result",
                                       !.query = rque[id], !.id = id]
    <3>1. handler \in [Connections -> HandlerState]
      BY DEF TypeOK, HandlerState
    <3>2. /\ s \in HandlerState /\ s.step = "send_result" /\ s.id = id
          /\ s.query = rque[id] /\ s.request = handler[c].request
      BY <2>2, <3>1 DEF HandlerState, Handlers
    <3>3. handler' = [handler EXCEPT ![c] = s]
      BY <2>5
    <3> HIDE DEF s
    <3>4. /\ handler' \in [Connections -> HandlerState] /\ handler'[c] = s
          /\ \A d \in Connections : d # c => handler'[d] = handler[d]
      BY <3>1, <3>2, <3>3
    <3> QED
      BY <3>2, <3>4 DEF HandlerType, HandlerState
  <2>7. HandlerOK'
    BY <2>2, <2>4, <2>6 DEF LocalsOK, HandlerOK, At
  <2>8. ConnOK'
    BY <1>12, <2>4, <2>6 DEF PopResult, LocalsOK, ConnOK, At
  <2>9. /\ rque' \in [Ids -> QueryType \cup {Absent}]
        /\ collector' \in [Numbers -> Connections \cup {Absent}]
    BY <2>1, <2>3 DEF TypeOK, Erase
  <2>10. TypeOK'
    BY <1>12, <2>6, <2>9 DEF PopResult, TypeOK, HandlerType
  <2> QED
    BY <1>12, <2>7, <2>8, <2>10 DEF PopResult, LocalsOK, ThreadOK
<1>13. ASSUME NEW c \in Connections, SendResult(c) PROVE TypeOK' /\ LocalsOK'
  <2> DEFINE q == handler[c].query
             reply == [kind |-> "result", n |-> handler[c].request.n,
                       id |-> handler[c].id, query |-> q]
  <2>1. /\ handler[c].request \in ResultRequest
        /\ q \in QueryType /\ handler[c].id \in Ids
    BY <1>13 DEF SendResult, LocalsOK, HandlerOK, At
  <2>2. q.n \in Numbers
    BY <2>1 DEF QueryType
  <2>3. reply \in ReplyType
    BY <2>1 DEF ResultRequest, ReplyType
  <2>4. Reply(c, reply) \/ Throw(c)
    BY <1>13 DEF SendResult
  <2>5. /\ handler' \in HandlerType /\ conn' \in ConnType
        /\ HandlerOK' /\ ConnOK'
    BY <2>3, <2>4, ReplyTypes, ThrowTypes DEF LocalsOK
  <2>6. delivered' \subseteq Numbers
    BY <1>13, <2>2 DEF SendResult, TypeOK
  <2>7. TypeOK'
    BY <1>13, <2>5, <2>6 DEF SendResult, TypeOK, HandlerType, ConnType
  <2> QED
    BY <1>13, <2>5, <2>7 DEF SendResult, LocalsOK, ThreadOK
<1>14. ASSUME NEW t \in Threads, TakeQuery(t) PROVE TypeOK' /\ LocalsOK'
  <2>1. PICK id \in Ids :
           /\ Holds(qque, id)
           /\ job' = [job EXCEPT ![t] = [id |-> id, query |-> qque[id]]]
           /\ qque' = Erase(qque, id)
    BY <1>14 DEF TakeQuery, Front, Keys, Holds, TypeOK
  <2>2. [id |-> id, query |-> qque[id]] \in JobType
    BY <2>1 DEF TypeOK, Holds, JobType
  <2>3. /\ qque' \in [Ids -> QueryType \cup {Absent}]
        /\ job' \in [Threads -> JobType \cup {Absent}]
        /\ tpc' \in [Threads -> {"none", "run", "compute", "dead"}]
    BY <1>14, <2>1, <2>2 DEF TakeQuery, TypeOK, Erase
  <2>4. ThreadOK'
    BY <1>14, <2>1, <2>2 DEF TakeQuery, TypeOK, LocalsOK, ThreadOK
  <2>5. TypeOK'
    BY <1>14, <2>3 DEF TakeQuery, TypeOK
  <2> QED
    BY <1>14, <2>4, <2>5 DEF TakeQuery, LocalsOK, HandlerOK, ConnOK, At
<1>15. ASSUME NEW t \in Threads, Conclude(t) PROVE TypeOK' /\ LocalsOK'
  <2>1. job[t] \in JobType
    BY <1>15 DEF Conclude, LocalsOK, ThreadOK
  <2>2. job[t].id \in Ids /\ job[t].query \in QueryType
    BY <2>1 DEF JobType
  <2>3. /\ rque' \in [Ids -> QueryType \cup {Absent}]
        /\ job' \in [Threads -> JobType \cup {Absent}]
        /\ tpc' \in [Threads -> {"none", "run", "compute", "dead"}]
    BY <1>15, <2>2 DEF Conclude, TypeOK, Emplace
  <2>4. ThreadOK'
    BY <1>15, <2>1 DEF Conclude, TypeOK, LocalsOK, ThreadOK
  <2>5. TypeOK'
    BY <1>15, <2>3 DEF Conclude, TypeOK
  <2> QED
    BY <1>15, <2>4, <2>5 DEF Conclude, LocalsOK, HandlerOK, ConnOK, At
<1>16. CASE UNCHANGED serverVars
  BY <1>16 DEF serverVars, TypeOK, LocalsOK, HandlerOK, ConnOK, ThreadOK, At
<1> QED
  BY <1>1, <1>2, <1>3, <1>4, <1>5, <1>6, <1>7, <1>8, <1>9, <1>10, <1>11, <1>12,
     <1>13, <1>14, <1>15, <1>16 DEF Next, HandlerStep, ThreadStep

\* TypeOK and LocalsOK hold in every reachable state of the server.
THEOREM TypeCorrect == Spec => [](TypeOK /\ LocalsOK)
<1>1. Init => TypeOK /\ LocalsOK
  BY InitTypes
<1>2. TypeOK /\ LocalsOK /\ [Next]_serverVars => (TypeOK /\ LocalsOK)'
  BY StepTypes
<1> QED
  BY <1>1, <1>2, PTL DEF Spec

-----------------------------------------------------------------------------
(* What a step does to what is under way                                   *)

\* A step that neither receives a request nor takes one from a connection:
\* what waits stays or goes down with the connection, a handler keeps its
\* request until it returns, and the handler of keys registers some.
Quiet ==
    /\ sent' = sent /\ firstKeys' = firstKeys
    /\ \A k \in KeyIds : Holds(keymap, k) => Holds(keymap', k)
    /\ \A c \in Connections :
          /\ \/ conn'[c].inbox = conn[c].inbox
             \/ conn'[c].inbox = <<>> /\ conn'[c].state = "closed"
          /\ conn[c].state = "closed" => conn'[c].state = "closed"
          /\ ~At(c, "idle")' => /\ ~At(c, "idle")
                                /\ handler'[c].request = handler[c].request
          /\ handler'[c].step \in {"lookup", "push"} =>
                handler[c].step \in {"lookup", "push"}
          /\ At(c, "keys") => \/ At(c, "keys")'
                              \/ Holds(keymap', handler[c].request.id)

\* The handler of c is at a later step of the same call, or has returned.
LEMMA QuietHandler ==
  ASSUME TypeOK, NEW c \in Connections, ~At(c, "idle"), ~At(c, "keys"),
         sent' = sent, firstKeys' = firstKeys, keymap' = keymap,
         \A d \in Connections :
            /\ \/ conn'[d].inbox = conn[d].inbox
               \/ conn'[d].inbox = <<>> /\ conn'[d].state = "closed"
            /\ conn[d].state = "closed" => conn'[d].state = "closed",
         \A d \in Connections : d # c => handler'[d] = handler[d],
         \/ At(c, "idle")'
         \/ /\ handler'[c].request = handler[c].request
            /\ handler'[c].step \in {"lookup", "push"} =>
                  handler[c].step \in {"lookup", "push"}
  PROVE  Quiet
  BY DEF Quiet, At

\* Breaking a connection, and sending a reply over it, leaves the requests of
\* the others alone.
LEMMA ConnSteps ==
  ASSUME TypeOK, NEW c \in Connections, NEW reply \in ReplyType,
         \/ conn' = conn
         \/ conn' = Broken(c)
         \/ /\ conn[c].state = "open"
            /\ conn' = [conn EXCEPT ![c].outbox = Append(@, reply)]
  PROVE  \A d \in Connections :
            /\ \/ conn'[d].inbox = conn[d].inbox
               \/ conn'[d].inbox = <<>> /\ conn'[d].state = "closed"
            /\ conn[d].state = "closed" => conn'[d].state = "closed"
<1>1. CASE conn' = conn
  BY <1>1
<1>2. CASE conn' = Broken(c)
  BY <1>2 DEF Broken, TypeOK
<1>3. CASE /\ conn[c].state = "open"
           /\ conn' = [conn EXCEPT ![c].outbox = Append(@, reply)]
  <2>1. Append(conn[c].outbox, reply) \in Seq(ReplyType)
    BY DEF TypeOK
  <2>2. conn' = [conn EXCEPT ![c].outbox = Append(conn[c].outbox, reply)]
    BY <1>3
  <2> QED
    BY <2>1, <2>2, OutboxUpdate DEF TypeOK, ConnType
<1> QED
  BY <1>1, <1>2, <1>3

\* Sending a reply or failing to ends the handler.
LEMMA ReplySteps ==
  ASSUME TypeOK, NEW c \in Connections, NEW reply \in ReplyType,
         Reply(c, reply) \/ Throw(c)
  PROVE  /\ handler'[c] = Idle
         /\ \A d \in Connections : d # c => handler'[d] = handler[d]
         /\ \A d \in Connections :
               /\ \/ conn'[d].inbox = conn[d].inbox
                  \/ conn'[d].inbox = <<>> /\ conn'[d].state = "closed"
               /\ conn[d].state = "closed" => conn'[d].state = "closed"
<1>1. handler' = [handler EXCEPT ![c] = Idle]
  BY DEF Reply, Throw, Return
<1>2. \/ conn' = conn
      \/ conn' = Broken(c)
      \/ /\ conn[c].state = "open"
         /\ conn' = [conn EXCEPT ![c].outbox = Append(@, reply)]
  BY DEF Reply, Throw
<1>3. \A d \in Connections :
         /\ \/ conn'[d].inbox = conn[d].inbox
            \/ conn'[d].inbox = <<>> /\ conn'[d].state = "closed"
         /\ conn[d].state = "closed" => conn'[d].state = "closed"
  BY <1>2, ConnSteps
<1> QED
  BY <1>1, <1>3 DEF TypeOK

\* Every step is quiet, or receives a request, or a request arrives.
LEMMA StepShape ==
  ASSUME TypeOK, LocalsOK, [Next]_serverVars
  PROVE  \/ Quiet
         \/ \E c \in Connections : Receive(c)
         \/ \E c \in Connections, r \in RequestType :
               r.n = sent + 1 /\ ArrivesAt(c, r)
<1> USE DEF managerVars, historyVars
<1>1. ASSUME Listen \/ StartThreads \/ Stop \/ UNCHANGED serverVars PROVE Quiet
  BY <1>1 DEF Listen, StartThreads, Stop, serverVars, Quiet, At, TypeOK
<1>2. ASSUME NEW c \in Connections, Connect(c) PROVE Quiet
  BY <1>2 DEF Connect, Quiet, At, TypeOK
<1>3. ASSUME NEW c \in Connections, Break(c) PROVE Quiet
  BY <1>3 DEF Break, Broken, Quiet, At, TypeOK
<1>4. ASSUME NEW c \in Connections, RegisterKeys(c) PROVE Quiet
  <2>1. handler[c].request \in KeysRequest
    BY <1>4 DEF RegisterKeys, LocalsOK, HandlerOK
  <2>2. handler[c].request.id \in KeyIds /\ handler[c].request.keys \in KeySets
    BY <2>1 DEF KeysRequest
  <2>3. /\ \A k \in KeyIds : Holds(keymap, k) => Holds(keymap', k)
        /\ Holds(keymap', handler[c].request.id)
    BY <1>4, <2>2, AbsentAssumption DEF RegisterKeys, Emplace, Holds, TypeOK
  <2>4. handler' = [handler EXCEPT ![c] = Idle]
    BY <1>4 DEF RegisterKeys, Return
  <2> QED
    BY <1>4, <2>3, <2>4 DEF RegisterKeys, Quiet, At, Idle, TypeOK
<1>5. ASSUME NEW c \in Connections, LookUpKeys(c) PROVE Quiet
  <2>1. /\ At(c, "lookup") /\ ~At(c, "idle") /\ ~At(c, "keys")
        /\ sent' = sent /\ firstKeys' = firstKeys /\ keymap' = keymap
    BY <1>5 DEF LookUpKeys, At
  <2>2. CASE Throw(c)
    <3>1. ReplyType # {}
      <4>1. handler[c].request.n \in Numbers
        BY <2>1 DEF LocalsOK, HandlerOK, QueryRequest, At
      <4>2. [kind |-> "id", n |-> handler[c].request.n, id |-> Refused,
             query |-> Absent] \in ReplyType
        BY <4>1 DEF ReplyType
      <4> QED
        BY <4>2
    <3> QED
      BY <2>1, <2>2, <3>1, ReplySteps, QuietHandler DEF At, Idle
  <2>3. CASE ~Throw(c)
    <3>1. /\ conn' = conn
          /\ handler' = [handler EXCEPT ![c].step = "push",
               ![c].query = Query(handler[c].request, keymap[handler[c].request.id])]
      BY <1>5, <2>3 DEF LookUpKeys
    <3>2. /\ \A d \in Connections : d # c => handler'[d] = handler[d]
          /\ handler'[c].request = handler[c].request
      BY <3>1 DEF TypeOK
    <3> QED
      BY <2>1, <3>1, <3>2, QuietHandler DEF At
  <2> QED
    BY <2>2, <2>3
<1>6. ASSUME NEW c \in Connections, PushQuery(c) PROVE Quiet
  <2>1. PICK answer : handler' = [handler EXCEPT ![c].step = "send_id", ![c].id = answer]
    BY <1>6 DEF PushQuery
  <2>2. /\ \A d \in Connections : d # c => handler'[d] = handler[d]
        /\ handler'[c].request = handler[c].request
        /\ handler'[c].step = "send_id"
    BY <2>1 DEF TypeOK
  <2> QED
    BY <1>6, <2>2, QuietHandler DEF PushQuery, At
<1>7. ASSUME NEW c \in Connections, PopResult(c) PROVE Quiet
  <2>1. PICK id, q : handler' = [handler EXCEPT ![c].step = "send_result",
                                               ![c].query = q, ![c].id = id]
    BY <1>7 DEF PopResult
  <2>2. /\ \A d \in Connections : d # c => handler'[d] = handler[d]
        /\ handler'[c].request = handler[c].request
        /\ handler'[c].step = "send_result"
    BY <2>1 DEF TypeOK
  <2> QED
    BY <1>7, <2>2, QuietHandler DEF PopResult, At
<1>8. ASSUME NEW c \in Connections, SendQueryId(c) PROVE Quiet
  <2> DEFINE reply == [kind |-> "id", n |-> handler[c].request.n,
                       id |-> handler[c].id, query |-> Absent]
  <2>1. reply \in ReplyType
    BY <1>8 DEF SendQueryId, LocalsOK, HandlerOK, At, QueryRequest, ReplyType
  <2>2. Reply(c, reply)
    BY <1>8 DEF SendQueryId
  <2> QED
    BY <1>8, <2>1, <2>2, ReplySteps, QuietHandler DEF SendQueryId, At, Idle
<1>9. ASSUME NEW c \in Connections, SendResult(c) PROVE Quiet
  <2> DEFINE reply == [kind |-> "result", n |-> handler[c].request.n,
                       id |-> handler[c].id, query |-> handler[c].query]
  <2>1. reply \in ReplyType
    BY <1>9 DEF SendResult, LocalsOK, HandlerOK, At, ResultRequest, ReplyType
  <2>2. Reply(c, reply) \/ Throw(c)
    BY <1>9 DEF SendResult
  <2> QED
    BY <1>9, <2>1, <2>2, ReplySteps, QuietHandler DEF SendResult, At, Idle
<1>10. ASSUME NEW t \in Threads, ThreadStep(t) PROVE Quiet
  BY <1>10 DEF ThreadStep, TakeQuery, Conclude, Quiet, At
<1>11. ASSUME NEW c \in Connections, ClientStep(c), ~Connect(c), ~Break(c)
       PROVE  \E r \in RequestType : r.n = sent + 1 /\ ArrivesAt(c, r)
  BY <1>11, ClientRequests
<1> QED
  BY <1>1, <1>2, <1>3, <1>4, <1>5, <1>6, <1>7, <1>8, <1>9, <1>10, <1>11
     DEF Next, HandlerStep

-----------------------------------------------------------------------------
(* The order of requests                                                   *)

\* Receiving takes the first request off its connection.
LEMMA ReceiveFacts ==
  ASSUME TypeOK, NEW c \in Connections, Receive(c)
  PROVE  LET s == conn[c].inbox
         IN  /\ s \in Seq(RequestType) /\ Len(s) > 0 /\ s[1] \in RequestType
             /\ conn'[c].inbox \in Seq(RequestType)
             /\ Len(conn'[c].inbox) = Len(s) - 1
             /\ \A i \in 1 .. Len(s) - 1 : conn'[c].inbox[i] = s[i + 1]
             /\ \A d \in Connections : d # c => conn'[d] = conn[d]
             /\ \A d \in Connections : conn'[d].state = conn[d].state
             /\ handler'[c].request = s[1]
             /\ handler'[c].step = IF s[1].kind = "keys" THEN "keys"
                                  ELSE IF s[1].kind = "query" THEN "lookup"
                                  ELSE "poll"
             /\ handler'[c].query = Absent
             /\ \A d \in Connections : d # c => handler'[d] = handler[d]
<1> DEFINE s == conn[c].inbox
<1>1. s \in Seq(RequestType) /\ s # <<>>
  BY DEF Receive, TypeOK
<1>2. /\ Len(s) > 0 /\ s[1] \in RequestType /\ Head(s) = s[1]
      /\ Tail(s) \in Seq(RequestType) /\ Len(Tail(s)) = Len(s) - 1
      /\ \A i \in 1 .. Len(s) - 1 : Tail(s)[i] = s[i + 1]
  BY <1>1, HeadTailProperties, LenProperties
<1>3. conn' = [conn EXCEPT ![c].inbox = Tail(s)]
  BY DEF Receive
<1>4. /\ conn'[c].inbox = Tail(s)
      /\ \A d \in Connections : d # c => conn'[d] = conn[d]
      /\ \A d \in Connections : conn'[d].state = conn[d].state
  BY <1>2, <1>3, InboxUpdate DEF TypeOK, ConnType
<1> DEFINE step == CASE s[1].kind = "keys"  -> "keys"
                     [] s[1].kind = "query" -> "lookup"
                     [] OTHER               -> "poll"
<1>5. handler' = [handler EXCEPT ![c] = [Idle EXCEPT !.request = s[1], !.step = step]]
  BY <1>2 DEF Receive
<1>6. step = IF s[1].kind = "keys" THEN "keys"
             ELSE IF s[1].kind = "query" THEN "lookup" ELSE "poll"
  OBVIOUS
<1> HIDE DEF s, step
<1>7. /\ handler'[c].request = s[1]
      /\ handler'[c].step = step
      /\ handler'[c].query = Absent
      /\ \A d \in Connections : d # c => handler'[d] = handler[d]
  BY <1>5 DEF TypeOK, Idle
<1> QED
  BY <1>1, <1>2, <1>4, <1>6, <1>7 DEF s

\* A request that arrives goes to the end of its connection.
LEMMA ArriveFacts ==
  ASSUME TypeOK, NEW c \in Connections, NEW r \in RequestType, ArrivesAt(c, r)
  PROVE  LET s == conn[c].inbox
         IN  /\ s \in Seq(RequestType) /\ Len(s) \in Nat
             /\ conn'[c].inbox \in Seq(RequestType)
             /\ Len(conn'[c].inbox) = Len(s) + 1
             /\ \A i \in 1 .. Len(s) : conn'[c].inbox[i] = s[i]
             /\ conn'[c].inbox[Len(s) + 1] = r
             /\ \A d \in Connections : d # c => conn'[d] = conn[d]
             /\ \A d \in Connections : conn'[d].state = conn[d].state
             /\ handler' = handler /\ keymap' = keymap /\ ticket' = ticket
<1> DEFINE s == conn[c].inbox
<1>1. s \in Seq(RequestType)
  BY DEF TypeOK
<1>2. /\ Append(s, r) \in Seq(RequestType) /\ Len(s) \in Nat
      /\ Len(Append(s, r)) = Len(s) + 1
      /\ \A i \in 1 .. Len(s) : Append(s, r)[i] = s[i]
      /\ Append(s, r)[Len(s) + 1] = r
  BY <1>1, AppendProperties, LenProperties
<1>3. conn' = [conn EXCEPT ![c].inbox = Append(s, r)]
  BY DEF ArrivesAt, Arrive
<1>4. /\ conn'[c].inbox = Append(s, r)
      /\ \A d \in Connections : d # c => conn'[d] = conn[d]
      /\ \A d \in Connections : conn'[d].state = conn[d].state
  BY <1>2, <1>3, InboxUpdate DEF TypeOK, ConnType
<1> QED
  BY <1>1, <1>2, <1>4 DEF ArrivesAt

\* What a step makes of the numbers under way on a connection.
LEMMA QuietPending ==
  ASSUME Quiet, NEW c \in Connections
  PROVE  Awaiting(c)' \subseteq Awaiting(c) /\ InHand(c)' \subseteq InHand(c)
<1>1. InHand(c)' \subseteq InHand(c)
  BY DEF Quiet, InHand, At
<1>2. Awaiting(c)' \subseteq Awaiting(c)
  BY DEF Quiet, Awaiting
<1> QED
  BY <1>1, <1>2

\* Receiving makes the first number waiting the one in hand.
LEMMA ReceivePending ==
  ASSUME TypeOK, OrderOK, NEW c \in Connections, Receive(c)
  PROVE  LET n == conn[c].inbox[1].n
         IN  /\ InHand(c)' = {n} /\ n \in Awaiting(c)
             /\ Awaiting(c)' \subseteq Awaiting(c)
             /\ \A m \in Awaiting(c)' : n < m
             /\ \A d \in Connections : d # c =>
                   Awaiting(d)' = Awaiting(d) /\ InHand(d)' = InHand(d)
<1> DEFINE s == conn[c].inbox
           w == conn'[c].inbox
<1>1. /\ s \in Seq(RequestType) /\ Len(s) > 0 /\ Len(s) \in Nat
      /\ w \in Seq(RequestType) /\ Len(w) = Len(s) - 1
      /\ \A i \in 1 .. Len(s) - 1 : w[i] = s[i + 1]
      /\ \A d \in Connections : d # c => conn'[d] = conn[d]
      /\ handler'[c].request = s[1] /\ handler'[c].step # "idle"
      /\ \A d \in Connections : d # c => handler'[d] = handler[d]
  BY ReceiveFacts, LenProperties
<1>2. DOMAIN s = 1 .. Len(s) /\ DOMAIN w = 1 .. Len(s) - 1
  BY <1>1, LenProperties
<1>3. InHand(c)' = {s[1].n}
  BY <1>1 DEF InHand, At
<1>4. s[1].n \in Awaiting(c)
  BY <1>1, <1>2 DEF Awaiting
<1>5. ASSUME NEW m \in Awaiting(c)' PROVE m \in Awaiting(c) /\ s[1].n < m
  <2>1. PICK i \in 1 .. Len(s) - 1 : m = w[i].n
    BY <1>2 DEF Awaiting
  <2>a. m = s[i + 1].n
    BY <1>1, <2>1
  <2>b. Len(s) > 0 /\ Len(s) \in Nat
    BY <1>1
  <2>2. i + 1 \in 1 .. Len(s) /\ 1 \in 1 .. Len(s) /\ 1 < i + 1 /\ m = s[i + 1].n
    <3> HIDE DEF s
    <3> QED
      BY <2>a, <2>b
  <2>3. s[1].n < s[i + 1].n
    BY <1>2, <2>2 DEF OrderOK
  <2> QED
    BY <1>2, <2>2, <2>3 DEF Awaiting
<1>6. ASSUME NEW d \in Connections, d # c
      PROVE  Awaiting(d)' = Awaiting(d) /\ InHand(d)' = InHand(d)
  <2>1. conn'[d] = conn[d] /\ handler'[d] = handler[d]
    BY <1>1, <1>6
  <2> QED
    BY <2>1 DEF Awaiting, InHand, At
<1>7. Awaiting(c)' \subseteq Awaiting(c) /\ \A m \in Awaiting(c)' : s[1].n < m
  BY <1>5
<1> QED
  BY <1>3, <1>4, <1>6, <1>7

\* A request that arrives adds its number to those waiting.
LEMMA ArrivePending ==
  ASSUME TypeOK, NEW c \in Connections, NEW r \in RequestType, ArrivesAt(c, r)
  PROVE  /\ Awaiting(c)' = Awaiting(c) \cup {r.n}
         /\ InHand(c)' = InHand(c)
         /\ \A d \in Connections : d # c =>
               Awaiting(d)' = Awaiting(d) /\ InHand(d)' = InHand(d)
<1> DEFINE s == conn[c].inbox
           w == conn'[c].inbox
<1>1. /\ s \in Seq(RequestType) /\ Len(s) \in Nat
      /\ w \in Seq(RequestType) /\ Len(w) = Len(s) + 1
      /\ \A i \in 1 .. Len(s) : w[i] = s[i]
      /\ w[Len(s) + 1] = r
      /\ \A d \in Connections : d # c => conn'[d] = conn[d]
      /\ handler' = handler
  BY ArriveFacts
<1>2. DOMAIN s = 1 .. Len(s) /\ DOMAIN w = 1 .. Len(s) + 1
  BY <1>1, LenProperties
<1>3. Awaiting(c)' = {w[i].n : i \in 1 .. Len(s) + 1}
  BY <1>2 DEF Awaiting
<1>4. Awaiting(c) = {s[i].n : i \in 1 .. Len(s)}
  BY <1>2 DEF Awaiting
<1>5. \A i \in 1 .. Len(s) + 1 : i \in 1 .. Len(s) \/ i = Len(s) + 1
  BY <1>1
<1>6. 1 .. Len(s) \subseteq 1 .. Len(s) + 1 /\ Len(s) + 1 \in 1 .. Len(s) + 1
  BY <1>1
<1>7. Awaiting(c)' = Awaiting(c) \cup {r.n}
  BY <1>1, <1>3, <1>4, <1>5, <1>6
<1>8. InHand(c)' = InHand(c)
  BY <1>1 DEF InHand, At
<1>9. \A d \in Connections : d # c =>
         Awaiting(d)' = Awaiting(d) /\ InHand(d)' = InHand(d)
  BY <1>1 DEF Awaiting, InHand, At
<1> QED
  BY <1>7, <1>8, <1>9

\* Requests stay in order.
LEMMA OrderStep ==
  ASSUME TypeOK, OrderOK,
         \/ Quiet
         \/ \E c \in Connections : Receive(c)
         \/ \E c \in Connections, r \in RequestType :
               r.n = sent + 1 /\ ArrivesAt(c, r)
  PROVE  OrderOK'
<1> DEFINE Sorted(c) == \A i, j \in DOMAIN conn[c].inbox :
                           i < j => conn[c].inbox[i].n < conn[c].inbox[j].n
           Ahead(c)  == \A n \in InHand(c), m \in Awaiting(c) : n < m
           Past(c)   == Pending(c) \subseteq 1 .. sent
           Apart     == \A c, d \in Connections :
                           c # d => Pending(c) \cap Pending(d) = {}
<1>1. /\ \A c \in Connections : Sorted(c) /\ Ahead(c) /\ Past(c)
      /\ Apart
  BY DEF OrderOK
<1>2. SUFFICES /\ \A c \in Connections : Sorted(c)' /\ Ahead(c)' /\ Past(c)'
               /\ Apart'
  BY DEF OrderOK
<1>3. CASE Quiet
  <2>1. \A c \in Connections : Sorted(c)'
    BY <1>1, <1>3 DEF Quiet
  <2>2. \A c \in Connections :
           Awaiting(c)' \subseteq Awaiting(c) /\ InHand(c)' \subseteq InHand(c)
    BY <1>3, QuietPending
  <2>3. sent' = sent
    BY <1>3 DEF Quiet
  <2> HIDE DEF Sorted
  <2> QED
    BY <1>1, <2>1, <2>2, <2>3 DEF Pending
<1>4. ASSUME NEW c \in Connections, Receive(c)
      PROVE  /\ \A d \in Connections : Sorted(d)' /\ Ahead(d)' /\ Past(d)'
             /\ Apart'
  <2> DEFINE s == conn[c].inbox
             w == conn'[c].inbox
  <2>1. /\ s \in Seq(RequestType) /\ Len(s) > 0 /\ Len(s) \in Nat
        /\ w \in Seq(RequestType) /\ Len(w) = Len(s) - 1
        /\ \A i \in 1 .. Len(s) - 1 : w[i] = s[i + 1]
        /\ \A d \in Connections : d # c => conn'[d] = conn[d]
    BY <1>4, ReceiveFacts, LenProperties
  <2>2. DOMAIN s = 1 .. Len(s) /\ DOMAIN w = 1 .. Len(s) - 1
    BY <2>1, LenProperties
  <2>3. Sorted(c)'
    <3>1. SUFFICES ASSUME NEW i \in 1 .. Len(s) - 1, NEW j \in 1 .. Len(s) - 1, i < j
                   PROVE  w[i].n < w[j].n
      BY <2>2
    <3>2. i + 1 \in 1 .. Len(s) /\ j + 1 \in 1 .. Len(s) /\ i + 1 < j + 1
      <4>1. Len(s) \in Nat
        BY <2>1
      <4> HIDE DEF s
      <4> QED
        BY <3>1, <4>1
    <3>3. s[i + 1].n < s[j + 1].n
      BY <1>1, <2>2, <3>2
    <3> QED
      BY <2>1, <3>3
  <2>4. ASSUME NEW d \in Connections PROVE Sorted(d)'
    <3>1. CASE d # c
      BY <1>1, <2>1, <3>1
    <3> QED
      BY <2>3, <3>1
  <2>5. /\ InHand(c)' = {s[1].n} /\ s[1].n \in Awaiting(c)
        /\ Awaiting(c)' \subseteq Awaiting(c)
        /\ \A m \in Awaiting(c)' : s[1].n < m
        /\ \A d \in Connections : d # c =>
              Awaiting(d)' = Awaiting(d) /\ InHand(d)' = InHand(d)
    BY <1>4, ReceivePending
  <2>6. sent' = sent
    BY <1>4 DEF Receive
  <2>7. \A d \in Connections : Pending(d)' \subseteq Pending(d)
    BY <2>5 DEF Pending
  <2> HIDE DEF Sorted, s, w
  <2>8. \A d \in Connections : Ahead(d)'
    BY <1>1, <2>5
  <2> HIDE DEF Ahead
  <2> QED
    BY <1>1, <2>4, <2>6, <2>7, <2>8
<1>5. ASSUME NEW c \in Connections, NEW r \in RequestType, r.n = sent + 1,
             ArrivesAt(c, r)
      PROVE  /\ \A d \in Connections : Sorted(d)' /\ Ahead(d)' /\ Past(d)'
             /\ Apart'
  <2> DEFINE s == conn[c].inbox
             w == conn'[c].inbox
  <2>1. /\ s \in Seq(RequestType) /\ Len(s) \in Nat
        /\ w \in Seq(RequestType) /\ Len(w) = Len(s) + 1
        /\ \A i \in 1 .. Len(s) : w[i] = s[i]
        /\ w[Len(s) + 1] = r
        /\ \A d \in Connections : d # c => conn'[d] = conn[d]
    BY <1>5, ArriveFacts
  <2>2. DOMAIN s = 1 .. Len(s) /\ DOMAIN w = 1 .. Len(s) + 1
    BY <2>1, LenProperties
  <2>3. /\ Awaiting(c)' = Awaiting(c) \cup {sent + 1}
        /\ InHand(c)' = InHand(c)
        /\ \A d \in Connections : d # c =>
              Awaiting(d)' = Awaiting(d) /\ InHand(d)' = InHand(d)
    BY <1>5, ArrivePending
  <2>4. sent' = sent + 1 /\ sent \in Nat
    BY <1>5, ParametersAssumption DEF ArrivesAt, Arrive, TypeOK
  <2>5. Sorted(c)'
    <3>1. SUFFICES ASSUME NEW i \in 1 .. Len(s) + 1, NEW j \in 1 .. Len(s) + 1, i < j
                   PROVE  w[i].n < w[j].n
      BY <2>2
    <3>2. i \in 1 .. Len(s) /\ (j \in 1 .. Len(s) \/ j = Len(s) + 1)
      <4>1. Len(s) \in Nat
        BY <2>1
      <4> HIDE DEF s
      <4> QED
        BY <3>1, <4>1
    <3>3. CASE j \in 1 .. Len(s)
      <4>1. s[i].n < s[j].n
        BY <1>1, <2>2, <3>1, <3>2, <3>3
      <4> QED
        BY <2>1, <3>2, <3>3, <4>1
    <3>4. CASE j = Len(s) + 1
      <4>1. s[i].n \in Pending(c)
        BY <2>2, <3>2 DEF Pending, Awaiting
      <4>2. s[i].n \in 1 .. sent
        BY <1>1, <4>1
      <4>3. w[i].n = s[i].n /\ w[j].n = sent + 1
        BY <1>5, <2>1, <3>2, <3>4
      <4> HIDE DEF s, w
      <4> QED
        BY <2>4, <4>2, <4>3
    <3> QED
      BY <3>2, <3>3, <3>4
  <2>6. ASSUME NEW d \in Connections PROVE Sorted(d)'
    <3>1. CASE d # c
      BY <1>1, <2>1, <3>1
    <3> QED
      BY <2>5, <3>1
  <2> HIDE DEF Sorted, s, w
  <2>7. \A d \in Connections : Pending(d)' = IF d = c THEN Pending(d) \cup {sent + 1}
                                                ELSE Pending(d)
    BY <2>3 DEF Pending
  <2>8. \A d \in Connections : Past(d)'
    <3>1. 1 .. sent \subseteq 1 .. sent + 1 /\ sent + 1 \in 1 .. sent + 1
      BY <2>4
    <3> QED
      BY <1>1, <2>4, <2>7, <3>1
  <2>9. \A d \in Connections : sent + 1 \notin Pending(d)
    <3>1. sent + 1 \notin 1 .. sent
      BY <2>4
    <3> QED
      BY <1>1, <3>1
  <2>10. Apart'
    BY <1>1, <2>7, <2>9
  <2>11. ASSUME NEW n \in InHand(c) PROVE n < sent + 1
    <3>1. n \in 1 .. sent
      BY <1>1 DEF Pending
    <3> QED
      BY <2>4, <3>1
  <2>12. \A d \in Connections : Ahead(d)'
    <3> HIDE DEF Past, Apart
    <3> QED
      BY <1>1, <2>3, <2>11
  <2> QED
    BY <2>6, <2>8, <2>10, <2>12
<1> QED
  BY <1>3, <1>4, <1>5

\* The keys sent first stay ahead until they are registered.
LEMMA KeysAheadStep ==
  ASSUME TypeOK, LocalsOK, OrderOK, KeysAhead,
         \/ Quiet
         \/ \E c \in Connections : Receive(c)
         \/ \E c \in Connections, r \in RequestType :
               r.n = sent + 1 /\ ArrivesAt(c, r)
  PROVE  KeysAhead'
<1> DEFINE InBox(c, k, n) == \E i \in DOMAIN conn[c].inbox :
                                /\ conn[c].inbox[i] \in KeysRequest
                                /\ conn[c].inbox[i].id = k
                                /\ conn[c].inbox[i].n = n
           Ahead(c, k, n) == \/ Holds(keymap, k)
                             \/ At(c, "keys") /\ handler[c].request.id = k
                             \/ /\ ~At(c, "idle") => handler[c].request.n < n
                                /\ conn[c].state = "closed" \/ InBox(c, k, n)
<1>1. \A c \in Connections, k \in KeyIds :
         firstKeys[c][k] # 0 => Ahead(c, k, firstKeys[c][k])
  BY DEF KeysAhead
<1> SUFFICES ASSUME NEW c \in Connections, NEW k \in KeyIds, firstKeys'[c][k] # 0
             PROVE  Ahead(c, k, firstKeys[c][k])'
  BY DEF KeysAhead
<1> DEFINE n == firstKeys[c][k]
<1>2. CASE Quiet
  <2>1. firstKeys' = firstKeys /\ Ahead(c, k, n)
    BY <1>1, <1>2 DEF Quiet
  <2>2. Holds(keymap, k) => Holds(keymap', k)
    BY <1>2 DEF Quiet
  <2>3. At(c, "keys") /\ handler[c].request.id = k =>
           \/ Holds(keymap', k)
           \/ At(c, "keys")' /\ handler'[c].request.id = k
    BY <1>2 DEF Quiet, At
  <2>4. (~At(c, "idle") => handler[c].request.n < n) =>
           (~At(c, "idle")' => handler'[c].request.n < n)
    BY <1>2 DEF Quiet
  <2>5. conn[c].state = "closed" \/ InBox(c, k, n) =>
           conn'[c].state = "closed" \/ InBox(c, k, n)'
    BY <1>2, <2>1 DEF Quiet
  <2> HIDE DEF InBox
  <2> QED
    BY <2>1, <2>2, <2>3, <2>4, <2>5
<1>3. ASSUME NEW d \in Connections, Receive(d) PROVE Ahead(c, k, n)'
  <2>1. firstKeys' = firstKeys /\ keymap' = keymap /\ Ahead(c, k, n)
    BY <1>1, <1>3 DEF Receive, historyVars
  <2>2. CASE c # d
    <3>1. conn'[c] = conn[c] /\ handler'[c] = handler[c]
      BY <1>3, <2>2, ReceiveFacts
    <3> QED
      BY <2>1, <3>1 DEF At
  <2>3. CASE c = d
    <3> DEFINE s == conn[c].inbox
               w == conn'[c].inbox
    <3>1. /\ s \in Seq(RequestType) /\ Len(s) > 0 /\ Len(s) \in Nat
          /\ w \in Seq(RequestType) /\ Len(w) = Len(s) - 1
          /\ \A i \in 1 .. Len(s) - 1 : w[i] = s[i + 1]
          /\ handler'[c].request = s[1]
          /\ s[1].kind = "keys" => handler'[c].step = "keys"
      BY <1>3, <2>3, ReceiveFacts, LenProperties
    <3>2. DOMAIN s = 1 .. Len(s) /\ DOMAIN w = 1 .. Len(s) - 1
      BY <3>1, LenProperties
    <3>3. At(c, "idle") /\ s # <<>>
      BY <1>3, <2>3 DEF Receive, At
    <3>4. CASE Holds(keymap, k)
      BY <2>1, <3>4
    <3>5. CASE ~Holds(keymap, k)
      <4>1. InBox(c, k, n)
        BY <2>1, <3>3, <3>5 DEF LocalsOK, ConnOK, At
      <4>2. PICK i \in 1 .. Len(s) : s[i] \in KeysRequest /\ s[i].id = k /\ s[i].n = n
        BY <3>2, <4>1
      <4>3. CASE i = 1
        <5>1. s[1].kind = "keys"
          BY <4>2, <4>3 DEF KeysRequest
        <5> QED
          BY <3>1, <4>2, <4>3, <5>1 DEF At
      <4>4. CASE i # 1
        <5>1. i - 1 \in 1 .. Len(s) - 1 /\ (i - 1) + 1 = i /\ 1 \in 1 .. Len(s) /\ 1 < i
          <6>1. Len(s) \in Nat /\ Len(s) > 0
            BY <3>1
          <6> HIDE DEF s
          <6> QED
            BY <4>4, <6>1
        <5>2. w[i - 1] = s[i]
          BY <3>1, <5>1
        <5>3. s[1].n < s[i].n
          BY <3>2, <5>1 DEF OrderOK
        <5>4. InBox(c, k, n)'
          BY <2>1, <3>2, <4>2, <5>1, <5>2
        <5>5. handler'[c].request.n < n
          BY <3>1, <4>2, <5>3
        <5> HIDE DEF InBox
        <5> QED
          BY <2>1, <5>4, <5>5
      <4> QED
        BY <4>3, <4>4
    <3> QED
      BY <3>4, <3>5
  <2> QED
    BY <2>2, <2>3
<1>4. ASSUME NEW d \in Connections, NEW r \in RequestType, r.n = sent + 1,
             ArrivesAt(d, r)
      PROVE  Ahead(c, k, n)'
  <2>1. /\ handler' = handler /\ keymap' = keymap
        /\ \A e \in Connections : e # d => conn'[e] = conn[e]
        /\ \A e \in Connections : conn'[e].state = conn[e].state
    BY <1>4, ArriveFacts
  <2>2. firstKeys' = IF r.kind = "keys" /\ firstKeys[d][r.id] = 0
                     THEN [firstKeys EXCEPT ![d][r.id] = sent + 1] ELSE firstKeys
    BY <1>4 DEF ArrivesAt, Arrive
  <2>3. CASE c # d
    <3>1. conn'[c] = conn[c] /\ firstKeys'[c][k] = firstKeys[c][k]
      BY <2>1, <2>2, <2>3 DEF TypeOK
    <3>2. Ahead(c, k, n)
      BY <1>1, <3>1
    <3> QED
      BY <2>1, <3>1, <3>2 DEF At
  <2>4. CASE c = d
    <3> DEFINE s == conn[c].inbox
               w == conn'[c].inbox
    <3>1. /\ s \in Seq(RequestType) /\ Len(s) \in Nat
          /\ w \in Seq(RequestType) /\ Len(w) = Len(s) + 1
          /\ \A i \in 1 .. Len(s) : w[i] = s[i]
          /\ w[Len(s) + 1] = r
      BY <1>4, <2>4, ArriveFacts
    <3>2. DOMAIN s = 1 .. Len(s) /\ DOMAIN w = 1 .. Len(s) + 1
      BY <3>1, LenProperties
    <3>3. 1 .. Len(s) \subseteq 1 .. Len(s) + 1 /\ Len(s) + 1 \in 1 .. Len(s) + 1
      BY <3>1
    <3>4. CASE firstKeys'[c][k] = firstKeys[c][k]
      <4>1. Ahead(c, k, n)
        BY <1>1, <3>4
      <4>2. InBox(c, k, n) => InBox(c, k, n)'
        BY <3>1, <3>2, <3>3, <3>4
      <4> HIDE DEF InBox
      <4> QED
        BY <2>1, <3>4, <4>1, <4>2 DEF At
    <3>5. CASE firstKeys'[c][k] # firstKeys[c][k]
      <4>1. r.kind = "keys" /\ r.id = k /\ firstKeys'[c][k] = sent + 1
        <5>1. r.kind = "keys"
          BY <2>2, <3>5
        <5>2. r.id \in KeyIds
          BY <5>1, RequestFacts DEF KeysRequest
        <5> QED
          BY <2>2, <2>4, <3>5, <5>1, <5>2 DEF TypeOK
      <4>2. r \in KeysRequest
        BY <4>1, RequestFacts
      <4>3. InBox(c, k, n)'
        BY <1>4, <3>1, <3>2, <3>3, <4>1, <4>2
      <4>4. ~At(c, "idle") => handler[c].request.n < sent + 1
        <5>1. SUFFICES ASSUME ~At(c, "idle") PROVE handler[c].request.n < sent + 1
          OBVIOUS
        <5>2. handler[c].request.n \in 1 .. sent
          BY <5>1 DEF OrderOK, Pending, InHand
        <5> QED
          BY <5>2, ParametersAssumption DEF TypeOK
      <4> HIDE DEF InBox
      <4> QED
        BY <2>1, <4>1, <4>3, <4>4 DEF At
    <3> QED
      BY <3>4, <3>5
  <2> QED
    BY <2>3, <2>4
<1> QED
  BY <1>2, <1>3, <1>4

-----------------------------------------------------------------------------
(* Keys and results *)

\* The handler of c sends its reply, or returns without.
LEMMA HandlerReturns ==
  ASSUME TypeOK, LocalsOK, NEW c \in Connections,
         \/ SendQueryId(c) \/ SendResult(c) \/ RegisterKeys(c)
         \/ LookUpKeys(c) /\ ~Holds(keymap, handler[c].request.id)
  PROVE  /\ ~At(c, "idle") /\ handler'[c] = Idle
         /\ \A d \in Connections : d # c => handler'[d] = handler[d]
         /\ \A d \in Connections : conn[d].state = "closed" => conn'[d].state = "closed"
         /\ UNCHANGED managerVars /\ ticket' = ticket /\ collector' = collector
         /\ keymap' # keymap => RegisterKeys(c)
<1>1. handler' = [handler EXCEPT ![c] = Idle]
  BY DEF SendQueryId, SendResult, RegisterKeys, LookUpKeys, Reply, Throw, Return
<1>2. \/ conn' = conn \/ conn' = Broken(c)
      \/ \E reply : conn' = [conn EXCEPT ![c].outbox = Append(@, reply)]
  BY DEF SendQueryId, SendResult, RegisterKeys, LookUpKeys, Reply, Throw
<1>3. ASSUME NEW d \in Connections, conn[d].state = "closed"
      PROVE  conn'[d].state = "closed"
  <2>1. CASE conn' = Broken(c)
    BY <1>3, <2>1 DEF Broken, TypeOK
  <2>2. ASSUME NEW reply, conn' = [conn EXCEPT ![c].outbox = Append(@, reply)]
        PROVE  conn'[d].state = "closed"
    <3> DEFINE o == Append(conn[c].outbox, reply)
    <3>1. conn' = [conn EXCEPT ![c] = [conn[c] EXCEPT !.outbox = o]]
      BY <2>2
    <3> HIDE DEF o
    <3> QED
      BY <1>3, <3>1 DEF TypeOK
  <2> QED
    BY <1>2, <1>3, <2>1, <2>2
<1>4. ~At(c, "idle")
  BY DEF SendQueryId, SendResult, RegisterKeys, LookUpKeys, At
<1> QED
  BY <1>1, <1>3, <1>4 DEF SendQueryId, SendResult, RegisterKeys, LookUpKeys,
                         historyVars, TypeOK

\* The other steps of a handler change the locals of that handler alone.
LEMMA LookUpFacts ==
  ASSUME TypeOK, LocalsOK, NEW c \in Connections, LookUpKeys(c),
         Holds(keymap, handler[c].request.id)
  PROVE  LET r == handler[c].request
         IN  /\ r \in QueryRequest /\ At(c, "lookup")
             /\ handler'[c].step = "push" /\ handler'[c].request = r
             /\ handler'[c].query = Query(r, keymap[r.id])
             /\ \A d \in Connections : d # c => handler'[d] = handler[d]
             /\ UNCHANGED <<server, conn, keymap, managerVars, sent, historyVars>>
<1>1. handler[c].request \in QueryRequest /\ At(c, "lookup")
  BY DEF LookUpKeys, LocalsOK, HandlerOK, At
<1> QED
  BY <1>1 DEF LookUpKeys, TypeOK

\* push_query gives the query of its handler an id or refuses it.
LEMMA PushFacts ==
  ASSUME TypeOK, LocalsOK, NEW c \in Connections, PushQuery(c)
  PROVE  LET q == handler[c].query
         IN  /\ At(c, "push") /\ q \in QueryType /\ q.n \in Numbers
             /\ q.n = handler[c].request.n
             /\ \E id \in Ids, answer \in Ids \cup {Refused} :
                   /\ answer # Refused =>
                         answer = id /\ qque' = [qque EXCEPT ![id] = q] /\ ~Holds(qque, id)
                   /\ answer = Refused => qque' = qque
                   /\ ticket' = [ticket EXCEPT ![q.n] = answer]
                   /\ handler'[c].id = answer
             /\ handler'[c].step = "send_id"
             /\ handler'[c].request = handler[c].request
             /\ handler'[c].query = q
             /\ \A d \in Connections : d # c => handler'[d] = handler[d]
             /\ UNCHANGED <<server, conn, keymap, rque, job, tpc, sent, collector,
                            delivered, firstKeys>>
<1> DEFINE q == handler[c].query
<1>1. /\ At(c, "push") /\ q \in QueryType /\ q.n = handler[c].request.n
      /\ UNCHANGED <<server, conn, keymap, rque, job, tpc, sent, collector,
                     delivered, firstKeys>>
  BY DEF PushQuery, LocalsOK, HandlerOK, At
<1>2. q.n \in Numbers
  BY <1>1 DEF QueryType
<1>3. PICK id \in Ids, answer \in Ids \cup {Refused} :
         /\ answer # Refused => answer = id /\ ~Holds(qque, id)
         /\ qque' = IF answer = id THEN Emplace(qque, id, q) ELSE qque
         /\ ticket' = [ticket EXCEPT ![q.n] = answer]
         /\ handler' = [handler EXCEPT ![c].step = "send_id", ![c].id = answer]
  BY DEF PushQuery
<1>4. /\ answer # Refused => qque' = [qque EXCEPT ![id] = q]
      /\ answer = Refused => qque' = qque
  BY <1>3, MarksAreNoIds DEF Emplace
<1>5. /\ handler'[c].step = "send_id" /\ handler'[c].id = answer
      /\ handler'[c].request = handler[c].request /\ handler'[c].query = q
      /\ \A d \in Connections : d # c => handler'[d] = handler[d]
  BY <1>3 DEF TypeOK
<1> QED
  BY <1>1, <1>2, <1>3, <1>4, <1>5

\* pop_result takes the result with the id of its request.
LEMMA PopFacts ==
  ASSUME TypeOK, LocalsOK, NEW c \in Connections, PopResult(c)
  PROVE  /\ At(c, "poll")
         /\ \E id \in Ids :
               /\ id = handler[c].request.id
               /\ rque[id] \in QueryType /\ rque[id].n \in Numbers
               /\ rque' = [rque EXCEPT ![id] = Absent]
               /\ collector' = [collector EXCEPT ![rque[id].n] = c]
               /\ handler'[c].query = rque[id] /\ handler'[c].id = id
         /\ handler'[c].step = "send_result"
         /\ handler'[c].request = handler[c].request
         /\ \A d \in Connections : d # c => handler'[d] = handler[d]
         /\ UNCHANGED <<server, conn, keymap, qque, job, tpc, sent, ticket,
                        delivered, firstKeys>>
<1>1. PICK id \in Ids :
         /\ id = handler[c].request.id /\ Holds(rque, id)
         /\ handler' = [handler EXCEPT ![c].step = "send_result",
                                       ![c].query = rque[id], ![c].id = id]
         /\ rque' = [rque EXCEPT ![id] = Absent]
         /\ collector' = [collector EXCEPT ![rque[id].n] = c]
  BY DEF PopResult, Poppable, Keys, Holds, Erase, TypeOK
<1>2. rque[id] \in QueryType
  BY <1>1 DEF TypeOK, Holds
<1>3. rque[id].n \in Numbers
  BY <1>2 DEF QueryType
<1>4. /\ handler'[c].query = rque[id] /\ handler'[c].id = id
      /\ handler'[c].step = "send_result"
      /\ handler'[c].request = handler[c].request
      /\ \A d \in Connections : d # c => handler'[d] = handler[d]
  BY <1>1 DEF TypeOK
<1> QED
  BY <1>1, <1>2, <1>3, <1>4 DEF PopResult

\* A thread takes a queued query with its id.
LEMMA TakeFacts ==
  ASSUME TypeOK, LocalsOK, NEW t \in Threads, TakeQuery(t)
  PROVE  /\ tpc[t] = "run" /\ job[t] = Absent
         /\ \E id \in Ids :
               /\ qque[id] \in QueryType
               /\ job' = [job EXCEPT ![t] = [id |-> id, query |-> qque[id]]]
               /\ qque' = [qque EXCEPT ![id] = Absent]
         /\ tpc' = [tpc EXCEPT ![t] = "compute"]
         /\ UNCHANGED <<server, conn, handler, keymap, rque, sent, historyVars>>
<1>1. PICK id \in Ids :
         /\ Holds(qque, id)
         /\ job' = [job EXCEPT ![t] = [id |-> id, query |-> qque[id]]]
         /\ qque' = [qque EXCEPT ![id] = Absent]
  BY DEF TakeQuery, Front, Keys, Holds, Erase, TypeOK
<1>2. qque[id] \in QueryType
  BY <1>1 DEF TypeOK, Holds
<1> QED
  BY <1>1, <1>2 DEF TakeQuery, LocalsOK, ThreadOK

\* A thread stores what it computed, or dies with it.
LEMMA ConcludeFacts ==
  ASSUME TypeOK, LocalsOK, NEW t \in Threads, Conclude(t)
  PROVE  /\ tpc[t] = "compute" /\ job[t] \in JobType
         /\ job[t].id \in Ids /\ job[t].query \in QueryType
         /\ job[t].query.n \in Numbers
         /\ IF job[t].query.n \in BadQueries \/ Holds(rque, job[t].id)
            THEN tpc' = [tpc EXCEPT ![t] = "dead"] /\ rque' = rque /\ job' = job
            ELSE /\ rque' = [rque EXCEPT ![job[t].id] = job[t].query]
                 /\ job' = [job EXCEPT ![t] = Absent]
                 /\ tpc' = [tpc EXCEPT ![t] = "run"]
         /\ UNCHANGED <<server, conn, handler, keymap, qque, sent, historyVars>>
<1>1. tpc[t] = "compute" /\ job[t] \in JobType
  BY DEF Conclude, LocalsOK, ThreadOK
<1>2. job[t].id \in Ids /\ job[t].query \in QueryType
  BY <1>1 DEF JobType
<1>3. job[t].query.n \in Numbers
  BY <1>2 DEF QueryType
<1> QED
  BY <1>1, <1>2, <1>3 DEF Conclude, Emplace

\* What is stored under a key id stays there.
LEMMA KeysGrow ==
  ASSUME TypeOK, LocalsOK, [Next]_serverVars
  PROVE  \A k \in KeyIds : Holds(keymap, k) => keymap'[k] = keymap[k]
<1>1. ASSUME NEW c \in Connections, RegisterKeys(c)
      PROVE  \A k \in KeyIds : Holds(keymap, k) => keymap'[k] = keymap[k]
  BY <1>1 DEF RegisterKeys, Emplace, Holds, TypeOK
<1>2. ASSUME \A c \in Connections : ~RegisterKeys(c) PROVE keymap' = keymap
  BY <1>2 DEF Next, serverVars, Listen, StartThreads, Stop, ClientStep, Connect, Break,
              HandlerStep, Receive, LookUpKeys, PushQuery, SendQueryId, PopResult,
              SendResult, ThreadStep, TakeQuery, Conclude
<1> QED
  BY <1>1, <1>2

\* A query keeps its keys.
LEMMA ItsKeysStay ==
  ASSUME TypeOK, LocalsOK, [Next]_serverVars, NEW q \in QueryType \cup {Absent},
         HasItsKeys(keymap, q)
  PROVE  HasItsKeys(keymap', q)
<1>1. q # Absent => q.key_id \in KeyIds /\ keymap[q.key_id] = q.keys /\ q.keys # Absent
  BY DEF HasItsKeys, QueryType
<1>2. q # Absent => keymap'[q.key_id] = q.keys
  BY <1>1, KeysGrow DEF Holds
<1> QED
  BY <1>1, <1>2 DEF HasItsKeys

\* Every held query has its keys.
LEMMA KeysHeldStep ==
  ASSUME TypeOK, LocalsOK, KeysHeld, [Next]_serverVars
  PROVE  KeysHeld'
<1> DEFINE OK(q) == q = Absent \/ (q \in QueryType /\ HasItsKeys(keymap', q))
<1>1. /\ \A c \in Connections : OK(handler[c].query)
      /\ \A id \in Ids : OK(qque[id]) /\ OK(rque[id])
      /\ \A t \in Threads : job[t] # Absent => OK(job[t].query)
  <2>1. \A c \in Connections : handler[c].query \in QueryType \cup {Absent}
    BY DEF TypeOK
  <2>2. \A id \in Ids : qque[id] \in QueryType \cup {Absent}
                      /\ rque[id] \in QueryType \cup {Absent}
    BY DEF TypeOK
  <2>3. \A t \in Threads : job[t] # Absent => job[t].query \in QueryType
    BY DEF TypeOK, JobType
  <2> QED
    BY <2>1, <2>2, <2>3, ItsKeysStay DEF KeysHeld
<1>2. SUFFICES /\ \A c \in Connections : OK(handler'[c].query)
               /\ \A id \in Ids : OK(qque'[id]) /\ OK(rque'[id])
               /\ \A t \in Threads : job'[t] # Absent => OK(job'[t].query)
  BY DEF KeysHeld, HasItsKeys
<1>3. OK(Absent)
  OBVIOUS
<1>4. \A c \in Connections : OK(Idle.query)
  BY DEF Idle
<1> HIDE DEF OK
<1> USE DEF managerVars, historyVars
<1>5. CASE Listen \/ Stop \/ UNCHANGED serverVars
  BY <1>1, <1>5 DEF Listen, Stop, serverVars
<1>6. CASE StartThreads
  BY <1>1, <1>6 DEF StartThreads
<1>7. ASSUME NEW c \in Connections, ClientStep(c)
      PROVE  UNCHANGED <<handler, managerVars>>
  BY <1>7 DEF ClientStep, Connect, Break
<1>8. ASSUME NEW c \in Connections, Receive(c)
      PROVE  /\ \A d \in Connections : OK(handler'[d].query)
             /\ UNCHANGED managerVars
  <2>1. UNCHANGED managerVars
    BY <1>8 DEF Receive
  <2>2. PICK r, s : handler' = [handler EXCEPT ![c] =
                                   [Idle EXCEPT !.request = r, !.step = s]]
    BY <1>8 DEF Receive
  <2>3. /\ \A d \in Connections : d # c => handler'[d] = handler[d]
        /\ handler'[c].query = Absent
    BY <2>2 DEF TypeOK, Idle
  <2>4. ASSUME NEW d \in Connections
        PROVE  OK(handler'[d].query)
    BY <1>1, <1>3, <2>3
  <2> QED
    BY <2>1, <2>4
<1>9. ASSUME NEW c \in Connections,
             \/ SendQueryId(c) \/ SendResult(c) \/ RegisterKeys(c)
             \/ LookUpKeys(c) /\ ~Holds(keymap, handler[c].request.id)
      PROVE  /\ \A d \in Connections : OK(handler'[d].query)
             /\ UNCHANGED managerVars
  BY <1>1, <1>4, <1>9, HandlerReturns
<1>10. ASSUME NEW c \in Connections, LookUpKeys(c),
              Holds(keymap, handler[c].request.id)
       PROVE  /\ \A d \in Connections : OK(handler'[d].query)
              /\ UNCHANGED managerVars
  <2> DEFINE r == handler[c].request
             q == Query(r, keymap[r.id])
  <2>1. /\ r \in QueryRequest /\ handler'[c].query = q /\ keymap' = keymap
        /\ \A d \in Connections : d # c => handler'[d] = handler[d]
        /\ UNCHANGED managerVars
    BY <1>10, LookUpFacts
  <2>2. r.id \in KeyIds /\ r.n \in Numbers
    BY <2>1 DEF QueryRequest
  <2>a. keymap[r.id] \in KeySets /\ keymap[r.id] # Absent
    BY <1>10, <2>2 DEF Holds, TypeOK
  <2>b. q = [n |-> r.n, key_id |-> r.id, keys |-> keymap[r.id]]
    BY DEF Query
  <2>3. q \in QueryType /\ HasItsKeys(keymap', q)
    BY <2>1, <2>2, <2>a, <2>b DEF QueryType, HasItsKeys
  <2>4. OK(q)
    BY <2>3 DEF OK
  <2> QED
    BY <1>1, <2>1, <2>4
<1>11. ASSUME NEW c \in Connections, PushQuery(c)
       PROVE  /\ \A d \in Connections : OK(handler'[d].query)
              /\ \A id \in Ids : OK(qque'[id]) /\ OK(rque'[id])
              /\ job' = job
  <2>1. PICK id \in Ids : qque' = qque \/ qque' = [qque EXCEPT ![id] = handler[c].query]
    BY <1>11, PushFacts
  <2>2. /\ handler'[c].query = handler[c].query /\ rque' = rque /\ job' = job
        /\ \A d \in Connections : d # c => handler'[d] = handler[d]
    BY <1>11, PushFacts
  <2>3. \A i \in Ids : OK(qque'[i])
    BY <1>1, <2>1 DEF TypeOK
  <2> QED
    BY <1>1, <2>2, <2>3
<1>12. ASSUME NEW c \in Connections, PopResult(c)
       PROVE  /\ \A d \in Connections : OK(handler'[d].query)
              /\ \A id \in Ids : OK(qque'[id]) /\ OK(rque'[id])
              /\ job' = job
  <2>1. PICK id \in Ids : /\ rque' = [rque EXCEPT ![id] = Absent]
                          /\ handler'[c].query = rque[id]
    BY <1>12, PopFacts
  <2>2. /\ qque' = qque /\ job' = job
        /\ \A d \in Connections : d # c => handler'[d] = handler[d]
    BY <1>12, PopFacts
  <2>3. \A i \in Ids : OK(rque'[i])
    BY <1>1, <1>3, <2>1 DEF TypeOK
  <2> QED
    BY <1>1, <2>1, <2>2, <2>3
<1>13. ASSUME NEW t \in Threads, TakeQuery(t)
       PROVE  /\ handler' = handler /\ rque' = rque
              /\ \A id \in Ids : OK(qque'[id])
              /\ \A u \in Threads : job'[u] # Absent => OK(job'[u].query)
  <2>1. PICK id \in Ids : /\ job' = [job EXCEPT ![t] = [id |-> id, query |-> qque[id]]]
                          /\ qque' = [qque EXCEPT ![id] = Absent]
    BY <1>13, TakeFacts
  <2>2. \A i \in Ids : OK(qque'[i])
    BY <1>1, <1>3, <2>1 DEF TypeOK
  <2>3. \A u \in Threads : job'[u] # Absent => OK(job'[u].query)
    BY <1>1, <2>1 DEF TypeOK
  <2> QED
    BY <1>13, <2>2, <2>3, TakeFacts
<1>14. ASSUME NEW t \in Threads, Conclude(t)
       PROVE  /\ handler' = handler /\ qque' = qque
              /\ \A id \in Ids : OK(rque'[id])
              /\ \A u \in Threads : job'[u] # Absent => OK(job'[u].query)
  <2>1. /\ job[t] # Absent /\ handler' = handler /\ qque' = qque
        /\ \/ rque' = rque /\ job' = job
           \/ /\ rque' = [rque EXCEPT ![job[t].id] = job[t].query]
              /\ job' = [job EXCEPT ![t] = Absent]
    BY <1>14, ConcludeFacts, AbsentAssumption
  <2>2. OK(job[t].query)
    BY <1>1, <2>1
  <2>3. \A i \in Ids : OK(rque'[i])
    BY <1>1, <2>1, <2>2 DEF TypeOK
  <2>4. \A u \in Threads : job'[u] # Absent => OK(job'[u].query)
    BY <1>1, <2>1 DEF TypeOK
  <2> QED
    BY <2>1, <2>3, <2>4
<1> QED
  BY <1>1, <1>5, <1>6, <1>7, <1>8, <1>9, <1>10, <1>11, <1>12, <1>13, <1>14
     DEF Next, HandlerStep, ThreadStep

\* A connection that is closed stays so.
LEMMA ClosedStays ==
  ASSUME TypeOK, LocalsOK, [Next]_serverVars, NEW c \in Connections,
         conn[c].state = "closed"
  PROVE  conn'[c].state = "closed"
<1>1. CASE Quiet
  BY <1>1 DEF Quiet
<1>2. ASSUME NEW d \in Connections, Receive(d) PROVE conn'[c].state = "closed"
  BY <1>2, ReceiveFacts
<1>3. ASSUME NEW d \in Connections, NEW r \in RequestType, ArrivesAt(d, r)
      PROVE  conn'[c].state = "closed"
  BY <1>3, ArriveFacts
<1> QED
  BY <1>1, <1>2, <1>3, StepShape

\* A result that was popped is sent unless the connection broke: its key id
\* is still known when the reply is put together.
LEMMA SendResultDelivers ==
  ASSUME TypeOK, LocalsOK, KeysHeld, NEW c \in Connections, SendResult(c)
  PROVE  /\ delivered \subseteq delivered' /\ collector' = collector
         /\ handler[c].query.n \in delivered' \/ conn[c].state = "closed"
<1> DEFINE q == handler[c].query
<1>1. At(c, "send_result") /\ q \in QueryType /\ conn[c].state # "new"
  BY DEF SendResult, LocalsOK, HandlerOK, ConnOK, At
<1>2. q.key_id \in KeyIds /\ Holds(keymap, q.key_id)
  BY <1>1, AbsentAssumption DEF KeysHeld, HasItsKeys, QueryType, Holds
<1>3. delivered' = IF conn[c].state = "open" THEN delivered \cup {q.n} ELSE delivered
  BY <1>2 DEF SendResult, KeyIdOf
<1>4. conn[c].state \in {"new", "open", "closed"}
  BY DEF TypeOK
<1> QED
  BY <1>1, <1>3, <1>4 DEF SendResult

\* A popped result is on its way, was sent, or its connection broke.
LEMMA CollectedStep ==
  ASSUME TypeOK, LocalsOK, KeysHeld, CollectedOK, [Next]_serverVars
  PROVE  CollectedOK'
<1> USE DEF managerVars, historyVars
<1> DEFINE OnItsWay(n) == /\ At(collector[n], "send_result")
                          /\ handler[collector[n]].query.n = n
<1> SUFFICES ASSUME NEW n \in Numbers, collector'[n] # Absent, n \notin delivered',
                    conn'[collector'[n]].state # "closed"
             PROVE  OnItsWay(n)'
  BY DEF CollectedOK
<1> DEFINE c == collector[n]
<1>1. collector' = collector /\ delivered \subseteq delivered' =>
         c \in Connections /\ conn[c].state # "closed" /\ OnItsWay(n)
  <2>1. SUFFICES ASSUME collector' = collector, delivered \subseteq delivered'
                 PROVE  c \in Connections /\ conn[c].state # "closed" /\ OnItsWay(n)
    OBVIOUS
  <2>2. c \in Connections
    BY <2>1 DEF TypeOK
  <2>3. conn[c].state # "closed"
    BY <2>1, <2>2, ClosedStays
  <2> QED
    BY <2>1, <2>2, <2>3 DEF CollectedOK
<1>2. ASSUME Listen \/ StartThreads \/ Stop \/ UNCHANGED serverVars PROVE OnItsWay(n)'
  BY <1>1, <1>2 DEF Listen, StartThreads, Stop, serverVars, At
<1>3. ASSUME NEW d \in Connections, ClientStep(d) PROVE OnItsWay(n)'
  BY <1>1, <1>3 DEF ClientStep, Connect, Break, At
<1>4. ASSUME NEW d \in Connections, Receive(d) PROVE OnItsWay(n)'
  <2>1. collector' = collector /\ delivered' = delivered /\ At(d, "idle")
    BY <1>4 DEF Receive, At
  <2>2. c # d /\ handler'[c] = handler[c]
    BY <1>1, <1>4, <2>1, ReceiveFacts DEF At
  <2> QED
    BY <1>1, <2>1, <2>2 DEF At
<1>5. ASSUME NEW d \in Connections, SendResult(d) PROVE OnItsWay(n)'
  <2>1. /\ collector' = collector /\ delivered \subseteq delivered'
        /\ handler[d].query.n \in delivered' \/ conn[d].state = "closed"
    BY <1>5, SendResultDelivers
  <2>2. c # d
    BY <1>1, <2>1
  <2>3. handler'[c] = handler[c]
    BY <1>1, <1>5, <2>1, <2>2, HandlerReturns
  <2> QED
    BY <1>1, <2>1, <2>3 DEF At
<1>6. ASSUME NEW d \in Connections, SendQueryId(d) \/ RegisterKeys(d)
      PROVE  OnItsWay(n)'
  <2>1. /\ collector' = collector /\ delivered' = delivered /\ ~At(d, "send_result")
    BY <1>6 DEF SendQueryId, RegisterKeys, At
  <2>2. c # d
    BY <1>1, <2>1
  <2>3. handler'[c] = handler[c]
    BY <1>1, <1>6, <2>1, <2>2, HandlerReturns
  <2> QED
    BY <1>1, <2>1, <2>3 DEF At
<1>7. ASSUME NEW d \in Connections, LookUpKeys(d) PROVE OnItsWay(n)'
  <2>1. collector' = collector /\ delivered' = delivered /\ ~At(d, "send_result")
    BY <1>7 DEF LookUpKeys, At
  <2>2. c # d
    BY <1>1, <2>1
  <2>3. handler'[c] = handler[c]
    BY <1>1, <1>7, <2>1, <2>2, HandlerReturns, LookUpFacts
  <2> QED
    BY <1>1, <2>1, <2>3 DEF At
<1>8. ASSUME NEW d \in Connections, PushQuery(d) PROVE OnItsWay(n)'
  <2>1. /\ collector' = collector /\ delivered' = delivered /\ ~At(d, "send_result")
        /\ \A e \in Connections : e # d => handler'[e] = handler[e]
    BY <1>8, PushFacts DEF At
  <2> QED
    BY <1>1, <2>1 DEF At
<1>9. ASSUME NEW d \in Connections, PopResult(d) PROVE OnItsWay(n)'
  <2>1. PICK id \in Ids : /\ rque[id].n \in Numbers
                          /\ collector' = [collector EXCEPT ![rque[id].n] = d]
                          /\ handler'[d].query = rque[id]
    BY <1>9, PopFacts
  <2>2. /\ handler'[d].step = "send_result" /\ ~At(d, "send_result")
        /\ \A e \in Connections : e # d => handler'[e] = handler[e]
        /\ delivered' = delivered /\ conn' = conn
    BY <1>9, PopFacts DEF At
  <2>3. CASE n = rque[id].n
    BY <2>1, <2>2, <2>3 DEF At, TypeOK
  <2>4. CASE n # rque[id].n
    <3>1. collector'[n] = c /\ c \in Connections
      BY <2>1, <2>4 DEF TypeOK
    <3>2. OnItsWay(n)
      BY <2>2, <3>1 DEF CollectedOK
    <3> QED
      BY <2>2, <3>1, <3>2 DEF At
  <2> QED
    BY <2>3, <2>4
<1>10. ASSUME NEW t \in Threads, ThreadStep(t) PROVE OnItsWay(n)'
  BY <1>1, <1>10 DEF ThreadStep, TakeQuery, Conclude, At
<1> QED
  BY <1>2, <1>3, <1>4, <1>5, <1>6, <1>7, <1>8, <1>9, <1>10
     DEF Next, HandlerStep

-----------------------------------------------------------------------------
(* Tickets and places                                                      *)

\* A request that is under way has no ticket until its query is pushed.
LEMMA TicketsStep ==
  ASSUME TypeOK, LocalsOK, OrderOK, TicketsOK, [Next]_serverVars
  PROVE  TicketsOK'
<1>1. ASSUME NEW c \in Connections, PushQuery(c) PROVE TicketsOK'
  <2> DEFINE m == handler[c].request.n
  <2>1. PICK answer : ticket' = [ticket EXCEPT ![m] = answer]
    BY <1>1, PushFacts
  <2>2. /\ conn' = conn /\ sent' = sent /\ handler'[c].step = "send_id"
        /\ \A d \in Connections : d # c => handler'[d] = handler[d]
    BY <1>1, PushFacts
  <2>3. m \in InHand(c) /\ m \in Numbers
    BY <1>1, PushFacts DEF InHand, At
  <2>4. m \in 1 .. sent /\ sent \in Nat
    BY <2>3, ParametersAssumption DEF OrderOK, Pending, TypeOK
  <2>5. \A n \in Numbers : n > sent => n # m
    BY <2>4
  <2>6. \A d \in Connections : m \notin Awaiting(d)
    <3>1. m \notin Awaiting(c)
      BY <2>3, <2>4 DEF OrderOK
    <3>2. \A d \in Connections : d # c => m \notin Awaiting(d)
      BY <2>3 DEF OrderOK, Pending
    <3> QED
      BY <3>1, <3>2
  <2>7. ASSUME NEW d \in Connections, d # c, ~At(d, "idle")
        PROVE  handler[d].request.n # m
    <3>1. handler[d].request.n \in Pending(d)
      BY <2>7 DEF Pending, InHand
    <3> QED
      BY <2>3, <2>7, <3>1 DEF OrderOK, Pending
  <2> HIDE DEF m
  <2>8. \A n \in Numbers : n > sent' => ticket'[n] = NoId
    BY <2>1, <2>2, <2>5 DEF TicketsOK, TypeOK
  <2>9. ASSUME NEW d \in Connections, NEW n \in Awaiting(d)'
        PROVE  ticket'[n] = NoId
    <3>1. n \in Awaiting(d)
      BY <2>2 DEF Awaiting
    <3>2. n \in Numbers
      BY <3>1, ParametersAssumption DEF OrderOK, Pending, TypeOK, Numbers
    <3> QED
      BY <2>1, <2>6, <3>1, <3>2 DEF TicketsOK, TypeOK
  <2>10. ASSUME NEW d \in Connections, handler'[d].step \in {"lookup", "push"}
         PROVE  ticket'[handler'[d].request.n] = NoId
    <3>1. d # c /\ handler'[d] = handler[d] /\ ~At(d, "idle")
      BY <2>2, <2>10 DEF At
    <3>2. handler[d].request.n # m
      BY <2>7, <3>1
    <3>3. handler[d].request.n \in Numbers
      <4>1. handler[d].request.n \in 1 .. sent
        BY <3>1 DEF OrderOK, Pending, InHand
      <4> QED
        BY <4>1, ParametersAssumption DEF TypeOK, Numbers
    <3>4. ticket[handler[d].request.n] = NoId
      BY <2>10, <3>1 DEF TicketsOK
    <3> QED
      BY <2>1, <3>1, <3>2, <3>3, <3>4 DEF TypeOK
  <2> QED
    BY <2>8, <2>9, <2>10 DEF TicketsOK
<1>2. ASSUME \A c \in Connections : ~PushQuery(c) PROVE ticket' = ticket
  BY <1>2 DEF Next, serverVars, historyVars, Listen, StartThreads, Stop, ClientStep,
              Connect, Break, HandlerStep, Receive, RegisterKeys, LookUpKeys,
              SendQueryId, PopResult, SendResult, ThreadStep, TakeQuery, Conclude
<1>3. CASE Quiet /\ ticket' = ticket
  <2>1. \A c \in Connections : Awaiting(c)' \subseteq Awaiting(c)
    BY <1>3, QuietPending
  <2>2. sent' = sent /\ ticket' = ticket
    BY <1>3 DEF Quiet
  <2>3. ASSUME NEW c \in Connections, handler'[c].step \in {"lookup", "push"}
        PROVE  /\ handler[c].step \in {"lookup", "push"}
               /\ handler'[c].request = handler[c].request
    BY <1>3, <2>3 DEF Quiet, At
  <2> QED
    BY <2>1, <2>2, <2>3 DEF TicketsOK
<1>4. ASSUME NEW c \in Connections, Receive(c) PROVE TicketsOK'
  <2>1. /\ handler'[c].request.n \in Awaiting(c)
        /\ \A d \in Connections : d # c => handler'[d] = handler[d]
        /\ \A d \in Connections : Awaiting(d)' \subseteq Awaiting(d)
    BY <1>4, ReceiveFacts, ReceivePending
  <2>2. sent' = sent /\ ticket' = ticket
    BY <1>4 DEF Receive, historyVars
  <2> QED
    BY <2>1, <2>2 DEF TicketsOK
<1>5. ASSUME NEW c \in Connections, NEW r \in RequestType, r.n = sent + 1,
             ArrivesAt(c, r)
      PROVE  TicketsOK'
  <2>1. /\ Awaiting(c)' = Awaiting(c) \cup {sent + 1}
        /\ \A d \in Connections : d # c => Awaiting(d)' = Awaiting(d)
        /\ handler' = handler /\ ticket' = ticket
    BY <1>5, ArrivePending, ArriveFacts
  <2>2. sent' = sent + 1 /\ sent \in Nat /\ sent + 1 \in Numbers
    BY <1>5, ParametersAssumption DEF ArrivesAt, Arrive, TypeOK, Numbers
  <2>3. ticket[sent + 1] = NoId
    BY <2>2 DEF TicketsOK
  <2>4. \A n \in Numbers : n > sent + 1 => n > sent
    BY <2>2 DEF Numbers
  <2> QED
    BY <2>1, <2>2, <2>3, <2>4 DEF TicketsOK
<1> QED
  BY <1>1, <1>2, <1>3, <1>4, <1>5, StepShape

\* The steps that move a query from one place to the next.
Moves ==
    \/ \E c \in Connections : PushQuery(c) \/ PopResult(c)
    \/ \E t \in Threads : TakeQuery(t) \/ Conclude(t)

\* Any other step leaves queries, tickets and collectors where they are.
LEMMA OtherStepsMoveNothing ==
  ASSUME TypeOK, LocalsOK, [Next]_serverVars, ~Moves
  PROVE  UNCHANGED <<qque, rque, job, ticket, collector>>
  BY DEF Moves, Next, serverVars, managerVars, historyVars, Listen, StartThreads,
         Stop, ClientStep, Connect, Break, HandlerStep, Receive, RegisterKeys,
         LookUpKeys, SendQueryId, SendResult, ThreadStep

\* What is in a place is a query with a number.
LEMMA PlaceTypes ==
  ASSUME TypeOK
  PROVE  /\ \A id \in Ids : Holds(qque, id) => qque[id].n \in Numbers
         /\ \A id \in Ids : Holds(rque, id) => rque[id].n \in Numbers
         /\ \A t \in Threads : job[t] # Absent =>
               job[t].id \in Ids /\ job[t].query.n \in Numbers
<1>1. \A q \in QueryType : q.n \in Numbers
  BY DEF QueryType
<1>2. \A j \in JobType : j.id \in Ids /\ j.query \in QueryType
  BY DEF JobType
<1> QED
  BY <1>1, <1>2 DEF TypeOK, Holds

\* A query is in one place, under the id of its ticket.
LEMMA PlacedStep ==
  ASSUME TypeOK, LocalsOK, TicketsOK, PlacedOK, [Next]_serverVars
  PROVE  PlacedOK'
<1> USE DEF Holds
<1>t. /\ qque \in [Ids -> QueryType \cup {Absent}]
      /\ rque \in [Ids -> QueryType \cup {Absent}]
      /\ job \in [Threads -> JobType \cup {Absent}]
      /\ ticket \in [Numbers -> Ids \cup {Refused, NoId}]
      /\ collector \in [Numbers -> Connections \cup {Absent}]
  BY DEF TypeOK
<1>1. ASSUME NEW c \in Connections, PushQuery(c) PROVE PlacedOK'
  <2> DEFINE q == handler[c].query
  <2>1. PICK id \in Ids, answer \in Ids \cup {Refused} :
           /\ answer # Refused =>
                 answer = id /\ qque' = [qque EXCEPT ![id] = q] /\ ~Holds(qque, id)
           /\ answer = Refused => qque' = qque
           /\ ticket' = [ticket EXCEPT ![q.n] = answer]
    BY <1>1, PushFacts
  <2>2. /\ rque' = rque /\ job' = job /\ collector' = collector
        /\ q.n \in Numbers /\ q \in QueryType
    BY <1>1, PushFacts
  <2>3. ticket[q.n] = NoId
    BY <1>1, PushFacts DEF TicketsOK, At
  <2>4. /\ \A i \in Ids : Holds(qque, i) => qque[i].n # q.n
        /\ \A i \in Ids : Holds(rque, i) => rque[i].n # q.n
        /\ \A t \in Threads : job[t] # Absent => job[t].query.n # q.n
        /\ collector[q.n] = Absent
    BY <2>2, <2>3, MarksAreNoIds, PlaceTypes DEF PlacedOK, StoredOK, JobsOK
  <2>5. q # Absent
    BY <2>2, AbsentAssumption
  <2> HIDE DEF q
  <2>6. \A i \in Ids :
           \/ qque'[i] = qque[i]
           \/ i = id /\ qque'[i] = q /\ answer = id /\ qque[id] = Absent
    BY <1>t, <2>1
  <2>7. \A n \in Numbers : ticket'[n] = IF n = q.n THEN answer ELSE ticket[n]
    BY <1>t, <2>1
  <2>8. StoredOK(qque)'
    BY <2>2, <2>4, <2>6, <2>7, PlaceTypes DEF PlacedOK, StoredOK
  <2>9. StoredOK(rque)'
    BY <2>2, <2>4, <2>7, PlaceTypes DEF PlacedOK, StoredOK
  <2>10. JobsOK'
    BY <2>2, <2>4, <2>7, PlaceTypes DEF PlacedOK, JobsOK
  <2>11. ApartOK'
    BY <2>2, <2>4, <2>6, PlaceTypes DEF PlacedOK, ApartOK
  <2>12. \A n \in Numbers : collector'[n] # Absent => ticket'[n] \in Ids
    BY <2>2, <2>4, <2>7 DEF PlacedOK
  <2> QED
    BY <2>8, <2>9, <2>10, <2>11, <2>12 DEF PlacedOK
<1>2. ASSUME NEW c \in Connections, PopResult(c) PROVE PlacedOK'
  <2>1. PICK id \in Ids :
           /\ rque[id] \in QueryType /\ rque[id].n \in Numbers
           /\ rque' = [rque EXCEPT ![id] = Absent]
           /\ collector' = [collector EXCEPT ![rque[id].n] = c]
    BY <1>2, PopFacts
  <2>2. qque' = qque /\ job' = job /\ ticket' = ticket
    BY <1>2, PopFacts
  <2> DEFINE m == rque[id].n
  <2>3. Holds(rque, id) /\ ticket[m] = id /\ m \in Numbers
    BY <2>1, AbsentAssumption DEF PlacedOK, StoredOK
  <2>4. /\ \A i \in Ids : Holds(qque, i) => qque[i].n # m
        /\ \A i \in Ids : Holds(rque, i) /\ i # id => rque[i].n # m
        /\ \A t \in Threads : job[t] # Absent => job[t].query.n # m
    BY <2>3 DEF PlacedOK, StoredOK, JobsOK, ApartOK
  <2>5. \A i \in Ids : rque'[i] = IF i = id THEN Absent ELSE rque[i]
    BY <1>t, <2>1
  <2>6. \A n \in Numbers : collector'[n] = IF n = m THEN c ELSE collector[n]
    BY <1>t, <2>1
  <2> HIDE DEF m
  <2>7. StoredOK(qque)'
    BY <2>2, <2>4, <2>6, PlaceTypes DEF PlacedOK, StoredOK
  <2>8. StoredOK(rque)'
    BY <2>2, <2>4, <2>5, <2>6, PlaceTypes DEF PlacedOK, StoredOK
  <2>9. JobsOK'
    BY <2>2, <2>4, <2>6, PlaceTypes DEF PlacedOK, JobsOK
  <2>10. ApartOK'
    BY <2>2, <2>5, PlaceTypes DEF PlacedOK, ApartOK
  <2>11. \A n \in Numbers : collector'[n] # Absent => ticket'[n] \in Ids
    BY <2>2, <2>3, <2>6 DEF PlacedOK
  <2> QED
    BY <2>7, <2>8, <2>9, <2>10, <2>11 DEF PlacedOK
<1>3. ASSUME NEW t \in Threads, TakeQuery(t) PROVE PlacedOK'
  <2>1. PICK id \in Ids :
           /\ qque[id] \in QueryType
           /\ job' = [job EXCEPT ![t] = [id |-> id, query |-> qque[id]]]
           /\ qque' = [qque EXCEPT ![id] = Absent]
    BY <1>3, TakeFacts
  <2>2. /\ rque' = rque /\ ticket' = ticket /\ collector' = collector
        /\ job[t] = Absent
    BY <1>3, TakeFacts DEF historyVars
  <2> DEFINE q == qque[id]
  <2>3. Holds(qque, id) /\ ticket[q.n] = id /\ collector[q.n] = Absent
    BY <2>1, AbsentAssumption DEF PlacedOK, StoredOK
  <2>4. /\ \A i \in Ids : Holds(qque, i) /\ i # id => qque[i].n # q.n
        /\ \A i \in Ids : Holds(rque, i) => rque[i].n # q.n
        /\ \A u \in Threads : job[u] # Absent => job[u].query.n # q.n
    BY <2>3 DEF PlacedOK, StoredOK, JobsOK, ApartOK
  <2>5. \A i \in Ids : qque'[i] = IF i = id THEN Absent ELSE qque[i]
    BY <1>t, <2>1
  <2>6. \A u \in Threads : job'[u] = IF u = t THEN [id |-> id, query |-> q] ELSE job[u]
    BY <1>t, <2>1
  <2> HIDE DEF q
  <2>7. StoredOK(qque)'
    BY <2>2, <2>5, PlaceTypes DEF PlacedOK, StoredOK
  <2>8. StoredOK(rque)'
    BY <2>2, PlaceTypes DEF PlacedOK, StoredOK
  <2>9. JobsOK'
    BY <2>2, <2>3, <2>6 DEF PlacedOK, JobsOK
  <2>10. ApartOK'
    <3>1. \A i \in Ids :
             Holds(qque', i) /\ Holds(rque', i) => qque'[i].n # rque'[i].n
      BY <2>2, <2>5 DEF PlacedOK, ApartOK
    <3>2. ASSUME NEW u \in Threads, job'[u] # Absent
          PROVE  LET j == job'[u]
                 IN  /\ Holds(qque', j.id) => qque'[j.id].n # j.query.n
                     /\ Holds(rque', j.id) => rque'[j.id].n # j.query.n
                     /\ \A v \in Threads \ {u} :
                           job'[v] # Absent => job'[v].query.n # j.query.n
      <4>1. CASE u = t
        BY <2>2, <2>4, <2>5, <2>6, <4>1
      <4>2. CASE u # t
        <5>1. job'[u] = job[u] /\ job[u].id \in Ids
          BY <2>6, <3>2, <4>2, PlaceTypes
        <5> QED
          BY <2>2, <2>4, <2>5, <2>6, <3>2, <4>2, <5>1 DEF PlacedOK, ApartOK
      <4> QED
        BY <4>1, <4>2
    <3> QED
      BY <3>1, <3>2 DEF ApartOK
  <2> QED
    BY <2>2, <2>7, <2>8, <2>9, <2>10 DEF PlacedOK
<1>4. ASSUME NEW t \in Threads, Conclude(t) PROVE PlacedOK'
  <2> DEFINE j == job[t]
  <2>1. /\ j # Absent /\ j.id \in Ids /\ j.query \in QueryType
        /\ qque' = qque /\ ticket' = ticket /\ collector' = collector
        /\ \/ rque' = rque /\ job' = job
           \/ /\ ~Holds(rque, j.id)
              /\ rque' = [rque EXCEPT ![j.id] = j.query]
              /\ job' = [job EXCEPT ![t] = Absent]
    BY <1>4, ConcludeFacts, AbsentAssumption DEF historyVars
  <2>2. CASE rque' = rque /\ job' = job
    BY <2>1, <2>2 DEF PlacedOK, StoredOK, JobsOK, ApartOK
  <2>3. CASE /\ ~Holds(rque, j.id)
             /\ rque' = [rque EXCEPT ![j.id] = j.query]
             /\ job' = [job EXCEPT ![t] = Absent]
    <3>1. ticket[j.query.n] = j.id /\ collector[j.query.n] = Absent
      BY <2>1 DEF PlacedOK, JobsOK
    <3>2. /\ \A i \in Ids : Holds(qque, i) => qque[i].n # j.query.n
          /\ \A u \in Threads \ {t} : job[u] # Absent => job[u].query.n # j.query.n
      BY <2>1, <3>1 DEF PlacedOK, StoredOK, ApartOK
    <3> HIDE DEF j
    <3>3. \A i \in Ids : rque'[i] = IF i = j.id THEN j.query ELSE rque[i]
      BY <1>t, <2>1, <2>3
    <3>4. \A u \in Threads : job'[u] = IF u = t THEN Absent ELSE job[u]
      BY <1>t, <2>1, <2>3
    <3>5. StoredOK(qque)'
      BY <2>1 DEF PlacedOK, StoredOK
    <3>6. StoredOK(rque)'
      BY <2>1, <3>1, <3>3 DEF PlacedOK, StoredOK
    <3>7. JobsOK'
      BY <2>1, <3>4 DEF PlacedOK, JobsOK
    <3>8. ApartOK'
      BY <2>1, <3>2, <3>3, <3>4, PlaceTypes DEF PlacedOK, ApartOK
    <3> QED
      BY <2>1, <3>5, <3>6, <3>7, <3>8 DEF PlacedOK
  <2> QED
    BY <2>1, <2>2, <2>3
<1>5. ASSUME UNCHANGED <<qque, rque, job, ticket, collector>> PROVE PlacedOK'
  BY <1>5 DEF PlacedOK, StoredOK, JobsOK, ApartOK
<1> QED
  BY <1>1, <1>2, <1>3, <1>4, <1>5, OtherStepsMoveNothing DEF Moves

-----------------------------------------------------------------------------
(* The inductive invariant, and the properties                             *)

\* The server starts in IndInv.
LEMMA InitInv == Init => IndInv
<1> SUFFICES ASSUME Init PROVE IndInv
  OBVIOUS
<1>1. TypeOK /\ LocalsOK
  BY InitTypes
<1>2. \A c \in Connections : Pending(c) = {} /\ conn[c].inbox = <<>> /\ At(c, "idle")
  BY DEF Init, Pending, Awaiting, InHand, Idle, At
<1>3. OrderOK
  BY <1>2 DEF OrderOK, Pending
<1>4. TicketsOK
  BY <1>2 DEF TicketsOK, Pending, Init, At
<1>5. PlacedOK
  BY DEF Init, PlacedOK, StoredOK, JobsOK, ApartOK, EmptyMap, Holds
<1>6. KeysHeld
  BY DEF Init, KeysHeld, HasItsKeys, EmptyMap, Idle
<1>7. KeysAhead
  BY DEF Init, KeysAhead
<1>8. CollectedOK
  BY DEF Init, CollectedOK
<1> QED
  BY <1>1, <1>3, <1>4, <1>5, <1>6, <1>7, <1>8 DEF IndInv

\* IndInv is inductive.
LEMMA IndInvStep ==
  ASSUME IndInv, [Next]_serverVars
  PROVE  IndInv'
<1> USE DEF IndInv
<1>1. TypeOK' /\ LocalsOK'
  BY StepTypes
<1>2. OrderOK' /\ KeysAhead'
  BY StepShape, OrderStep, KeysAheadStep
<1>3. TicketsOK' /\ PlacedOK'
  BY TicketsStep, PlacedStep
<1>4. KeysHeld' /\ CollectedOK'
  BY KeysHeldStep, CollectedStep
<1> QED
  BY <1>1, <1>2, <1>3, <1>4

\* IndInv holds in every reachable state of the server.
THEOREM IndInvHolds == Spec => []IndInv
<1>1. IndInv /\ [Next]_serverVars => IndInv'
  BY IndInvStep
<1> QED
  BY <1>1, InitInv, PTL DEF Spec

\* The keys a query points to stay those registered under its key id.
THEOREM KeysStayHolds == Spec => []KeysStay
<1>1. IndInv => KeysStay
  BY DEF IndInv, KeysStay, KeysHeld, HasItsKeys, HeldQueries
<1> QED
  BY <1>1, IndInvHolds, PTL

\* A result that was popped and reaches nobody was popped for a connection
\* that broke.
THEOREM LostWithItsConnectionHolds == Spec => []LostWithItsConnection
<1>1. IndInv => LostWithItsConnection
  <2> SUFFICES ASSUME IndInv, NEW n \in Numbers, collector[n] # Absent,
                      n \notin delivered, ~InReply(n)
               PROVE  conn[collector[n]].state = "closed"
    BY DEF LostWithItsConnection
  <2>1. collector[n] \in Connections
    BY DEF IndInv, TypeOK
  <2> QED
    BY <2>1 DEF IndInv, CollectedOK, InReply
<1> QED
  BY <1>1, IndInvHolds, PTL

\* A handler that looks up keys is only moved by doing so.
LEMMA LookUpMoves ==
  ASSUME TypeOK, LocalsOK, [Next]_serverVars, NEW c \in Connections,
         At(c, "lookup"), handler'[c].step # "lookup"
  PROVE  LookUpKeys(c)
<1>1. ASSUME NEW d \in Connections,
             SendQueryId(d) \/ SendResult(d) \/ RegisterKeys(d)
      PROVE  FALSE
  <2>1. ~At(d, "lookup")
    BY <1>1 DEF SendQueryId, SendResult, RegisterKeys, At
  <2> QED
    BY <1>1, <2>1, HandlerReturns DEF At
<1>2. ASSUME NEW d \in Connections, LookUpKeys(d), d # c PROVE FALSE
  BY <1>2, HandlerReturns, LookUpFacts DEF At
<1>3. ASSUME NEW d \in Connections, PushQuery(d) PROVE FALSE
  BY <1>3, PushFacts DEF At
<1>4. ASSUME NEW d \in Connections, PopResult(d) PROVE FALSE
  BY <1>4, PopFacts DEF At
<1>5. ASSUME NEW d \in Connections, Receive(d) PROVE FALSE
  <2>1. At(d, "idle")
    BY <1>5 DEF Receive, At
  <2> QED
    BY <1>5, <2>1, ReceiveFacts DEF At
<1>6. ASSUME handler' = handler PROVE FALSE
  BY <1>6 DEF At
<1> QED
  BY <1>1, <1>2, <1>3, <1>4, <1>5, <1>6
     DEF Next, serverVars, Listen, StartThreads, Stop, ClientStep, Connect, Break,
         HandlerStep, ThreadStep, TakeQuery, Conclude

\* A query is turned away for unknown keys only if no keys for its id were
\* sent before it over its own connection.
THEOREM KeysComeFirstHolds == Spec => KeysComeFirst
<1> DEFINE Step == \A c \in Connections : TurnedAway(c) =>
                      LET r == handler[c].request
                      IN  firstKeys[c][r.id] = 0 \/ firstKeys[c][r.id] > r.n
<1>1. IndInv /\ [Next]_serverVars => Step
  <2> SUFFICES ASSUME IndInv, [Next]_serverVars, NEW c \in Connections, TurnedAway(c)
               PROVE  LET r == handler[c].request
                      IN  firstKeys[c][r.id] = 0 \/ firstKeys[c][r.id] > r.n
    OBVIOUS
  <2> DEFINE r == handler[c].request
  <2>1. At(c, "lookup") /\ handler'[c].step = "idle"
    BY DEF TurnedAway, At
  <2>2. r \in QueryRequest
    BY <2>1 DEF IndInv, LocalsOK, HandlerOK, At
  <2>3. r.id \in KeyIds /\ r.n \in Numbers
    BY <2>2 DEF QueryRequest
  <2>4. LookUpKeys(c)
    BY <2>1, LookUpMoves DEF IndInv
  <2>5. ~Holds(keymap, r.id)
    BY <2>1, <2>4, LookUpFacts DEF IndInv
  <2>6. firstKeys[c][r.id] # 0 => r.n < firstKeys[c][r.id]
    BY <2>1, <2>3, <2>5 DEF IndInv, KeysAhead, At
  <2>7. firstKeys[c][r.id] \in 0 .. MaxRequests
    BY <2>3 DEF IndInv, TypeOK
  <2> HIDE DEF r
  <2> QED
    BY <2>3, <2>6, <2>7, ParametersAssumption DEF Numbers, r
<1> QED
  BY <1>1, IndInvHolds, PTL DEF Spec, KeysComeFirst

-----------------------------------------------------------------------------
(* The server implements QueryLifecycle                                    *)

Offered(n) == \E c \in Connections : At(c, "push") /\ handler[c].query.n = n
Works(n)   == \E t \in Threads : LifeWorker[t] = n
Failed(n)  == \E t \in Threads : LifeWorker[t] = n /\ tpc[t] = "dead"

\* Nothing holds the query of a request that has no ticket, or a refused one.
LEMMA NowhereYet ==
  ASSUME TypeOK, PlacedOK, NEW n \in Numbers, ticket[n] \notin Ids
  PROVE  /\ collector[n] = Absent /\ ~LifeIn(qque, n) /\ ~LifeIn(rque, n)
         /\ ~Works(n) /\ ~Failed(n)
<1>1. collector[n] = Absent /\ ~LifeIn(qque, n) /\ ~LifeIn(rque, n)
  BY DEF PlacedOK, StoredOK, LifeIn, Holds
<1>2. \A t \in Threads : job[t] # Absent => job[t].query.n # n
  BY PlaceTypes DEF PlacedOK, JobsOK
<1>3. \A t \in Threads : LifeWorker[t] # n
  BY <1>2, AbsentAssumption DEF LifeWorker
<1> QED
  BY <1>1, <1>3 DEF Works, Failed

\* A query with a job is worked on, by the thread of the job alone.
LEMMA JobWorks ==
  ASSUME TypeOK, PlacedOK, NEW t \in Threads, job[t] # Absent
  PROVE  LET n == job[t].query.n
         IN  /\ LifeWorker[t] = n /\ Works(n) /\ n \in Numbers
             /\ \A u \in Threads \ {t} : LifeWorker[u] # n
             /\ collector[n] = Absent /\ ~LifeIn(qque, n) /\ ~LifeIn(rque, n)
             /\ ticket[n] = job[t].id /\ job[t].id \in Ids
             /\ Failed(n) <=> tpc[t] = "dead"
<1> DEFINE n == job[t].query.n
<1>1. n \in Numbers /\ job[t].id \in Ids
  BY PlaceTypes
<1>2. LifeWorker[t] = n
  BY DEF LifeWorker
<1>3. \A u \in Threads \ {t} : LifeWorker[u] # n
  BY <1>1, AbsentAssumption DEF LifeWorker, PlacedOK, ApartOK
<1>4. ticket[n] = job[t].id /\ collector[n] = Absent
  BY DEF PlacedOK, JobsOK
<1>5. ~LifeIn(qque, n) /\ ~LifeIn(rque, n)
  BY <1>4 DEF PlacedOK, StoredOK, ApartOK, LifeIn, Holds
<1> QED
  BY <1>1, <1>2, <1>3, <1>4, <1>5 DEF Works, Failed

\* A query in a queue is not worked on.
LEMMA StoredNotWorked ==
  ASSUME TypeOK, PlacedOK, NEW n \in Numbers, LifeIn(qque, n) \/ LifeIn(rque, n)
  PROVE  ~Works(n) /\ ~Failed(n)
<1>1. ASSUME NEW t \in Threads, LifeWorker[t] = n PROVE FALSE
  <2>1. job[t] # Absent
    BY <1>1, AbsentAssumption DEF LifeWorker
  <2>2. n = job[t].query.n
    BY <1>1, <2>1 DEF LifeWorker
  <2> QED
    BY <2>1, <2>2, JobWorks
<1> QED
  BY <1>1 DEF Works, Failed

\* A queued query is nowhere else.
LEMMA QueuedOnly ==
  ASSUME TypeOK, PlacedOK, NEW id \in Ids, Holds(qque, id)
  PROVE  LET n == qque[id].n
         IN  /\ n \in Numbers /\ ticket[n] = id /\ collector[n] = Absent
             /\ LifeIn(qque, n) /\ ~LifeIn(rque, n) /\ ~Works(n) /\ ~Failed(n)
             /\ \A i \in Ids : Holds(qque, i) /\ qque[i].n = n => i = id
<1> DEFINE n == qque[id].n
<1>1. n \in Numbers /\ ticket[n] = id /\ collector[n] = Absent
  BY PlaceTypes DEF PlacedOK, StoredOK
<1>2. LifeIn(qque, n)
  BY DEF LifeIn, Holds
<1>3. ~LifeIn(rque, n)
  BY <1>1 DEF LifeIn, PlacedOK, StoredOK, ApartOK, Holds
<1>4. \A i \in Ids : Holds(qque, i) /\ qque[i].n = n => i = id
  BY <1>1 DEF PlacedOK, StoredOK
<1>5. ~Works(n) /\ ~Failed(n)
  BY <1>1, <1>2, StoredNotWorked
<1> QED
  BY <1>1, <1>2, <1>3, <1>4, <1>5

\* A query whose result is there is nowhere else.
LEMMA ReadyOnly ==
  ASSUME TypeOK, PlacedOK, NEW id \in Ids, Holds(rque, id)
  PROVE  LET n == rque[id].n
         IN  /\ n \in Numbers /\ ticket[n] = id /\ collector[n] = Absent
             /\ LifeIn(rque, n) /\ ~LifeIn(qque, n) /\ ~Works(n) /\ ~Failed(n)
             /\ \A i \in Ids : Holds(rque, i) /\ rque[i].n = n => i = id
<1> DEFINE n == rque[id].n
<1>1. n \in Numbers /\ ticket[n] = id /\ collector[n] = Absent
  BY PlaceTypes DEF PlacedOK, StoredOK
<1>2. LifeIn(rque, n)
  BY DEF LifeIn, Holds
<1>3. ~LifeIn(qque, n)
  BY <1>1 DEF LifeIn, PlacedOK, StoredOK, ApartOK, Holds
<1>4. \A i \in Ids : Holds(rque, i) /\ rque[i].n = n => i = id
  BY <1>1 DEF PlacedOK, StoredOK
<1>5. ~Works(n) /\ ~Failed(n)
  BY <1>1, <1>2, StoredNotWorked
<1> QED
  BY <1>1, <1>2, <1>3, <1>4, <1>5


\* What the mapping makes of a query.
LEMMA PhaseIs ==
  ASSUME NEW n \in Numbers
  PROVE  LifePhase[n] = IF collector[n] # Absent THEN "collected"
                        ELSE IF LifeIn(rque, n) THEN "ready"
                        ELSE IF Failed(n) THEN "failed"
                        ELSE IF Works(n) THEN "computing"
                        ELSE IF LifeIn(qque, n) THEN "queued"
                        ELSE IF ticket[n] = Refused THEN "refused"
                        ELSE IF Offered(n) THEN "offered" ELSE "new"
  BY DEF LifePhase, Failed, Works, Offered

\* A query about which nothing changes keeps its phase.
LEMMA PhaseStays ==
  ASSUME NEW n \in Numbers, collector'[n] = collector[n],
         LifeIn(rque, n)' <=> LifeIn(rque, n), LifeIn(qque, n)' <=> LifeIn(qque, n),
         Failed(n)' <=> Failed(n), Works(n)' <=> Works(n), ticket'[n] = ticket[n],
         Offered(n)' <=> Offered(n)
  PROVE  LifePhase'[n] = LifePhase[n]
  BY DEF LifePhase, Failed, Works, Offered

\* Steps that move nothing and offer nothing stutter.
LEMMA Stutter ==
  ASSUME TypeOK, UNCHANGED <<qque, rque, job, ticket, collector>>,
         \A t \in Threads : job[t] # Absent => tpc'[t] = tpc[t],
         \A c \in Connections :
            \/ handler'[c] = handler[c]
            \/ ~At(c, "push") /\ ~At(c, "push")'
  PROVE  UNCHANGED Life!lifeVars
<1>1. LifeWorker' = LifeWorker /\ LifeId' = LifeId
  BY DEF LifeWorker, LifeId
<1>2. ASSUME NEW n \in Numbers PROVE LifePhase'[n] = LifePhase[n]
  <2>1. \A t \in Threads : LifeWorker[t] = n => tpc'[t] = tpc[t]
    BY AbsentAssumption DEF LifeWorker
  <2>2. (Failed(n)' <=> Failed(n)) /\ (Works(n)' <=> Works(n))
    BY <1>1, <2>1 DEF Failed, Works
  <2>3. Offered(n)' <=> Offered(n)
    BY DEF Offered, At
  <2>4. (LifeIn(rque, n)' <=> LifeIn(rque, n)) /\ (LifeIn(qque, n)' <=> LifeIn(qque, n))
    BY DEF LifeIn
  <2> QED
    BY <2>2, <2>3, <2>4, PhaseStays
<1>3. LifePhase' = LifePhase
  BY <1>2 DEF LifePhase
<1> QED
  BY <1>1, <1>3 DEF Life!lifeVars

\* One query moves, the others keep their phases.
LEMMA OneMoves ==
  ASSUME NEW m \in Numbers, NEW to, LifePhase'[m] = to,
         \A n \in Numbers \ {m} : LifePhase'[n] = LifePhase[n]
  PROVE  LifePhase' = [LifePhase EXCEPT ![m] = to]
<1>1. LifePhase = [n \in Numbers |-> LifePhase[n]]
  BY DEF LifePhase
<1>2. LifePhase' = [n \in Numbers |-> LifePhase'[n]]
  BY DEF LifePhase
<1> HIDE DEF LifePhase
<1> QED
  BY <1>1, <1>2

\* LookUpKeys that finds the keys is Offer.
LEMMA LookUpOffers ==
  ASSUME IndInv, NEW c \in Connections, LookUpKeys(c),
         Holds(keymap, handler[c].request.id)
  PROVE  Life!Offer(handler[c].request.n)
<1> USE DEF IndInv
<1> DEFINE r == handler[c].request
           m == r.n
<1>a. /\ r \in QueryRequest /\ At(c, "lookup")
      /\ handler'[c].step = "push"
      /\ handler'[c].query = Query(r, keymap[r.id])
      /\ \A d \in Connections : d # c => handler'[d] = handler[d]
      /\ UNCHANGED <<managerVars, historyVars>>
  BY LookUpFacts
<1>1. /\ r \in QueryRequest /\ At(c, "lookup")
      /\ handler'[c].step = "push" /\ handler'[c].query.n = m
      /\ \A d \in Connections : d # c => handler'[d] = handler[d]
      /\ UNCHANGED <<qque, rque, job, tpc, ticket, collector>>
  BY <1>a DEF Query, managerVars, historyVars
<1>2. m \in Numbers /\ ticket[m] = NoId
  BY <1>1 DEF QueryRequest, TicketsOK, At
<1>3. m \in Pending(c)
  BY <1>1 DEF Pending, InHand, At
<1>4. ~Offered(m)
  <2>1. SUFFICES ASSUME NEW d \in Connections, At(d, "push"), handler[d].query.n = m
                 PROVE  FALSE
    BY DEF Offered
  <2>2. d # c /\ handler[d].request.n = m
    BY <1>1, <2>1 DEF LocalsOK, HandlerOK, At
  <2>3. m \in Pending(d)
    BY <2>1, <2>2 DEF Pending, InHand, At
  <2> QED
    BY <1>3, <2>2, <2>3 DEF OrderOK
<1>5. /\ collector[m] = Absent /\ ~LifeIn(qque, m) /\ ~LifeIn(rque, m)
      /\ ~Works(m) /\ ~Failed(m) /\ ticket[m] # Refused
  BY <1>2, NowhereYet, MarksAreNoIds DEF NoId, Refused
<1> HIDE DEF m
<1>6. LifeWorker' = LifeWorker /\ LifeId' = LifeId
  BY <1>1 DEF LifeWorker, LifeId
<1>7. \A n \in Numbers :
         /\ LifeIn(rque, n)' <=> LifeIn(rque, n)
         /\ LifeIn(qque, n)' <=> LifeIn(qque, n)
         /\ Failed(n)' <=> Failed(n)
         /\ Works(n)' <=> Works(n)
  BY <1>1, <1>6 DEF LifeIn, Failed, Works
<1>8. \A n \in Numbers : Offered(n)' <=> Offered(n) \/ n = m
  BY <1>1 DEF Offered, At
<1>9. LifePhase[m] = "new"
  BY <1>2, <1>4, <1>5, PhaseIs
<1>10. LifePhase'[m] = "offered"
  BY <1>1, <1>2, <1>5, <1>7, <1>8 DEF LifePhase, Failed, Works, Offered
<1>11. \A n \in Numbers \ {m} : LifePhase'[n] = LifePhase[n]
  BY <1>1, <1>7, <1>8, PhaseStays
<1>12. LifePhase' = [LifePhase EXCEPT ![m] = "offered"]
  BY <1>2, <1>10, <1>11, OneMoves
<1> QED
  BY <1>6, <1>9, <1>12 DEF Life!Offer, Life!Move, m

\* PushQuery is Refuse or Accept.
LEMMA PushSettles ==
  ASSUME IndInv, NEW c \in Connections, PushQuery(c)
  PROVE  Life!Settle(handler[c].query.n)
<1> USE DEF IndInv
<1> DEFINE q == handler[c].query
           m == q.n
<1>1. PICK id \in Ids, answer \in Ids \cup {Refused} :
         /\ answer # Refused =>
               answer = id /\ qque' = [qque EXCEPT ![id] = q] /\ ~Holds(qque, id)
         /\ answer = Refused => qque' = qque
         /\ ticket' = [ticket EXCEPT ![m] = answer]
  BY PushFacts
<1>2. /\ At(c, "push") /\ q \in QueryType /\ m \in Numbers
      /\ handler'[c].step = "send_id"
      /\ \A d \in Connections : d # c => handler'[d] = handler[d]
      /\ UNCHANGED <<rque, job, tpc, collector>>
  BY PushFacts
<1>3. ticket[m] = NoId
  BY <1>2, PushFacts DEF TicketsOK, At
<1>4. \A d \in Connections : At(d, "push") /\ handler[d].query.n = m => d = c
  <2>1. SUFFICES ASSUME NEW d \in Connections, At(d, "push"), handler[d].query.n = m,
                        d # c
                 PROVE  FALSE
    OBVIOUS
  <2>2. handler[d].request.n = m /\ handler[c].request.n = m
    BY <1>2, <2>1 DEF LocalsOK, HandlerOK
  <2>3. m \in Pending(d) /\ m \in Pending(c)
    BY <1>2, <2>1, <2>2 DEF Pending, InHand, At
  <2> QED
    BY <2>1, <2>3 DEF OrderOK
<1>5. /\ collector[m] = Absent /\ ~LifeIn(qque, m) /\ ~LifeIn(rque, m)
      /\ ~Works(m) /\ ~Failed(m) /\ ticket[m] # Refused
  BY <1>2, <1>3, NowhereYet, MarksAreNoIds DEF NoId, Refused
<1>6. Offered(m)
  BY <1>2 DEF Offered
<1>7. LifePhase[m] = "offered"
  BY <1>2, <1>5, <1>6, PhaseIs
<1>8. q # Absent
  BY <1>2, AbsentAssumption
<1>t. ticket \in [Numbers -> Ids \cup {Refused, NoId}]
      /\ qque \in [Ids -> QueryType \cup {Absent}]
  BY DEF TypeOK
<1> HIDE DEF m, q
<1>9. \A n \in Numbers : ticket'[n] = IF n = m THEN answer ELSE ticket[n]
  BY <1>1, <1>t
<1>10. LifeWorker' = LifeWorker
  BY <1>2 DEF LifeWorker
<1>11. \A n \in Numbers :
          /\ LifeIn(rque, n)' <=> LifeIn(rque, n)
          /\ Failed(n)' <=> Failed(n)
          /\ Works(n)' <=> Works(n)
  BY <1>2, <1>10 DEF LifeIn, Failed, Works
<1>12. \A n \in Numbers : Offered(n)' <=> Offered(n) /\ n # m
  BY <1>2, <1>4 DEF Offered, At, m, q
<1>13. CASE answer = Refused
  <2>1. LifeId' = LifeId
    BY <1>3, <1>9, <1>13, MarksAreNoIds DEF LifeId
  <2>2. \A n \in Numbers : LifeIn(qque, n)' <=> LifeIn(qque, n)
    BY <1>1, <1>13 DEF LifeIn
  <2>3. LifePhase'[m] = "refused"
    BY <1>2, <1>5, <1>9, <1>11, <1>13, <2>2 DEF LifePhase, Failed, Works
  <2>4. \A n \in Numbers \ {m} : LifePhase'[n] = LifePhase[n]
    BY <1>2, <1>9, <1>11, <1>12, <2>2, PhaseStays
  <2>5. LifePhase' = [LifePhase EXCEPT ![m] = "refused"]
    BY <1>2, <2>3, <2>4, OneMoves
  <2> QED
    BY <1>7, <1>10, <2>1, <2>5 DEF Life!Settle, Life!Refuse, Life!Move, m, q
<1>14. CASE answer # Refused
  <2>1. answer = id /\ qque' = [qque EXCEPT ![id] = q] /\ ~Holds(qque, id)
    BY <1>1, <1>14
  <2>2. LifeId' = [LifeId EXCEPT ![m] = id]
    BY <1>2, <1>9, <2>1 DEF LifeId
  <2>3. \A i \in Ids : qque'[i] = IF i = id THEN q ELSE qque[i]
    BY <1>t, <2>1
  <2>4. \A n \in Numbers : LifeIn(qque, n)' <=> LifeIn(qque, n) \/ n = m
    BY <1>8, <2>1, <2>3 DEF LifeIn, Holds, m
  <2>5. LifePhase'[m] = "queued"
    BY <1>2, <1>5, <1>11, <2>4 DEF LifePhase, Failed, Works
  <2>6. \A n \in Numbers \ {m} : LifePhase'[n] = LifePhase[n]
    BY <1>2, <1>9, <1>11, <1>12, <2>4, PhaseStays
  <2>7. LifePhase' = [LifePhase EXCEPT ![m] = "queued"]
    BY <1>2, <2>5, <2>6, OneMoves
  <2>8. ~Life!Shared(m, id, "queued")
    <3>1. SUFFICES ASSUME NEW p \in Numbers, LifeId[p] = id, LifePhase[p] = "queued"
                   PROVE  FALSE
      BY DEF Life!Shared
    <3>2. LifeIn(qque, p)
      BY <3>1, PhaseIs
    <3>3. ticket[p] = id
      BY <3>1, MarksAreNoIds DEF LifeId
    <3>4. PICK i \in Ids : Holds(qque, i) /\ qque[i].n = p
      BY <3>2 DEF LifeIn, Holds
    <3>5. i = id
      BY <3>3, <3>4 DEF PlacedOK, StoredOK
    <3> QED
      BY <2>1, <3>4, <3>5
  <2>9. Life!Accept(m, id)
    BY <1>7, <1>10, <2>2, <2>7, <2>8 DEF Life!Accept, Life!Move
  <2> QED
    BY <2>9 DEF Life!Settle, m, q
<1> QED
  BY <1>13, <1>14

\* TakeQuery is Start.
LEMMA TakeStarts ==
  ASSUME IndInv, NEW t \in Threads, TakeQuery(t)
  PROVE  \E m \in Numbers : Life!Start(m, t)
<1> USE DEF IndInv
<1>1. PICK id \in Ids :
         /\ qque[id] \in QueryType
         /\ job' = [job EXCEPT ![t] = [id |-> id, query |-> qque[id]]]
         /\ qque' = [qque EXCEPT ![id] = Absent]
  BY TakeFacts
<1>2. /\ tpc[t] = "run" /\ job[t] = Absent /\ tpc' = [tpc EXCEPT ![t] = "compute"]
      /\ UNCHANGED <<handler, rque, ticket, collector>>
  BY TakeFacts DEF historyVars
<1> DEFINE m == qque[id].n
<1>3. Holds(qque, id)
  BY <1>1, AbsentAssumption DEF Holds
<1>4. /\ m \in Numbers /\ ticket[m] = id /\ collector[m] = Absent
      /\ LifeIn(qque, m) /\ ~LifeIn(rque, m) /\ ~Works(m) /\ ~Failed(m)
      /\ \A i \in Ids : Holds(qque, i) /\ qque[i].n = m => i = id
  BY <1>3, QueuedOnly
<1>t. /\ qque \in [Ids -> QueryType \cup {Absent}]
      /\ job \in [Threads -> JobType \cup {Absent}]
      /\ tpc \in [Threads -> {"none", "run", "compute", "dead"}]
  BY DEF TypeOK
<1>5. \A i \in Ids : qque'[i] = IF i = id THEN Absent ELSE qque[i]
  BY <1>1, <1>t
<1>6. \A n \in Numbers : LifeIn(qque, n)' <=> LifeIn(qque, n) /\ n # m
  BY <1>4, <1>5 DEF LifeIn, Holds
<1>7. [id |-> id, query |-> qque[id]] # Absent
  BY <1>1, AbsentAssumption DEF JobType
<1>8. LifeWorker' = [LifeWorker EXCEPT ![t] = m]
  <2>1. \A u \in Threads : job'[u] = IF u = t THEN [id |-> id, query |-> qque[id]]
                                              ELSE job[u]
    BY <1>1, <1>t
  <2>2. ASSUME NEW u \in Threads
        PROVE  LifeWorker'[u] = IF u = t THEN m ELSE LifeWorker[u]
    BY <1>7, <2>1 DEF LifeWorker
  <2> HIDE DEF m
  <2> QED
    BY <2>2 DEF LifeWorker
<1>9. LifeWorker[t] = Absent
  BY <1>2 DEF LifeWorker
<1>10. \A u \in Threads : LifeWorker'[u] = IF u = t THEN m ELSE LifeWorker[u]
  BY <1>8 DEF LifeWorker
<1> HIDE DEF m
<1>11. \A u \in Threads : tpc'[u] = IF u = t THEN "compute" ELSE tpc[u]
  BY <1>2, <1>t
<1>12. \A n \in Numbers : (Works(n)' <=> Works(n) \/ n = m)
                        /\ (Failed(n)' <=> Failed(n))
  BY <1>2, <1>4, <1>9, <1>10, <1>11, AbsentAssumption DEF Works, Failed
<1>13. \A n \in Numbers : (Offered(n)' <=> Offered(n)) /\ (LifeIn(rque, n)' <=> LifeIn(rque, n))
  BY <1>2 DEF Offered, At, LifeIn
<1>14. LifePhase[m] = "queued"
  BY <1>4, PhaseIs
<1>15. LifePhase'[m] = "computing"
  BY <1>2, <1>4, <1>12, <1>13 DEF LifePhase, Works, Failed
<1>16. \A n \in Numbers \ {m} : LifePhase'[n] = LifePhase[n]
  BY <1>2, <1>6, <1>12, <1>13, PhaseStays
<1>17. LifePhase' = [LifePhase EXCEPT ![m] = "computing"]
  BY <1>4, <1>15, <1>16, OneMoves
<1>18. LifeId' = LifeId
  BY <1>2 DEF LifeId
<1> QED
  BY <1>4, <1>8, <1>9, <1>14, <1>17, <1>18 DEF Life!Start, Life!Move

\* Conclude is Finish or Fail.
LEMMA ConcludeEnds ==
  ASSUME IndInv, NEW t \in Threads, Conclude(t)
  PROVE  \E m \in Numbers : Life!Finish(m, t) \/ Life!Fail(m, t)
<1> USE DEF IndInv
<1> DEFINE j == job[t]
           m == j.query.n
<1>1. /\ tpc[t] = "compute" /\ j \in JobType /\ j.id \in Ids
      /\ j.query \in QueryType /\ m \in Numbers
      /\ IF m \in BadQueries \/ Holds(rque, j.id)
         THEN tpc' = [tpc EXCEPT ![t] = "dead"] /\ rque' = rque /\ job' = job
         ELSE /\ rque' = [rque EXCEPT ![j.id] = j.query]
              /\ job' = [job EXCEPT ![t] = Absent]
              /\ tpc' = [tpc EXCEPT ![t] = "run"]
      /\ UNCHANGED <<handler, qque, ticket, collector>>
  BY ConcludeFacts DEF historyVars
<1>2. j # Absent
  BY <1>1, AbsentAssumption
<1>3. /\ LifeWorker[t] = m /\ Works(m)
      /\ \A u \in Threads \ {t} : LifeWorker[u] # m
      /\ collector[m] = Absent /\ ~LifeIn(qque, m) /\ ~LifeIn(rque, m)
      /\ ticket[m] = j.id
      /\ ~Failed(m)
  BY <1>1, <1>2, JobWorks
<1>4. LifePhase[m] = "computing"
  BY <1>1, <1>3, PhaseIs
<1>t. /\ rque \in [Ids -> QueryType \cup {Absent}]
      /\ job \in [Threads -> JobType \cup {Absent}]
      /\ tpc \in [Threads -> {"none", "run", "compute", "dead"}]
  BY DEF TypeOK
<1>5. LifeId' = LifeId /\ LifeId[m] = j.id
  BY <1>1, <1>3 DEF LifeId
<1>6. \A n \in Numbers : (Offered(n)' <=> Offered(n)) /\ (LifeIn(qque, n)' <=> LifeIn(qque, n))
  BY <1>1 DEF Offered, At, LifeIn
<1>7. CASE m \in BadQueries \/ Holds(rque, j.id)
  <2>1. tpc' = [tpc EXCEPT ![t] = "dead"] /\ rque' = rque /\ job' = job
    BY <1>1, <1>7
  <2>2. LifeWorker' = LifeWorker
    BY <2>1 DEF LifeWorker
  <2> HIDE DEF m, j
  <2>3. \A u \in Threads : tpc'[u] = IF u = t THEN "dead" ELSE tpc[u]
    BY <1>t, <2>1
  <2>4. \A n \in Numbers : (Works(n)' <=> Works(n))
                         /\ (Failed(n)' <=> Failed(n) \/ n = m)
    BY <1>3, <2>2, <2>3 DEF Works, Failed
  <2>5. \A n \in Numbers : LifeIn(rque, n)' <=> LifeIn(rque, n)
    BY <2>1 DEF LifeIn
  <2>6. LifePhase'[m] = "failed"
    BY <1>1, <1>3, <2>4, <2>5 DEF LifePhase, Works, Failed
  <2>7. \A n \in Numbers \ {m} : LifePhase'[n] = LifePhase[n]
    BY <1>1, <1>6, <2>4, <2>5, PhaseStays
  <2>8. LifePhase' = [LifePhase EXCEPT ![m] = "failed"]
    BY <1>1, <2>6, <2>7, OneMoves
  <2>9. m \in BadQueries \/ Life!Shared(m, LifeId[m], "ready")
    <3>1. SUFFICES ASSUME Holds(rque, j.id) PROVE Life!Shared(m, LifeId[m], "ready")
      BY <1>7
    <3> DEFINE p == rque[j.id].n
    <3>2. /\ p \in Numbers /\ ticket[p] = j.id /\ collector[p] = Absent
          /\ LifeIn(rque, p)
      BY <1>1, <3>1, ReadyOnly
    <3>3. p # m
      BY <1>3, <3>2
    <3>4. LifePhase[p] = "ready" /\ LifeId[p] = j.id
      BY <1>1, <3>2, PhaseIs DEF LifeId
    <3> QED
      BY <1>5, <3>2, <3>3, <3>4 DEF Life!Shared
  <2>10. Life!Fail(m, t)
    BY <1>3, <1>4, <1>5, <2>2, <2>8, <2>9 DEF Life!Fail, Life!Move
  <2> QED
    BY <1>1, <2>10
<1>8. CASE ~(m \in BadQueries \/ Holds(rque, j.id))
  <2>1. /\ rque' = [rque EXCEPT ![j.id] = j.query]
        /\ job' = [job EXCEPT ![t] = Absent]
        /\ tpc' = [tpc EXCEPT ![t] = "run"]
    BY <1>1, <1>8
  <2>2. \A u \in Threads : LifeWorker'[u] = IF u = t THEN Absent ELSE LifeWorker[u]
    BY <1>t, <2>1 DEF LifeWorker
  <2>3. LifeWorker' = [LifeWorker EXCEPT ![t] = Absent]
    BY <2>2 DEF LifeWorker
  <2>4. \A i \in Ids : rque'[i] = IF i = j.id THEN j.query ELSE rque[i]
    BY <1>1, <1>t, <2>1
  <2>5. j.query # Absent
    BY <1>1, AbsentAssumption
  <2>6. \A n \in Numbers : LifeIn(rque, n)' <=> LifeIn(rque, n) \/ n = m
    BY <1>1, <1>8, <2>4, <2>5 DEF LifeIn, Holds
  <2> HIDE DEF m, j
  <2>7. \A u \in Threads : tpc'[u] = IF u = t THEN "run" ELSE tpc[u]
    BY <1>t, <2>1
  <2>8. \A n \in Numbers : (Works(n)' <=> Works(n) /\ n # m)
                         /\ (Failed(n)' <=> Failed(n))
    BY <1>1, <1>3, <2>2, <2>7, AbsentAssumption DEF Works, Failed
  <2>9. LifePhase'[m] = "ready"
    BY <1>1, <1>3, <2>6 DEF LifePhase
  <2>10. \A n \in Numbers \ {m} : LifePhase'[n] = LifePhase[n]
    BY <1>1, <1>6, <2>6, <2>8, PhaseStays
  <2>11. LifePhase' = [LifePhase EXCEPT ![m] = "ready"]
    BY <1>1, <2>9, <2>10, OneMoves
  <2>12. ~Life!Shared(m, LifeId[m], "ready")
    <3>1. SUFFICES ASSUME NEW p \in Numbers, LifeId[p] = j.id, LifePhase[p] = "ready"
                   PROVE  FALSE
      BY <1>5 DEF Life!Shared
    <3>2. LifeIn(rque, p)
      BY <3>1, PhaseIs
    <3>3. ticket[p] = j.id
      BY <1>1, <3>1, MarksAreNoIds DEF LifeId
    <3>4. PICK i \in Ids : Holds(rque, i) /\ rque[i].n = p
      BY <3>2 DEF LifeIn, Holds
    <3>5. i = j.id
      BY <3>3, <3>4 DEF PlacedOK, StoredOK
    <3> QED
      BY <1>8, <3>4, <3>5
  <2>13. Life!Finish(m, t)
    BY <1>3, <1>4, <1>5, <2>3, <2>11, <2>12 DEF Life!Finish, Life!Move
  <2> QED
    BY <1>1, <2>13
<1> QED
  BY <1>7, <1>8

\* PopResult is Collect.
LEMMA PopCollects ==
  ASSUME IndInv, NEW c \in Connections, PopResult(c)
  PROVE  \E m \in Numbers : Life!Collect(m)
<1> USE DEF IndInv
<1>1. PICK id \in Ids :
         /\ rque[id] \in QueryType /\ rque[id].n \in Numbers
         /\ rque' = [rque EXCEPT ![id] = Absent]
         /\ collector' = [collector EXCEPT ![rque[id].n] = c]
  BY PopFacts
<1>2. /\ At(c, "poll") /\ handler'[c].step = "send_result"
      /\ \A d \in Connections : d # c => handler'[d] = handler[d]
      /\ UNCHANGED <<qque, job, tpc, ticket>>
  BY PopFacts
<1> DEFINE m == rque[id].n
<1>3. Holds(rque, id)
  BY <1>1, AbsentAssumption DEF Holds
<1>4. /\ m \in Numbers /\ collector[m] = Absent /\ LifeIn(rque, m)
      /\ \A i \in Ids : Holds(rque, i) /\ rque[i].n = m => i = id
  BY <1>3, ReadyOnly
<1>t. /\ rque \in [Ids -> QueryType \cup {Absent}]
      /\ collector \in [Numbers -> Connections \cup {Absent}]
  BY DEF TypeOK
<1>5. \A i \in Ids : rque'[i] = IF i = id THEN Absent ELSE rque[i]
  BY <1>1, <1>t
<1>6. \A n \in Numbers : LifeIn(rque, n)' <=> LifeIn(rque, n) /\ n # m
  BY <1>4, <1>5 DEF LifeIn, Holds
<1>7. \A n \in Numbers : collector'[n] = IF n = m THEN c ELSE collector[n]
  BY <1>1, <1>t
<1> HIDE DEF m
<1>8. LifeWorker' = LifeWorker /\ LifeId' = LifeId
  BY <1>2 DEF LifeWorker, LifeId
<1>9. \A n \in Numbers :
         /\ LifeIn(qque, n)' <=> LifeIn(qque, n)
         /\ Failed(n)' <=> Failed(n)
         /\ Works(n)' <=> Works(n)
  BY <1>2, <1>8 DEF LifeIn, Failed, Works
<1>10. \A n \in Numbers : Offered(n)' <=> Offered(n)
  BY <1>2 DEF Offered, At
<1>11. LifePhase[m] = "ready"
  BY <1>4, PhaseIs
<1>12. LifePhase'[m] = "collected"
  BY <1>4, <1>7, AbsentAssumption DEF LifePhase
<1>13. \A n \in Numbers \ {m} : LifePhase'[n] = LifePhase[n]
  BY <1>2, <1>6, <1>7, <1>9, <1>10, PhaseStays
<1>14. LifePhase' = [LifePhase EXCEPT ![m] = "collected"]
  BY <1>4, <1>12, <1>13, OneMoves
<1> QED
  BY <1>4, <1>8, <1>11, <1>14 DEF Life!Collect, Life!Move

\* Every step of the server is one of the lifecycle, or stutters.
LEMMA StepRefines == IndInv /\ [Next]_serverVars => [Life!Next]_Life!lifeVars
<1> SUFFICES ASSUME IndInv, [Next]_serverVars PROVE [Life!Next]_Life!lifeVars
  OBVIOUS
<1> USE DEF IndInv
<1>1. ASSUME NEW c \in Connections, LookUpKeys(c), Holds(keymap, handler[c].request.id)
      PROVE  Life!Next
  <2>1. handler[c].request.n \in Numbers
    BY <1>1, LookUpFacts DEF QueryRequest
  <2> QED
    BY <1>1, <2>1, LookUpOffers DEF Life!Next
<1>2. ASSUME NEW c \in Connections, PushQuery(c) PROVE Life!Next
  <2>1. handler[c].query.n \in Numbers
    BY <1>2, PushFacts
  <2> QED
    BY <1>2, <2>1, PushSettles DEF Life!Next
<1>3. ASSUME NEW c \in Connections, PopResult(c) PROVE Life!Next
  BY <1>3, PopCollects DEF Life!Next
<1>4. ASSUME NEW t \in Threads, TakeQuery(t) PROVE Life!Next
  BY <1>4, TakeStarts DEF Life!Next, Life!Begin
<1>5. ASSUME NEW t \in Threads, Conclude(t) PROVE Life!Next
  BY <1>5, ConcludeEnds DEF Life!Next, Life!Conclude
<1>6. ASSUME NEW c \in Connections,
             \/ SendQueryId(c) \/ SendResult(c) \/ RegisterKeys(c)
             \/ LookUpKeys(c) /\ ~Holds(keymap, handler[c].request.id)
      PROVE  UNCHANGED Life!lifeVars
  <2>1. /\ handler'[c] = Idle /\ ~At(c, "push")
        /\ \A d \in Connections : d # c => handler'[d] = handler[d]
        /\ UNCHANGED <<qque, rque, job, tpc, ticket, collector>>
    <3>1. ~At(c, "push")
      BY <1>6 DEF SendQueryId, SendResult, RegisterKeys, LookUpKeys, At
    <3> QED
      BY <1>6, <3>1, HandlerReturns DEF managerVars
  <2> QED
    BY <2>1, Stutter DEF At, Idle
<1>7. ASSUME NEW c \in Connections, Receive(c) PROVE UNCHANGED Life!lifeVars
  <2>1. /\ ~At(c, "push") /\ handler'[c].step # "push"
        /\ \A d \in Connections : d # c => handler'[d] = handler[d]
        /\ UNCHANGED <<qque, rque, job, tpc, ticket, collector>>
    <3>1. /\ ~At(c, "push")
          /\ UNCHANGED <<qque, rque, job, tpc, ticket, collector>>
      BY <1>7 DEF Receive, At, managerVars, historyVars
    <3>2. /\ handler'[c].step # "push"
          /\ \A d \in Connections : d # c => handler'[d] = handler[d]
      BY <1>7, ReceiveFacts
    <3> QED
      BY <3>1, <3>2
  <2> QED
    BY <2>1, Stutter DEF At
<1>8. CASE StartThreads
  <2>1. /\ UNCHANGED <<qque, rque, job, ticket, collector, handler>>
        /\ \A t \in Threads : job[t] = Absent
    BY <1>8 DEF StartThreads, historyVars, LocalsOK, ThreadOK
  <2> QED
    BY <2>1, Stutter
<1>9. ASSUME \/ Listen \/ Stop \/ UNCHANGED serverVars
             \/ \E c \in Connections : ClientStep(c)
      PROVE  UNCHANGED Life!lifeVars
  <2>1. UNCHANGED <<qque, rque, job, tpc, ticket, collector, handler>>
    BY <1>9 DEF Listen, Stop, ClientStep, Connect, Break, serverVars, managerVars,
                historyVars
  <2> QED
    BY <2>1, Stutter
<1> QED
  BY <1>1, <1>2, <1>3, <1>4, <1>5, <1>6, <1>7, <1>8, <1>9
     DEF Next, HandlerStep, ThreadStep

\* The server implements QueryLifecycle: whatever handlers, threads and
\* connections do, what a query goes through never leaves its course.
THEOREM KeepsServingHolds == Spec => KeepsServing
<1>1. Init => Life!Init
  <2> SUFFICES ASSUME Init PROVE Life!Init
    OBVIOUS
  <2>1. \A n \in Numbers : LifePhase[n] = "new"
    BY AbsentAssumption
       DEF Init, LifePhase, LifeIn, LifeWorker, EmptyMap, At, Idle, NoId, Refused
  <2>2. LifePhase = [n \in Numbers |-> "new"]
    BY <2>1 DEF LifePhase
  <2>3. LifeId = [n \in Numbers |-> NoId]
    BY DEF Init, LifeId
  <2>4. LifeWorker = [t \in Threads |-> Absent]
    BY DEF Init, LifeWorker
  <2> QED
    BY <2>2, <2>3, <2>4 DEF Life!Init
<1> QED
  BY <1>1, StepRefines, IndInvHolds, PTL DEF Spec, KeepsServing, Life!Spec

-----------------------------------------------------------------------------
(* The client's threads *)

Places == {"ready", "none", "start", "recv", "set_callback", "call", "wait",
           "destroy", "done", "failed", "gone"}

ClientTypeOK ==
    /\ exclusive \in BOOLEAN
    /\ holder \in Callers \cup {Absent}
    /\ pc \in [Callers -> Places]
    /\ arg \in [Callers -> QueryIds \cup {NoId}]
    /\ asked \in [Callers -> 0 .. MaxRequests]
    /\ got \in [Callers -> ReplyType \cup {Absent}]
    /\ cbmap \in [QueryIds -> Callers]
    /\ registered \in BOOLEAN
    /\ overlapped \in BOOLEAN
    /\ called \subseteq [thread : Callbacks, id : QueryIds, query : QueryType]

\* The threads of callbacks are started one after the other, and there is
\* room for the one of a query that is being sent.
StartedUpTo(k) == \A i \in Callbacks : Started(i) <=> i <= k

OneByOne ==
    \E k \in 0 .. MaxQueries :
       /\ StartedUpTo(k)
       /\ pc[0] \in {"recv", "set_callback"} => k < MaxQueries

\* What a thread has before and after it is started.
ThreadsOK ==
    /\ \A i \in Callbacks : Started(i) => arg[i] \in QueryIds
    /\ \A i \in Callbacks : pc[i] \in {"none", "start"} => got[i] = Absent
    /\ \A i \in Callbacks : pc[i] = "call" => got[i] \in ReplyType
    /\ pc[0] \in {"set_callback", "wait"} => arg[0] \in QueryIds
    /\ \A i \in Callbacks : pc[i] \in {"none", "start", "recv", "call", "done",
                                       "failed"}

-----------------------------------------------------------------------------
(* The exchanges *)

Inbox  == conn[Client].inbox
Outbox == conn[Client].outbox

\* Replies are under way in the order of their requests, and behind them come
\* the requests still to be answered.
RepliesOK ==
    /\ \A x \in DOMAIN Outbox : Outbox[x].n <= sent
    /\ \A x, y \in DOMAIN Outbox : x < y => Outbox[x].n < Outbox[y].n
    /\ \A x \in DOMAIN Outbox, m \in Pending(Client) : Outbox[x].n < m

\* A result that is being sent is of the query its request names.
SendingOK ==
    At(Client, "send_result") =>
       ticket[handler[Client].query.n] = handler[Client].request.id

Waits(i, n) == pc[i] = "recv" /\ asked[i] = n

\* Caller i waits for the reply to request r.
Asks(i, r) ==
    Waits(i, r.n) /\ (i \in Callbacks => r.id = arg[i])

\* Reply r is what a caller i that asked for arg[i] can expect.
Answers(i, r) ==
    i \in Callbacks /\ r.kind = "result" => ticket[r.query.n] = arg[i]

\* While exchanges do not overlap one caller waits, and whatever is under way
\* besides keys is its request or the reply to it.
OneWaits ==
    \A i, j \in Callers : pc[i] = "recv" /\ pc[j] = "recv" => i = j

Replying == ~At(Client, "idle") /\ ~At(Client, "keys")

Requested(r) == \E i \in Callers : Asks(i, r)
Expected(r)  == \E i \in Callers : Waits(i, r.n) /\ Answers(i, r)

UnderWayOK ==
    /\ \A x \in DOMAIN Inbox : Inbox[x].kind # "keys" => Requested(Inbox[x])
    /\ Replying => Requested(handler[Client].request)
    /\ \A x \in DOMAIN Outbox : Expected(Outbox[x])

HasReply(i) == got[i] # Absent \/ (i \in Callbacks /\ pc[i] = "call")

GotOK ==
    /\ \A i \in Callers : HasReply(i) =>
          got[i].n = asked[i] /\ Answers(i, got[i])
    /\ \A c \in called : ticket[c.query.n] = c.id

ExchangesOK ==
    ~overlapped => OneWaits /\ GotOK /\ (Open => UnderWayOK)

\* Exclusive exchanges have a holder.
HolderOK ==
    exclusive =>
       ~overlapped /\ \A i \in Callers : pc[i] = "recv" => holder = i

ClientLocals == ClientTypeOK /\ OneByOne /\ ThreadsOK /\ HolderOK

ClientInv == IndInv /\ ClientLocals /\ RepliesOK /\ SendingOK /\ ExchangesOK

-----------------------------------------------------------------------------
(* What the server does to the connection                                  *)

\* The client's connection is one of the server's.
LEMMA ClientIsOne == Client \in Connections
  BY ClientAssumption

\* Tickets that were given stay.
TicketsKeep == \A n \in Numbers : ticket[n] # NoId => ticket'[n] = ticket[n]

\* What is under way stays, but for a handler that returns without a reply.
Keeps ==
    /\ Inbox' = Inbox /\ Outbox' = Outbox /\ (Open' <=> Open)
    /\ \/ At(Client, "idle")'
       \/ /\ ~At(Client, "idle")
          /\ handler'[Client].request = handler[Client].request
          /\ At(Client, "keys")' <=> At(Client, "keys")

\* Nothing is under way on a connection that was just made.
Opens == Inbox' = <<>> /\ Outbox' = <<>> /\ At(Client, "idle")'

Closes == conn'[Client].state = "closed"

\* The handler sends reply r to its request and returns.
RepliesWith(r) ==
    /\ Replying /\ At(Client, "idle")'
    /\ r.n = handler[Client].request.n
    /\ r.kind = "result" => ticket[r.query.n] = handler[Client].request.id
    /\ Inbox' = Inbox /\ Outbox' = Append(Outbox, r) /\ (Open' <=> Open)

ServerMoves ==
    \/ Keeps \/ Opens \/ Closes \/ Receive(Client)
    \/ \E r \in ReplyType : RepliesWith(r)

\* A handler that sends a reply does so, or finds the connection closed, or
\* takes it down.
LEMMA SendsReply ==
  ASSUME TypeOK, NEW r \in ReplyType, Reply(Client, r), Replying,
         r.n = handler[Client].request.n,
         r.kind = "result" => ticket[r.query.n] = handler[Client].request.id
  PROVE  At(Client, "idle")' /\ (Keeps \/ Closes \/ RepliesWith(r))
<1>1. handler' = [handler EXCEPT ![Client] = Idle]
  BY DEF Reply, Throw, Return
<1>2. At(Client, "idle")'
  BY <1>1, ClientIsOne DEF At, Idle, TypeOK
<1>3. CASE conn[Client].state = "open"
  <2>1. Append(Outbox, r) \in Seq(ReplyType)
    BY ClientIsOne DEF TypeOK, Outbox
  <2>2. conn' = [conn EXCEPT ![Client].outbox = Append(Outbox, r)]
    BY <1>3 DEF Reply, Outbox
  <2>3. /\ conn'[Client].inbox = Inbox /\ conn'[Client].state = conn[Client].state
        /\ conn'[Client].outbox = Append(Outbox, r)
    BY <2>1, <2>2, ClientIsOne, OutboxUpdate DEF TypeOK, ConnType, Inbox
  <2> QED
    BY <1>2, <2>3 DEF RepliesWith, Inbox, Outbox, Open
<1>4. CASE conn[Client].state # "open"
  <2>1. conn' = conn \/ conn' = Broken(Client)
    BY <1>4 DEF Reply, Throw
  <2>2. conn' = Broken(Client) => conn'[Client].state = "closed"
    BY ClientIsOne DEF Broken, TypeOK
  <2> QED
    BY <1>2, <2>1, <2>2 DEF Keeps, Closes, Inbox, Outbox, Open
<1> QED
  BY <1>2, <1>3, <1>4

\* The handlers' steps, on the connection and on the tickets.
LEMMA HandlerMoves ==
  ASSUME IndInv, SendingOK, HandlerStep(Client)
  PROVE  TicketsKeep /\ SendingOK' /\ ServerMoves /\ sent' = sent
<1> USE ClientIsOne DEF IndInv
<1>1. CASE Receive(Client)
  <2>1. handler'[Client].step \in {"keys", "lookup", "poll"}
    BY <1>1, ReceiveFacts
  <2> QED
    BY <1>1, <2>1 DEF Receive, historyVars, TicketsKeep, SendingOK, At, ServerMoves
<1>2. CASE RegisterKeys(Client)
  <2>1. handler' = [handler EXCEPT ![Client] = Idle] /\ UNCHANGED <<conn, sent, historyVars>>
    BY <1>2 DEF RegisterKeys, Return
  <2>2. handler'[Client].step = "idle"
    BY <2>1 DEF Idle, TypeOK
  <2> QED
    BY <2>1, <2>2 DEF historyVars, TicketsKeep, SendingOK, At, ServerMoves, Keeps,
                      Inbox, Outbox, Open
<1>3. CASE LookUpKeys(Client)
  <2>1. CASE Holds(keymap, handler[Client].request.id)
    <3>1. /\ At(Client, "lookup") /\ handler'[Client].step = "push"
          /\ handler'[Client].request = handler[Client].request
          /\ UNCHANGED <<conn, sent, historyVars>>
      BY <1>3, <2>1, LookUpFacts
    <3> QED
      BY <3>1 DEF historyVars, TicketsKeep, SendingOK, At, ServerMoves, Keeps,
                  Inbox, Outbox, Open
  <2>2. CASE ~Holds(keymap, handler[Client].request.id)
    <3>1. /\ handler' = [handler EXCEPT ![Client] = Idle]
          /\ conn' = conn \/ conn' = Broken(Client)
          /\ UNCHANGED <<sent, historyVars>>
      BY <1>3, <2>2 DEF LookUpKeys, Throw, Return
    <3>2. handler'[Client].step = "idle"
      BY <3>1 DEF Idle, TypeOK
    <3>3. conn' = Broken(Client) => conn'[Client].state = "closed"
      BY DEF Broken, TypeOK
    <3> QED
      BY <3>1, <3>2, <3>3 DEF historyVars, TicketsKeep, SendingOK, At, ServerMoves,
                              Keeps, Closes, Inbox, Outbox, Open
  <2> QED
    BY <2>1, <2>2
<1>4. CASE PushQuery(Client)
  <2> DEFINE m == handler[Client].query.n
  <2>1. /\ At(Client, "push") /\ m \in Numbers /\ m = handler[Client].request.n
        /\ \E id : ticket' = [ticket EXCEPT ![m] = id]
        /\ handler'[Client].step = "send_id"
        /\ handler'[Client].request = handler[Client].request
        /\ UNCHANGED <<conn, sent>>
    BY <1>4, PushFacts
  <2>2. ticket[m] = NoId
    BY <2>1 DEF TicketsOK, At
  <2>3. TicketsKeep
    BY <2>1, <2>2 DEF TicketsKeep, TypeOK
  <2> QED
    BY <2>1, <2>3 DEF SendingOK, At, ServerMoves, Keeps, Inbox, Outbox, Open
<1>5. CASE SendQueryId(Client)
  <2> DEFINE r == [kind |-> "id", n |-> handler[Client].request.n,
                   id |-> handler[Client].id, query |-> Absent]
  <2>1. /\ At(Client, "send_id") /\ Reply(Client, r)
        /\ UNCHANGED <<sent, historyVars>>
    BY <1>5 DEF SendQueryId
  <2>2. r \in ReplyType /\ Replying
    BY <2>1 DEF LocalsOK, HandlerOK, At, QueryRequest, ReplyType, Replying
  <2>3. r.n = handler[Client].request.n /\ r.kind # "result"
    OBVIOUS
  <2> HIDE DEF r
  <2>4. At(Client, "idle")' /\ (Keeps \/ Closes \/ RepliesWith(r))
    BY <2>1, <2>2, <2>3, SendsReply
  <2> QED
    BY <2>1, <2>2, <2>4 DEF historyVars, TicketsKeep, SendingOK, At, ServerMoves
<1>6. CASE PopResult(Client)
  <2>1. PICK id \in Ids :
           /\ id = handler[Client].request.id
           /\ rque[id] \in QueryType
           /\ handler'[Client].query = rque[id]
    BY <1>6, PopFacts
  <2>2. /\ At(Client, "poll") /\ handler'[Client].step = "send_result"
        /\ handler'[Client].request = handler[Client].request
        /\ UNCHANGED <<conn, sent, ticket>>
    BY <1>6, PopFacts
  <2>3. ticket[rque[id].n] = id
    BY <2>1, AbsentAssumption DEF PlacedOK, StoredOK, Holds
  <2> QED
    BY <2>1, <2>2, <2>3 DEF TicketsKeep, SendingOK, At, ServerMoves, Keeps,
                            Inbox, Outbox, Open
<1>7. CASE SendResult(Client)
  <2> DEFINE r == [kind |-> "result", n |-> handler[Client].request.n,
                   id |-> handler[Client].id, query |-> handler[Client].query]
  <2>1. /\ At(Client, "send_result")
        /\ Reply(Client, r) \/ Throw(Client)
        /\ UNCHANGED <<sent, ticket>>
    BY <1>7 DEF SendResult
  <2>2. r \in ReplyType /\ Replying
    BY <2>1 DEF LocalsOK, HandlerOK, At, ResultRequest, ReplyType, Replying
  <2>3. /\ r.n = handler[Client].request.n
        /\ ticket[r.query.n] = handler[Client].request.id
    BY <2>1 DEF SendingOK
  <2> HIDE DEF r
  <2>4. CASE Reply(Client, r)
    <3>1. At(Client, "idle")' /\ (Keeps \/ Closes \/ RepliesWith(r))
      BY <2>2, <2>3, <2>4, SendsReply
    <3> QED
      BY <2>1, <2>2, <3>1 DEF TicketsKeep, SendingOK, At, ServerMoves
  <2>5. CASE Throw(Client)
    <3>1. /\ handler' = [handler EXCEPT ![Client] = Idle]
          /\ conn' = conn \/ conn' = Broken(Client)
      BY <2>5 DEF Throw, Return
    <3>2. handler'[Client].step = "idle"
      BY <3>1 DEF Idle, TypeOK
    <3>3. conn' = Broken(Client) => conn'[Client].state = "closed"
      BY DEF Broken, TypeOK
    <3> QED
      BY <2>1, <3>1, <3>2, <3>3 DEF TicketsKeep, SendingOK, At, ServerMoves,
                                    Keeps, Closes, Inbox, Outbox, Open
  <2> QED
    BY <2>1, <2>4, <2>5
<1> QED
  BY <1>1, <1>2, <1>3, <1>4, <1>5, <1>6, <1>7 DEF HandlerStep

\* All of the server's steps, and the connection's own.
LEMMA ServerMovesStep ==
  ASSUME IndInv, SendingOK, ServerStep \/ Connect(Client) \/ Break(Client)
  PROVE  TicketsKeep /\ SendingOK' /\ ServerMoves /\ sent' = sent
<1> USE ClientIsOne DEF IndInv
<1>1. CASE Listen \/ StartThreads \/ \E t \in Threads : ThreadStep(t)
  <2>1. UNCHANGED <<conn, handler, sent, ticket>>
    BY <1>1 DEF Listen, StartThreads, ThreadStep, TakeQuery, Conclude, historyVars
  <2> QED
    BY <2>1 DEF TicketsKeep, SendingOK, At, ServerMoves, Keeps, Inbox, Outbox, Open
<1>2. CASE Connect(Client)
  <2>1. /\ conn[Client].state = "new"
        /\ conn' = [conn EXCEPT ![Client].state = "open"]
        /\ UNCHANGED <<handler, sent, ticket>>
    BY <1>2 DEF Connect, historyVars
  <2>2. /\ conn'[Client].inbox = conn[Client].inbox
        /\ conn'[Client].outbox = conn[Client].outbox
    BY <2>1 DEF TypeOK
  <2>3. Inbox = <<>> /\ Outbox = <<>> /\ At(Client, "idle")
    BY <2>1 DEF LocalsOK, ConnOK, Inbox, Outbox
  <2> QED
    BY <2>1, <2>2, <2>3 DEF TicketsKeep, SendingOK, At, ServerMoves, Opens, Inbox,
                            Outbox
<1>3. CASE Break(Client)
  <2>1. conn'[Client].state = "closed" /\ UNCHANGED <<handler, sent, ticket>>
    BY <1>3 DEF Break, Broken, TypeOK, historyVars
  <2> QED
    BY <2>1 DEF TicketsKeep, SendingOK, At, ServerMoves, Closes
<1> QED
  BY <1>1, <1>2, <1>3, HandlerMoves DEF ServerStep

-----------------------------------------------------------------------------
(* The order of replies                                                    *)

\* What is under way has a number.
LEMMA UnderWayTypes ==
  ASSUME TypeOK
  PROVE  /\ Inbox \in Seq(RequestType) /\ Outbox \in Seq(ReplyType)
         /\ \A x \in DOMAIN Inbox : Inbox[x] \in RequestType
         /\ \A x \in DOMAIN Outbox : Outbox[x] \in ReplyType /\ Outbox[x].n \in Numbers
         /\ DOMAIN Outbox = 1 .. Len(Outbox) /\ Len(Outbox) \in Nat
<1>1. Inbox \in Seq(RequestType) /\ Outbox \in Seq(ReplyType)
  BY ClientIsOne DEF TypeOK, Inbox, Outbox
<1>2. \A r \in ReplyType : r.n \in Numbers
  BY DEF ReplyType
<1> QED
  BY <1>1, <1>2, ElementOfSeq, LenProperties

\* Requests come and go without touching the replies.
LEMMA RequestsLeaveReplies ==
  ASSUME TypeOK, Receive(Client) \/ \E r \in RequestType : ArrivesAt(Client, r)
  PROVE  Outbox' = Outbox /\ (Open' <=> Open)
<1>1. CASE Receive(Client)
  <2>1. conn[Client].inbox \in Seq(RequestType) /\ conn[Client].inbox # <<>>
    BY <1>1, ClientIsOne DEF Receive, TypeOK
  <2>2. Tail(conn[Client].inbox) \in Seq(RequestType)
    BY <2>1, HeadTailProperties
  <2>3. conn' = [conn EXCEPT ![Client].inbox = Tail(conn[Client].inbox)]
    BY <1>1 DEF Receive
  <2> QED
    BY <2>2, <2>3, ClientIsOne, InboxUpdate DEF TypeOK, ConnType, Outbox, Open
<1>2. ASSUME NEW r \in RequestType, ArrivesAt(Client, r)
      PROVE  Outbox' = Outbox /\ (Open' <=> Open)
  <2>1. Append(conn[Client].inbox, r) \in Seq(RequestType)
    BY ClientIsOne DEF TypeOK
  <2>2. conn' = [conn EXCEPT ![Client].inbox = Append(conn[Client].inbox, r)]
    BY <1>2 DEF ArrivesAt, Arrive
  <2> QED
    BY <2>1, <2>2, ClientIsOne, InboxUpdate DEF TypeOK, ConnType, Outbox, Open
<1> QED
  BY <1>1, <1>2

\* Replies stay in order where the replies do and no lower number is new.
LEMMA RepliesStay ==
  ASSUME RepliesOK, Outbox' = Outbox, sent' = sent \/ sent' = sent + 1, TypeOK,
         \A m \in Pending(Client)' : m \in Pending(Client) \/ m = sent + 1
  PROVE  RepliesOK'
<1>1. \A x \in DOMAIN Outbox : Outbox[x].n \in Nat /\ sent \in Nat
  BY UnderWayTypes, ParametersAssumption DEF Numbers, TypeOK
<1> DEFINE num(x) == Outbox[x].n
<1>2. \A x \in DOMAIN Outbox : num(x) <= sent' /\ num(x) < sent + 1
  <2> SUFFICES ASSUME NEW x \in DOMAIN Outbox
               PROVE  num(x) <= sent' /\ num(x) < sent + 1
    OBVIOUS
  <2>1. num(x) \in Nat /\ sent \in Nat /\ num(x) <= sent
    BY <1>1 DEF RepliesOK
  <2> HIDE DEF num
  <2> QED
    BY <2>1
<1>3. \A x \in DOMAIN Outbox, m \in Pending(Client)' : num(x) < m
  BY <1>2 DEF RepliesOK
<1> QED
  BY <1>2, <1>3 DEF RepliesOK

\* No replies are in order.
LEMMA NoReplies ==
  ASSUME Outbox' = <<>>
  PROVE  RepliesOK'
<1>1. DOMAIN Outbox' = {}
  OBVIOUS
<1> QED
  BY <1>1 DEF RepliesOK

\* A reply comes behind those under way and before what is still to be
\* answered.
LEMMA RepliesAppend ==
  ASSUME IndInv, RepliesOK, sent' = sent, NEW r \in ReplyType, RepliesWith(r)
  PROVE  RepliesOK'
<1> USE ClientIsOne
<1>1. /\ r.n \in InHand(Client) /\ r.n \in Pending(Client)
      /\ Pending(Client)' = Awaiting(Client)
  BY DEF RepliesWith, Replying, InHand, Pending, At, Awaiting, Inbox
<1>2. r.n \in 1 .. sent /\ sent \in Nat /\ \A m \in Awaiting(Client) : r.n < m
  BY <1>1, ParametersAssumption DEF IndInv, OrderOK, TypeOK
<1>3. \A x \in DOMAIN Outbox : Outbox[x].n < r.n /\ Outbox[x].n <= sent
  BY <1>1 DEF RepliesOK
<1> DEFINE O == Outbox'
<1>4. /\ DOMAIN Outbox = 1 .. Len(Outbox) /\ Len(Outbox) \in Nat
      /\ DOMAIN O = 1 .. Len(Outbox) + 1
      /\ \A x \in 1 .. Len(Outbox) : O[x] = Outbox[x]
      /\ O[Len(Outbox) + 1] = r
  BY UnderWayTypes, AppendProperties, LenProperties DEF IndInv, RepliesWith
<1> DEFINE k == Len(Outbox)
           old(x) == Outbox[x].n
           new(x) == O[x].n
<1>5. /\ k \in Nat /\ DOMAIN O = 1 .. k + 1 /\ new(k + 1) = r.n
      /\ \A x \in 1 .. k : new(x) = old(x) /\ old(x) < r.n /\ old(x) <= sent
      /\ \A x, y \in 1 .. k : x < y => old(x) < old(y)
      /\ \A x \in 1 .. k, m \in Awaiting(Client) : old(x) < m
  BY <1>1, <1>3, <1>4 DEF RepliesOK, Pending
<1> HIDE DEF k, old, new, O
<1>6. \A x \in 1 .. k + 1 : x \in 1 .. k \/ x = k + 1
  BY <1>5
<1>7. \A x \in 1 .. k + 1 : new(x) <= sent
  BY <1>2, <1>5, <1>6
<1>8. ASSUME NEW x \in 1 .. k + 1, NEW y \in 1 .. k + 1, x < y
      PROVE  new(x) < new(y)
  <2>1. x \in 1 .. k
    BY <1>5, <1>8
  <2> QED
    BY <1>5, <1>6, <1>8, <2>1
<1>9. \A x \in 1 .. k + 1, m \in Awaiting(Client) : new(x) < m
  BY <1>2, <1>5, <1>6
<1> QED
  BY <1>1, <1>5, <1>7, <1>8, <1>9 DEF RepliesOK, new, O

\* The server's steps keep replies in order.
LEMMA RepliesServer ==
  ASSUME IndInv, IndInv', RepliesOK, ServerMoves, sent' = sent
  PROVE  RepliesOK'
<1> USE ClientIsOne
<1>1. CASE Keeps
  <2>1. Awaiting(Client)' = Awaiting(Client) /\ InHand(Client)' \subseteq InHand(Client)
    BY <1>1 DEF Keeps, Awaiting, InHand, At, Inbox
  <2> QED
    BY <1>1, <2>1, RepliesStay DEF IndInv, Keeps, Pending
<1>2. CASE Opens
  BY <1>2, NoReplies DEF Opens
<1>3. CASE Closes
  <2>1. Outbox' = <<>>
    BY <1>3 DEF IndInv, LocalsOK, ConnOK, Closes, Outbox
  <2> QED
    BY <2>1, NoReplies
<1>4. CASE Receive(Client)
  <2>1. Pending(Client)' \subseteq Pending(Client)
    BY <1>4, ReceivePending DEF IndInv, Pending
  <2> QED
    BY <1>4, <2>1, RepliesStay, RequestsLeaveReplies DEF IndInv
<1>5. ASSUME NEW r \in ReplyType, RepliesWith(r) PROVE RepliesOK'
  BY <1>5, RepliesAppend
<1> QED
  BY <1>1, <1>2, <1>3, <1>4, <1>5 DEF ServerMoves

\* A request that arrives comes behind all replies.
LEMMA RepliesArrive ==
  ASSUME IndInv, RepliesOK, NEW r \in RequestType, r.n = sent + 1,
         ArrivesAt(Client, r)
  PROVE  RepliesOK'
<1> USE ClientIsOne
<1>1. \A m \in Pending(Client)' : m \in Pending(Client) \/ m = sent + 1
  BY ArrivePending DEF IndInv, Pending
<1>2. sent' = sent + 1
  BY DEF ArrivesAt, Arrive
<1>3. Outbox' = Outbox
  BY RequestsLeaveReplies DEF IndInv
<1> QED
  BY <1>1, <1>2, <1>3, RepliesStay DEF IndInv

-----------------------------------------------------------------------------
(* The steps of the client alone                                           *)

\* What the client does to its connection besides sending requests keeps the
\* server's invariant.
LEMMA ConnAlone ==
  ASSUME IndInv, conn' \in ConnType, ConnOK',
         UNCHANGED <<serverRest, sent, firstKeys>>,
         \A c \in Connections :
            /\ \/ conn'[c].inbox = conn[c].inbox
               \/ conn'[c].inbox = <<>> /\ conn'[c].state = "closed"
            /\ conn[c].state = "closed" => conn'[c].state = "closed"
  PROVE  IndInv'
<1> USE DEF IndInv, serverRest, managerVars
<1>1. Quiet
  BY DEF Quiet, At
<1>2. TypeOK'
  BY DEF TypeOK, ConnType
<1>3. LocalsOK'
  BY DEF LocalsOK, HandlerOK, ThreadOK, At
<1>4. OrderOK' /\ KeysAhead'
  BY <1>1, OrderStep, KeysAheadStep
<1>5. TicketsOK'
  <2>1. \A c \in Connections : Awaiting(c)' \subseteq Awaiting(c)
    BY <1>1, QuietPending
  <2> QED
    BY <2>1 DEF TicketsOK
<1>6. PlacedOK'
  BY DEF PlacedOK, StoredOK, JobsOK, ApartOK, Holds
<1>7. KeysHeld'
  BY DEF KeysHeld, HasItsKeys
<1>8. CollectedOK'
  <2> SUFFICES ASSUME NEW n \in Numbers, collector[n] # Absent, n \notin delivered
               PROVE  \/ conn'[collector[n]].state = "closed"
                      \/ /\ At(collector[n], "send_result")
                         /\ handler[collector[n]].query.n = n
    BY DEF CollectedOK, At
  <2>1. collector[n] \in Connections
    BY DEF TypeOK
  <2> QED
    BY <2>1 DEF CollectedOK
<1> QED
  BY <1>2, <1>3, <1>4, <1>5, <1>6, <1>7, <1>8

\* Reading a reply takes the first one off the connection.
LEMMA EndFacts ==
  ASSUME IndInv, NEW i \in Callers, NEW next, EndExchange(i, next),
         handler' = handler
  PROVE  /\ conn' \in ConnType /\ ConnOK' /\ Open /\ Open'
         /\ \A c \in Connections : conn'[c].inbox = conn[c].inbox
                                   /\ conn'[c].state = conn[c].state
         /\ Inbox' = Inbox
         /\ Len(Outbox) \in Nat /\ Len(Outbox) > 0 /\ 1 \in DOMAIN Outbox
         /\ Outbox[1] \in ReplyType
         /\ DOMAIN Outbox' = 1 .. Len(Outbox) - 1
         /\ \A x \in 1 .. Len(Outbox) - 1 :
               Outbox'[x] = Outbox[x + 1] /\ x + 1 \in DOMAIN Outbox
         /\ got' = [got EXCEPT ![i] = Outbox[1]]
<1> USE ClientIsOne
<1>1. Outbox \in Seq(ReplyType) /\ Outbox # <<>>
  BY UnderWayTypes DEF IndInv, EndExchange, Outbox
<1>2. /\ Len(Outbox) \in Nat /\ Len(Outbox) > 0 /\ DOMAIN Outbox = 1 .. Len(Outbox)
      /\ Outbox[1] \in ReplyType /\ Head(Outbox) = Outbox[1]
      /\ Tail(Outbox) \in Seq(ReplyType) /\ Len(Tail(Outbox)) = Len(Outbox) - 1
      /\ \A x \in 1 .. Len(Outbox) - 1 : Tail(Outbox)[x] = Outbox[x + 1]
  BY <1>1, HeadTailProperties, LenProperties
<1>3. conn' = [conn EXCEPT ![Client].outbox = Tail(Outbox)]
  BY DEF EndExchange, Outbox
<1>4. /\ conn' \in ConnType /\ Outbox' = Tail(Outbox)
      /\ \A c \in Connections : c # Client => conn'[c] = conn[c]
      /\ conn'[Client].inbox = conn[Client].inbox
      /\ conn'[Client].state = conn[Client].state
  BY <1>2, <1>3, OutboxUpdate DEF IndInv, TypeOK, ConnType, Outbox
<1>5. Open
  BY <1>1 DEF IndInv, LocalsOK, ConnOK, Open, Outbox
<1>6. ConnOK'
  <2> SUFFICES ASSUME NEW c \in Connections
               PROVE  /\ conn'[c].state # "open" =>
                            conn'[c].inbox = <<>> /\ conn'[c].outbox = <<>>
                      /\ conn'[c].state = "new" => handler[c].step = "idle"
    BY DEF ConnOK, At
  <2>1. CASE c = Client
    BY <1>4, <1>5, <2>1 DEF Open
  <2>2. CASE c # Client
    <3>1. conn'[c] = conn[c]
      BY <1>4, <2>2
    <3> QED
      BY <3>1 DEF IndInv, LocalsOK, ConnOK, At
  <2> QED
    BY <2>1, <2>2
<1>7. DOMAIN Outbox' = 1 .. Len(Outbox) - 1
  BY <1>2, <1>4, LenProperties
<1> DEFINE k == Len(Outbox)
<1>8. k \in Nat /\ k > 0 => 1 \in 1 .. k /\ \A x \in 1 .. k - 1 : x + 1 \in 1 .. k
  <2> HIDE DEF k
  <2> QED
    OBVIOUS
<1>9. \A c \in Connections : /\ conn'[c].inbox = conn[c].inbox
                             /\ conn'[c].state = conn[c].state
  BY <1>4
<1>10. \A x \in 1 .. Len(Outbox) - 1 :
          Outbox'[x] = Outbox[x + 1] /\ x + 1 \in DOMAIN Outbox
  BY <1>2, <1>4, <1>8
<1>11. Open' /\ Inbox' = Inbox
  BY <1>5, <1>9 DEF Inbox, Open
<1>12. got' = [got EXCEPT ![i] = Outbox[1]]
  BY <1>2 DEF EndExchange, Outbox
<1> QED
  BY <1>2, <1>4, <1>5, <1>6, <1>7, <1>8, <1>9, <1>10, <1>11, <1>12

\* Taking the first reply keeps the others in order, behind it.
LEMMA EndReplies ==
  ASSUME IndInv, RepliesOK, NEW i \in Callers, NEW next, EndExchange(i, next),
         UNCHANGED <<serverRest, sent>>
  PROVE  /\ RepliesOK'
         /\ \A x \in DOMAIN Outbox' : Outbox[1].n < Outbox'[x].n
         /\ \A m \in Pending(Client) : Outbox[1].n < m
         /\ Pending(Client)' = Pending(Client)
<1> USE ClientIsOne
<1>0. handler' = handler
  BY DEF serverRest
<1> DEFINE k == Len(Outbox)
           old(x) == Outbox[x].n
           new(x) == Outbox'[x].n
           D == DOMAIN Outbox
<1>1. /\ k \in Nat /\ k > 0 /\ 1 \in D /\ DOMAIN Outbox' = 1 .. k - 1
      /\ \A x \in 1 .. k - 1 : new(x) = old(x + 1) /\ x + 1 \in D
      /\ Inbox' = Inbox
  BY <1>0, EndFacts
<1>2. /\ \A x \in D : old(x) <= sent
      /\ \A x, y \in D : x < y => old(x) < old(y)
      /\ \A x \in D, m \in Pending(Client) : old(x) < m
  BY DEF RepliesOK
<1>3. Pending(Client)' = Pending(Client)
  BY <1>0, <1>1 DEF Pending, Awaiting, InHand, At, Inbox
<1> HIDE DEF k, old, new, D
<1>4. \A x \in 1 .. k - 1 : new(x) <= sent /\ old(1) < new(x)
  BY <1>1, <1>2
<1>5. \A x, y \in 1 .. k - 1 : x < y => new(x) < new(y)
  BY <1>1, <1>2
<1>6. \A x \in 1 .. k - 1, m \in Pending(Client) : new(x) < m
  BY <1>1, <1>2
<1> QED
  BY <1>1, <1>2, <1>3, <1>4, <1>5, <1>6 DEF RepliesOK, old, new, D

-----------------------------------------------------------------------------
(* What waiting callers can expect                                         *)

\* An answer stays one.
LEMMA AnswersStay ==
  ASSUME TicketsKeep, ThreadsOK, NEW i \in Callers, i \in Callbacks => Started(i),
         arg'[i] = arg[i], NEW r \in ReplyType, Answers(i, r)
  PROVE  Answers(i, r)'
<1>1. CASE i \in Callbacks /\ r.kind = "result"
  <2>1. r.query.n \in Numbers
    BY <1>1 DEF ReplyType, QueryType
  <2>2. arg[i] # NoId
    BY <1>1, MarksAreNoIds DEF ThreadsOK, QueryIds, Refused, NoId
  <2>3. ticket[r.query.n] = arg[i]
    BY <1>1 DEF Answers
  <2> QED
    BY <2>1, <2>2, <2>3 DEF Answers, TicketsKeep
<1> QED
  BY <1>1 DEF Answers

\* A callback that was invoked with a result of its query stays so.
LEMMA CalledStay ==
  ASSUME TicketsKeep, ClientTypeOK, GotOK
  PROVE  \A c \in called : ticket'[c.query.n] = c.id
<1> SUFFICES ASSUME NEW c \in called PROVE ticket'[c.query.n] = c.id
  OBVIOUS
<1>1. c \in [thread : Callbacks, id : QueryIds, query : QueryType]
  BY DEF ClientTypeOK
<1>2. c.query.n \in Numbers /\ c.id # NoId
  BY <1>1, MarksAreNoIds DEF QueryType, QueryIds, Refused, NoId
<1> QED
  BY <1>2 DEF GotOK, TicketsKeep

\* So does what was read.
LEMMA GotStay ==
  ASSUME TicketsKeep, ClientTypeOK, ThreadsOK, GotOK,
         UNCHANGED <<got, asked, called, pc>>,
         \A i \in Callers : arg'[i] = arg[i]
  PROVE  GotOK'
<1>1. ASSUME NEW i \in Callers, HasReply(i)
      PROVE  got[i].n = asked[i] /\ Answers(i, got[i])'
  <2>1. got[i] \in ReplyType
    BY <1>1 DEF ClientTypeOK, ThreadsOK, HasReply
  <2>2. i \in Callbacks => Started(i)
    BY <1>1 DEF ThreadsOK, Started, HasReply
  <2>3. got[i].n = asked[i] /\ Answers(i, got[i])
    BY <1>1 DEF GotOK
  <2> QED
    BY <1>1, <2>1, <2>2, <2>3, AnswersStay
<1>2. got' = got
  OBVIOUS
<1> QED
  BY <1>1, <1>2, CalledStay DEF GotOK, Answers, HasReply

\* A reply that is expected is so while its caller waits.
LEMMA ExpectedStays ==
  ASSUME TicketsKeep, ThreadsOK, UNCHANGED clientVars,
         NEW r \in ReplyType, Expected(r)
  PROVE  Expected(r)'
<1>1. PICK i \in Callers : Waits(i, r.n) /\ Answers(i, r)
  BY DEF Expected
<1>2. Started(i) /\ Waits(i, r.n)'
  BY <1>1 DEF Waits, Started, clientVars
<1>3. Answers(i, r)'
  BY <1>1, <1>2, AnswersStay DEF clientVars
<1> QED
  BY <1>2, <1>3 DEF Expected

\* The reply to a request is expected.
LEMMA ReplyExpected ==
  ASSUME NEW q, Requested(q), NEW r, r.n = q.n,
         r.kind = "result" => ticket[r.query.n] = q.id
  PROVE  Expected(r)
<1>1. PICK i \in Callers : Asks(i, q)
  BY DEF Requested
<1> QED
  BY <1>1 DEF Asks, Waits, Answers, Expected

\* What is to be shown of a step.
LEMMA UnderWayNext ==
  ASSUME \A x \in DOMAIN Inbox' :
            \E r : r = Inbox'[x] /\ (r.kind # "keys" => Requested(r)'),
         Replying' => \E r : r = handler'[Client].request /\ Requested(r)',
         \A x \in DOMAIN Outbox' : \E r : r = Outbox'[x] /\ Expected(r)'
  PROVE  UnderWayOK'
  BY DEF UnderWayOK, Requested, Asks, Expected, Waits, Answers

\* The server's steps give each caller what it asked for.
LEMMA UnderWayServer ==
  ASSUME IndInv, IndInv', ThreadsOK, UNCHANGED clientVars, TicketsKeep,
         ServerMoves, Open => UnderWayOK, Open'
  PROVE  UnderWayOK'
<1> USE ClientIsOne
<1>1. \A r : Requested(r)' <=> Requested(r)
  BY DEF Requested, Asks, Waits, clientVars
<1>2. ASSUME Open, NEW x \in DOMAIN Outbox
      PROVE  \E r : r = Outbox[x] /\ Expected(r)'
  <2>1. PICK r \in ReplyType : r = Outbox[x]
    BY UnderWayTypes DEF IndInv
  <2>2. Expected(r)
    BY <1>2, <2>1 DEF UnderWayOK
  <2>3. Expected(r)'
    BY <2>2, ExpectedStays
  <2> QED
    BY <2>1, <2>3
<1>3. ASSUME Open, NEW x \in DOMAIN Inbox
      PROVE  \E r : r = Inbox[x] /\ (r.kind # "keys" => Requested(r)')
  <2>1. PICK r : r = Inbox[x]
    OBVIOUS
  <2> QED
    BY <1>1, <1>3, <2>1 DEF UnderWayOK
<1>4. ASSUME Open, Replying
      PROVE  \E r : r = handler[Client].request /\ Requested(r)'
  <2>1. PICK r : r = handler[Client].request
    OBVIOUS
  <2> QED
    BY <1>1, <1>4, <2>1 DEF UnderWayOK
<1>5. CASE Keeps
  <2>1. Open /\ Inbox' = Inbox /\ Outbox' = Outbox
    BY <1>5 DEF Keeps
  <2>2. Replying' => Replying /\ handler'[Client].request = handler[Client].request
    BY <1>5 DEF Keeps, Replying, At
  <2> QED
    BY <1>2, <1>3, <1>4, <2>1, <2>2, UnderWayNext
<1>6. CASE Opens
  <2>1. DOMAIN Inbox' = {} /\ DOMAIN Outbox' = {} /\ ~Replying'
    BY <1>6 DEF Opens, Replying
  <2> QED
    BY <2>1, UnderWayNext
<1>7. CASE Receive(Client)
  <2>1. Open /\ Outbox' = Outbox
    BY <1>7, RequestsLeaveReplies DEF IndInv
  <2> DEFINE k == Len(Inbox)
  <2>2. /\ Inbox \in Seq(RequestType) /\ k \in Nat /\ k > 0
        /\ Inbox' \in Seq(RequestType) /\ Len(Inbox') = k - 1
        /\ \A x \in 1 .. k - 1 : Inbox'[x] = Inbox[x + 1]
        /\ handler'[Client].request = Inbox[1]
        /\ Replying' => Inbox[1].kind # "keys"
    BY <1>7, ReceiveFacts, LenProperties DEF IndInv, Inbox, Replying, At
  <2>3. DOMAIN Inbox = 1 .. k /\ DOMAIN Inbox' = 1 .. k - 1
    BY <2>2, LenProperties
  <2>4. 1 \in 1 .. k /\ \A x \in 1 .. k - 1 : x + 1 \in 1 .. k
    <3> HIDE DEF k
    <3> QED
      BY <2>2
  <2>5. \A x \in DOMAIN Inbox' :
           \E r : r = Inbox'[x] /\ (r.kind # "keys" => Requested(r)')
    BY <1>3, <2>1, <2>2, <2>3, <2>4
  <2>6. Replying' => \E r : r = handler'[Client].request /\ Requested(r)'
    BY <1>3, <2>1, <2>2, <2>3, <2>4
  <2> QED
    BY <1>2, <2>1, <2>5, <2>6, UnderWayNext
<1>8. ASSUME NEW q \in ReplyType, RepliesWith(q)
      PROVE  UnderWayOK'
  <2>1. /\ Open /\ Inbox' = Inbox /\ Outbox' = Append(Outbox, q) /\ ~Replying'
        /\ Requested(handler[Client].request)
    BY <1>8 DEF RepliesWith, Replying, UnderWayOK
  <2>2. Expected(q)
    BY <1>8, <2>1, ReplyExpected DEF RepliesWith
  <2>3. Expected(q)'
    BY <2>2, ExpectedStays
  <2> DEFINE k == Len(Outbox)
  <2>4. /\ DOMAIN Outbox = 1 .. k /\ k \in Nat
        /\ DOMAIN Outbox' = 1 .. k + 1
        /\ \A x \in 1 .. k : Outbox'[x] = Outbox[x]
        /\ Outbox'[k + 1] = q
    BY <2>1, UnderWayTypes, AppendProperties, LenProperties DEF IndInv
  <2>5. \A x \in 1 .. k + 1 : x \in 1 .. k \/ x = k + 1
    <3> HIDE DEF k
    <3> QED
      BY <2>4
  <2>6. \A x \in DOMAIN Outbox' : \E r : r = Outbox'[x] /\ Expected(r)'
    BY <1>2, <2>1, <2>3, <2>4, <2>5
  <2> QED
    BY <1>3, <2>1, <2>6, UnderWayNext
<1>9. ~Closes
  BY DEF Closes, Open
<1> QED
  BY <1>5, <1>6, <1>7, <1>8, <1>9 DEF ServerMoves

-----------------------------------------------------------------------------
(* The steps of an exchange                                                *)

\* The server's steps keep the exchanges in order.
LEMMA ExchangesServer ==
  ASSUME IndInv, IndInv', ClientTypeOK, ThreadsOK, ExchangesOK,
         UNCHANGED clientVars, TicketsKeep, ServerMoves
  PROVE  ExchangesOK'
<1> SUFFICES ASSUME ~overlapped
             PROVE  OneWaits' /\ GotOK' /\ (Open' => UnderWayOK')
  BY DEF ExchangesOK, clientVars
<1>1. OneWaits /\ GotOK /\ (Open => UnderWayOK)
  BY DEF ExchangesOK
<1>2. OneWaits'
  BY <1>1 DEF OneWaits, clientVars
<1>3. GotOK'
  BY <1>1, GotStay DEF clientVars
<1>4. Open' => UnderWayOK'
  BY <1>1, UnderWayServer
<1> QED
  BY <1>2, <1>3, <1>4

\* Where no caller waits nothing but keys is under way.
LEMMA NothingUnderWay ==
  ASSUME UnderWayOK, \A i \in Callers : pc[i] # "recv"
  PROVE  /\ \A x \in DOMAIN Inbox : Inbox[x].kind = "keys"
         /\ ~Replying /\ DOMAIN Outbox = {}
<1>1. \A r : ~Requested(r) /\ ~Expected(r)
  BY DEF Requested, Asks, Expected, Waits
<1> QED
  BY <1>1 DEF UnderWayOK

\* A request that arrives is the last one under way.
LEMMA InboxAppend ==
  ASSUME TypeOK, NEW q \in RequestType, ArrivesAt(Client, q)
  PROVE  /\ Open /\ Outbox' = Outbox /\ (Replying' <=> Replying)
         /\ handler' = handler
         /\ \A x \in DOMAIN Inbox' :
               Inbox'[x] = q \/ (x \in DOMAIN Inbox /\ Inbox'[x] = Inbox[x])
<1>1. /\ Inbox \in Seq(RequestType) /\ Inbox' \in Seq(RequestType)
      /\ Len(Inbox') = Len(Inbox) + 1 /\ Len(Inbox) \in Nat
      /\ \A x \in 1 .. Len(Inbox) : Inbox'[x] = Inbox[x]
      /\ Inbox'[Len(Inbox) + 1] = q
      /\ handler' = handler
  BY ClientIsOne, ArriveFacts DEF Inbox
<1>2. DOMAIN Inbox = 1 .. Len(Inbox) /\ DOMAIN Inbox' = 1 .. Len(Inbox) + 1
  BY <1>1, LenProperties
<1> DEFINE k == Len(Inbox)
<1>3. \A x \in 1 .. k + 1 : x \in 1 .. k \/ x = k + 1
  <2>1. k \in Nat
    BY <1>1
  <2> HIDE DEF k
  <2> QED
    BY <2>1
<1>4. Open
  BY DEF ArrivesAt, Arrive, Open
<1> QED
  BY <1>1, <1>2, <1>3, <1>4, RequestsLeaveReplies DEF Replying, At

\* An exchange that begins is the only one, or overlaps another.
LEMMA ExchangesBegin ==
  ASSUME IndInv, ClientTypeOK, ExchangesOK, NEW i \in Callers, pc[i] # "recv",
         NEW q \in RequestType, i \in Callbacks => q.id = arg[i],
         BeginExchange(i, q), UNCHANGED <<serverRest, arg, called>>
  PROVE  ExchangesOK'
<1> SUFFICES ASSUME ~overlapped'
             PROVE  OneWaits' /\ GotOK' /\ UnderWayOK'
  BY DEF ExchangesOK
<1>1. /\ ~overlapped /\ \A j \in Callers : pc[j] # "recv"
      /\ \A j \in Callers : j # i => pc'[j] # "recv"
      /\ pc'[i] = "recv" /\ asked'[i] = q.n /\ got'[i] = Absent
      /\ \A j \in Callers : j # i => asked'[j] = asked[j] /\ got'[j] = got[j]
  BY DEF BeginExchange, ClientTypeOK
<1>2. ArrivesAt(Client, q) /\ ticket' = ticket
  BY DEF BeginExchange, serverRest, ArrivesAt
<1>3. Open /\ UnderWayOK /\ GotOK
  BY <1>1, <1>2 DEF ExchangesOK, ArrivesAt, Arrive, Open
<1>4. OneWaits'
  BY <1>1 DEF OneWaits
<1>5. GotOK'
  <2>1. \A j \in Callers : HasReply(j)' => j # i /\ HasReply(j)
    BY <1>1 DEF HasReply, BeginExchange, ClientTypeOK
  <2> QED
    BY <1>1, <1>2, <1>3, <2>1 DEF GotOK, Answers
<1>6. Requested(q)'
  BY <1>1 DEF Requested, Asks, Waits
<1>7. /\ \A x \in DOMAIN Inbox : Inbox[x].kind = "keys"
      /\ ~Replying /\ DOMAIN Outbox = {}
  BY <1>1, <1>3, NothingUnderWay
<1>8. UnderWayOK'
  BY <1>2, <1>6, <1>7, InboxAppend, UnderWayNext DEF IndInv
<1> QED
  BY <1>4, <1>5, <1>8

\* Keys go along with what is under way.
LEMMA ExchangesKeys ==
  ASSUME IndInv, ClientTypeOK, ExchangesOK,
         NEW q \in RequestType, q.kind = "keys", ArrivesAt(Client, q),
         UNCHANGED <<pc, arg, asked, got, overlapped, called>>
  PROVE  ExchangesOK'
<1> SUFFICES ASSUME ~overlapped
             PROVE  OneWaits' /\ GotOK' /\ UnderWayOK'
  BY DEF ExchangesOK
<1>1. OneWaits /\ GotOK /\ UnderWayOK
  BY DEF ExchangesOK, ArrivesAt, Arrive, Open
<1>2. ticket' = ticket
  BY DEF ArrivesAt
<1>3. OneWaits' /\ GotOK'
  BY <1>1, <1>2 DEF OneWaits, GotOK, Answers, HasReply
<1>4. \A r : (Requested(r)' <=> Requested(r)) /\ (Expected(r)' <=> Expected(r))
  BY <1>2 DEF Requested, Asks, Expected, Waits, Answers
<1>5. /\ Outbox' = Outbox /\ (Replying' <=> Replying) /\ handler' = handler
      /\ \A x \in DOMAIN Inbox' :
            Inbox'[x] = q \/ (x \in DOMAIN Inbox /\ Inbox'[x] = Inbox[x])
  BY InboxAppend DEF IndInv
<1>6. \A x \in DOMAIN Inbox' :
         \E r : r = Inbox'[x] /\ (r.kind # "keys" => Requested(r)')
  BY <1>1, <1>4, <1>5 DEF UnderWayOK
<1>7. Replying' => \E r : r = handler'[Client].request /\ Requested(r)'
  BY <1>1, <1>4, <1>5 DEF UnderWayOK
<1>8. \A x \in DOMAIN Outbox' : \E r : r = Outbox'[x] /\ Expected(r)'
  BY <1>1, <1>4, <1>5 DEF UnderWayOK
<1> QED
  BY <1>3, <1>6, <1>7, <1>8, UnderWayNext

\* The reply an exchange ends with is the one to its request, and it was the
\* last thing under way besides keys.
LEMMA ExchangesEnd ==
  ASSUME IndInv, ClientTypeOK, RepliesOK, ExchangesOK, NEW i \in Callers,
         NEW next, next # "recv", EndExchange(i, next),
         UNCHANGED <<serverRest, sent, asked, overlapped, called>>,
         \A j \in Callbacks : arg'[j] = arg[j]
  PROVE  ExchangesOK'
<1> SUFFICES ASSUME ~overlapped
             PROVE  OneWaits' /\ GotOK' /\ UnderWayOK'
  BY DEF ExchangesOK
<1> DEFINE h == Outbox[1]
<1>1. handler' = handler /\ ticket' = ticket
  BY DEF serverRest
<1>2. /\ Open /\ Inbox' = Inbox /\ 1 \in DOMAIN Outbox /\ h \in ReplyType
      /\ got' = [got EXCEPT ![i] = h]
      /\ DOMAIN Outbox' = 1 .. Len(Outbox) - 1
      /\ \A x \in 1 .. Len(Outbox) - 1 :
            Outbox'[x] = Outbox[x + 1] /\ x + 1 \in DOMAIN Outbox
  BY <1>1, EndFacts
<1>3. OneWaits /\ GotOK /\ UnderWayOK
  BY <1>2 DEF ExchangesOK
<1>4. /\ pc[i] = "recv" /\ pc'[i] # "recv"
      /\ \A j \in Callers : j # i => pc'[j] = pc[j]
  BY DEF EndExchange, ClientTypeOK
<1>5. \A j \in Callers : \A n : Waits(j, n) => j = i /\ n = asked[i]
  BY <1>3, <1>4 DEF OneWaits, Waits
<1>6. h.n = asked[i] /\ Answers(i, h)
  BY <1>2, <1>3, <1>5 DEF UnderWayOK, Expected
<1>7. OneWaits'
  BY <1>3, <1>4 DEF OneWaits
<1>8. GotOK'
  <2>1. \A j \in Callers : got'[j] = IF j = i THEN h ELSE got[j]
    BY <1>2 DEF ClientTypeOK
  <2> HIDE DEF h
  <2>2. \A j \in Callers : HasReply(j)' => j = i \/ HasReply(j)
    BY <1>4, <2>1 DEF HasReply
  <2>3. \A j \in Callers : HasReply(j)' => got'[j].n = asked[j]
    BY <1>3, <1>6, <2>1, <2>2 DEF GotOK
  <2>4. ASSUME NEW j \in Callers, HasReply(j)', j \in Callbacks,
               got'[j].kind = "result"
        PROVE  ticket[got'[j].query.n] = arg[j]
    BY <1>3, <1>6, <2>1, <2>2, <2>4 DEF GotOK, Answers
  <2> QED
    BY <1>1, <1>3, <2>3, <2>4 DEF GotOK, Answers
<1>9. \A r : Requested(r) => r.n = h.n
  BY <1>5, <1>6 DEF Requested, Asks
<1>10. \A r : Expected(r) => r.n = h.n
  BY <1>5, <1>6 DEF Expected
<1>11. /\ \A x \in DOMAIN Outbox' : h.n < Outbox'[x].n
       /\ \A m \in Pending(Client) : h.n < m
       /\ h.n \in Nat
  BY <1>2, EndReplies, UnderWayTypes DEF IndInv, Numbers
<1>12. \A m : h.n < m => m # h.n
  BY <1>11
<1>13. \A x \in DOMAIN Inbox : Inbox[x].kind = "keys"
  <2> SUFFICES ASSUME NEW x \in DOMAIN Inbox, Inbox[x].kind # "keys" PROVE FALSE
    OBVIOUS
  <2>1. Inbox[x].n \in Pending(Client)
    BY DEF Pending, Awaiting, Inbox
  <2>2. Inbox[x].n = h.n
    BY <1>3, <1>9 DEF UnderWayOK
  <2> QED
    BY <1>11, <1>12, <2>1, <2>2
<1>14. ~Replying
  <2> SUFFICES ASSUME Replying PROVE FALSE
    OBVIOUS
  <2>1. handler[Client].request.n \in Pending(Client)
    BY DEF Replying, Pending, InHand
  <2>2. handler[Client].request.n = h.n
    BY <1>3, <1>9 DEF UnderWayOK
  <2> QED
    BY <1>11, <1>12, <2>1, <2>2
<1>15. DOMAIN Outbox' = {}
  <2> SUFFICES ASSUME NEW x \in DOMAIN Outbox' PROVE FALSE
    OBVIOUS
  <2>1. Outbox'[x] = Outbox[x + 1] /\ x + 1 \in DOMAIN Outbox
    BY <1>2
  <2>2. Outbox'[x].n = h.n
    BY <1>3, <1>10, <2>1 DEF UnderWayOK
  <2> QED
    BY <1>11, <1>12, <2>2
<1>16. ~Replying'
  BY <1>1, <1>14 DEF Replying, At
<1>17. UnderWayOK'
  BY <1>2, <1>13, <1>15, <1>16, UnderWayNext
<1> QED
  BY <1>7, <1>8, <1>17

\* A step outside an exchange, or one that ends it on a closed connection.
LEMMA ExchangesElse ==
  ASSUME ClientTypeOK, ExchangesOK, UNCHANGED <<asked, got, overlapped, ticket>>,
         \A i \in Callers : pc'[i] \in {"recv", "call"} => pc'[i] = pc[i],
         Open' => /\ Open /\ UNCHANGED <<conn, handler>>
                  /\ \A i \in Callers : pc[i] = "recv" => pc'[i] = "recv",
         \A i \in Callbacks : HasReply(i) \/ pc[i] = "recv" => arg'[i] = arg[i],
         ~overlapped /\ GotOK => \A c \in called' : ticket[c.query.n] = c.id
  PROVE  ExchangesOK'
<1> SUFFICES ASSUME ~overlapped
             PROVE  OneWaits' /\ GotOK' /\ (Open' => UnderWayOK')
  BY DEF ExchangesOK
<1>1. OneWaits /\ GotOK /\ (Open => UnderWayOK)
  BY DEF ExchangesOK
<1>2. OneWaits'
  BY <1>1 DEF OneWaits
<1>3. GotOK'
  <2>1. \A i \in Callers : HasReply(i)' => HasReply(i)
    BY DEF HasReply
  <2> QED
    BY <1>1, <2>1 DEF GotOK, Answers
<1>4. ASSUME Open' PROVE UnderWayOK'
  <2>1. Open /\ UNCHANGED <<conn, handler>>
    BY <1>4
  <2>2. \A r : Requested(r) => Requested(r)'
    BY <1>4 DEF Requested, Asks, Waits
  <2>3. \A r : Expected(r) => Expected(r)'
    BY <1>4 DEF Expected, Waits, Answers
  <2>4. UnderWayOK /\ (Replying' <=> Replying) /\ Inbox' = Inbox /\ Outbox' = Outbox
    BY <1>1, <2>1 DEF Replying, At, Inbox, Outbox
  <2>5. \A x \in DOMAIN Inbox' :
           \E r : r = Inbox'[x] /\ (r.kind # "keys" => Requested(r)')
    BY <2>2, <2>4 DEF UnderWayOK
  <2>6. Replying' => \E r : r = handler'[Client].request /\ Requested(r)'
    BY <2>1, <2>2, <2>4 DEF UnderWayOK
  <2>7. \A x \in DOMAIN Outbox' : \E r : r = Outbox'[x] /\ Expected(r)'
    BY <2>3, <2>4 DEF UnderWayOK
  <2> QED
    BY <2>5, <2>6, <2>7, UnderWayNext
<1> QED
  BY <1>2, <1>3, <1>4

-----------------------------------------------------------------------------
(* The client's own state                                                  *)

\* The callers are the application's thread and those of the callbacks.
LEMMA CallersAre ==
  /\ 0 \in Callers /\ 0 \notin Callbacks /\ Callbacks \subseteq Callers
  /\ \A i \in Callers : i = 0 \/ i \in Callbacks
  /\ Absent \notin Callers
  BY ClientAssumption DEF Callers, Callbacks

\* The callbacks started are as many as the number of the last one.
LEMMA SendsIs ==
  ASSUME NEW k \in 0 .. MaxQueries, StartedUpTo(k)
  PROVE  Sends = k
<1>1. {i \in Callbacks : Started(i)} = 1 .. k
  BY ClientAssumption DEF StartedUpTo, Callbacks
<1>2. Cardinality(1 .. k) = k
  BY ClientAssumption, FS_Interval
<1> QED
  BY <1>1, <1>2 DEF Sends

\* A step that starts no callback and sends no query starts none out of turn.
LEMMA OneByOneStays ==
  ASSUME OneByOne, \A i \in Callbacks : Started(i)' <=> Started(i),
         \/ pc'[0] \notin {"recv", "set_callback"}
         \/ pc[0] \in {"recv", "set_callback"}
         \/ Sends < MaxQueries
  PROVE  OneByOne'
<1>1. PICK k \in 0 .. MaxQueries :
         /\ StartedUpTo(k)
         /\ pc[0] \in {"recv", "set_callback"} => k < MaxQueries
  BY DEF OneByOne
<1>2. Sends = k
  BY <1>1, SendsIs
<1>3. StartedUpTo(k)'
  BY <1>1 DEF StartedUpTo
<1> QED
  BY <1>1, <1>2, <1>3 DEF OneByOne

\* An exchange begins: for a query there is room, for a result there is a
\* thread with its id.
LEMMA BeginLocals ==
  ASSUME TypeOK, ClientLocals, NEW i \in Callers, NEW q, q.n = sent + 1,
         i = 0 => pc[0] = "ready" /\ Sends < MaxQueries,
         i # 0 => pc[i] = "start",
         BeginExchange(i, q), UNCHANGED <<exclusive, arg, cbmap, registered, called>>
  PROVE  ClientLocals'
<1> USE CallersAre DEF ClientLocals
<1>1. /\ pc' = [pc EXCEPT ![i] = "recv"] /\ got' = [got EXCEPT ![i] = Absent]
      /\ asked' = [asked EXCEPT ![i] = sent + 1] /\ sent < MaxRequests
      /\ holder' = IF exclusive THEN i ELSE Absent
      /\ overlapped' = (overlapped \/ \E j \in Callers \ {i} : pc[j] = "recv")
      /\ exclusive => holder = Absent
  BY DEF BeginExchange, Arrive
<1>2. sent + 1 \in 0 .. MaxRequests
  BY <1>1, ParametersAssumption DEF TypeOK
<1>3. ClientTypeOK'
  <2>1. overlapped' \in BOOLEAN
    BY <1>1 DEF ClientTypeOK
  <2>2. pc' \in [Callers -> Places] /\ holder' \in Callers \cup {Absent}
    BY <1>1 DEF ClientTypeOK, Places
  <2>3. asked' \in [Callers -> 0 .. MaxRequests]
        /\ got' \in [Callers -> ReplyType \cup {Absent}]
    BY <1>1, <1>2 DEF ClientTypeOK
  <2> QED
    BY <2>1, <2>2, <2>3 DEF ClientTypeOK
<1>4. \A j \in Callers : pc'[j] = IF j = i THEN "recv" ELSE pc[j]
  BY <1>1 DEF ClientTypeOK
<1>5. \A j \in Callbacks : Started(j)' <=> Started(j)
  BY <1>4 DEF Started
<1>6. OneByOne'
  BY <1>4, <1>5, OneByOneStays
<1>7. ThreadsOK'
  BY <1>1, <1>4, <1>5 DEF ThreadsOK, ClientTypeOK
<1>8. HolderOK'
  <2> SUFFICES ASSUME exclusive
               PROVE  ~overlapped' /\ \A j \in Callers : pc'[j] = "recv" => holder' = j
    BY DEF HolderOK
  <2>1. \A j \in Callers : pc[j] # "recv"
    BY <1>1 DEF HolderOK
  <2> QED
    BY <1>1, <1>4, <2>1 DEF HolderOK
<1> QED
  BY <1>3, <1>6, <1>7, <1>8

\* Nobody holds the connection but the caller that waits.
LEMMA HolderLeaves ==
  ASSUME ClientTypeOK, HolderOK, UNCHANGED <<exclusive, overlapped>>,
         NEW i \in Callers, NEW next, next # "recv", pc[i] = "recv",
         pc' = [pc EXCEPT ![i] = next], holder' = Absent
  PROVE  HolderOK'
<1>1. \A j \in Callers : pc'[j] = IF j = i THEN next ELSE pc[j]
  BY DEF ClientTypeOK
<1> QED
  BY <1>1 DEF HolderOK

\* An exchange ends with a reply, or on a closed connection.
LEMMA EndLocals ==
  ASSUME TypeOK, ClientLocals, NEW i \in Callers, NEW next, pc[i] = "recv",
         i = 0 => next \in {"set_callback", "ready"},
         i # 0 => next \in {"call", "failed"},
         pc' = [pc EXCEPT ![i] = next], holder' = Absent,
         \/ next # "call" /\ got' = got
         \/ \E r \in ReplyType : got' = [got EXCEPT ![i] = r],
         \/ arg' = arg
         \/ \E id \in QueryIds : i = 0 /\ arg' = [arg EXCEPT ![0] = id],
         next = "set_callback" => arg'[0] \in QueryIds,
         UNCHANGED <<exclusive, asked, cbmap, registered, overlapped, called>>
  PROVE  ClientLocals'
<1> USE CallersAre DEF ClientLocals
<1>1. \A j \in Callers : pc'[j] = IF j = i THEN next ELSE pc[j]
  BY DEF ClientTypeOK
<1>2. /\ \A j \in Callbacks : arg'[j] = arg[j]
      /\ arg' \in [Callers -> QueryIds \cup {NoId}]
  BY DEF ClientTypeOK
<1>3. /\ \A j \in Callers : j # i => got'[j] = got[j]
      /\ got' \in [Callers -> ReplyType \cup {Absent}]
  BY DEF ClientTypeOK
<1>4. ClientTypeOK'
  <2>1. pc' \in [Callers -> Places] /\ holder' \in Callers \cup {Absent}
    BY DEF ClientTypeOK, Places
  <2> QED
    BY <1>2, <1>3, <2>1 DEF ClientTypeOK
<1>5. \A j \in Callbacks : Started(j)' <=> Started(j)
  BY <1>1 DEF Started
<1>6. OneByOne'
  BY <1>1, <1>5, OneByOneStays
<1>7. ThreadsOK'
  <2>1. \A j \in Callbacks : Started(j)' => arg'[j] \in QueryIds
    BY <1>2, <1>5 DEF ThreadsOK
  <2>2. \A j \in Callbacks : pc'[j] \in {"none", "start"} => got'[j] = Absent
    BY <1>1, <1>3 DEF ThreadsOK
  <2>3. pc'[0] \in {"set_callback", "wait"} => arg'[0] \in QueryIds
    BY <1>1 DEF ThreadsOK
  <2>4. \A j \in Callbacks :
           pc'[j] \in {"none", "start", "recv", "call", "done", "failed"}
    BY <1>1 DEF ThreadsOK
  <2>5. next = "call" => got'[i] \in ReplyType
    BY DEF ClientTypeOK
  <2>6. \A j \in Callbacks : pc'[j] = "call" => got'[j] \in ReplyType
    BY <1>1, <1>3, <2>5 DEF ThreadsOK
  <2> QED
    BY <2>1, <2>2, <2>3, <2>4, <2>6 DEF ThreadsOK
<1>8. HolderOK'
  BY HolderLeaves
<1> QED
  BY <1>4, <1>6, <1>7, <1>8

\* A caller goes on outside an exchange.
LEMMA ElseLocals ==
  ASSUME ClientLocals, NEW i \in Callers, NEW next, next \in Places,
         pc[i] \notin {"none", "recv"}, next \notin {"none", "recv", "start"},
         pc' = [pc EXCEPT ![i] = next],
         i = 0 => pc'[0] \notin {"recv", "set_callback"},
         i # 0 => next \in {"done", "failed"},
         \/ arg' = arg
         \/ \E id \in QueryIds : i = 0 /\ arg' = [arg EXCEPT ![0] = id],
         next = "wait" => arg'[0] \in QueryIds,
         called' \subseteq [thread : Callbacks, id : QueryIds, query : QueryType],
         UNCHANGED <<exclusive, holder, asked, got, cbmap, registered, overlapped>>
  PROVE  ClientLocals'
<1> USE CallersAre DEF ClientLocals
<1>1. \A j \in Callers : pc'[j] = IF j = i THEN next ELSE pc[j]
  BY DEF ClientTypeOK
<1>2. /\ \A j \in Callbacks : arg'[j] = arg[j]
      /\ arg' \in [Callers -> QueryIds \cup {NoId}]
  BY DEF ClientTypeOK
<1>3. ClientTypeOK'
  BY <1>2 DEF ClientTypeOK
<1>4. \A j \in Callbacks : Started(j)' <=> Started(j)
  BY <1>1 DEF Started
<1>5. OneByOne'
  BY <1>1, <1>4, OneByOneStays
<1>6. ThreadsOK'
  <2>1. \A j \in Callbacks : Started(j)' => arg'[j] \in QueryIds
    BY <1>2, <1>4 DEF ThreadsOK
  <2>2. \A j \in Callbacks : pc'[j] \in {"none", "start"} => got'[j] = Absent
    BY <1>1 DEF ThreadsOK
  <2>3. pc'[0] \in {"set_callback", "wait"} => arg'[0] \in QueryIds
    BY <1>1 DEF ThreadsOK
  <2>4. \A j \in Callbacks :
           pc'[j] \in {"none", "start", "recv", "call", "done", "failed"}
    BY <1>1 DEF ThreadsOK
  <2>5. \A j \in Callbacks : pc'[j] = "call" => got'[j] \in ReplyType
    BY <1>1 DEF ThreadsOK
  <2> QED
    BY <2>1, <2>2, <2>3, <2>4, <2>5 DEF ThreadsOK
<1>7. HolderOK'
  BY <1>1 DEF HolderOK
<1> QED
  BY <1>3, <1>5, <1>6, <1>7

\* A callback gets the next thread.
LEMMA SetCallbackLocals ==
  ASSUME ClientLocals, SetCallback
  PROVE  /\ ClientLocals'
         /\ \E i \in Callbacks :
               /\ pc[i] = "none"
               /\ pc' = [pc EXCEPT ![0] = "ready", ![i] = "start"]
               /\ arg' = [arg EXCEPT ![i] = arg[0]]
<1> USE CallersAre DEF ClientLocals
<1>1. PICK k \in 0 .. MaxQueries : StartedUpTo(k) /\ k < MaxQueries
  BY DEF OneByOne, SetCallback
<1>2. Sends = k
  BY <1>1, SendsIs
<1>3. PICK i \in Callbacks : i = k + 1
  BY <1>1, ClientAssumption DEF Callbacks
<1>4. /\ pc[0] = "set_callback" /\ arg[0] \in QueryIds
      /\ cbmap' = [cbmap EXCEPT ![arg[0]] = i]
      /\ pc' = [pc EXCEPT ![0] = "ready", ![i] = "start"]
      /\ arg' = [arg EXCEPT ![i] = arg[0]]
      /\ UNCHANGED <<exclusive, holder, asked, got, registered, overlapped, called>>
  BY <1>2, <1>3 DEF SetCallback, ThreadsOK
<1>5. ~Started(i)
  BY <1>1, <1>3 DEF StartedUpTo
<1>6. \A j \in Callers : /\ pc'[j] = IF j = i THEN "start" ELSE
                                    IF j = 0 THEN "ready" ELSE pc[j]
                         /\ arg'[j] = IF j = i THEN arg[0] ELSE arg[j]
  BY <1>4 DEF ClientTypeOK
<1>7. ClientTypeOK'
  <2>1. pc' \in [Callers -> Places]
    BY <1>4 DEF ClientTypeOK, Places
  <2>2. arg' \in [Callers -> QueryIds \cup {NoId}] /\ cbmap' \in [QueryIds -> Callers]
    BY <1>4 DEF ClientTypeOK
  <2> QED
    BY <1>4, <2>1, <2>2 DEF ClientTypeOK
<1>8. OneByOne'
  <2>1. \A j \in Callbacks : j <= k + 1 <=> j <= k \/ j = i
    BY <1>3 DEF Callbacks
  <2>2. \A j \in Callbacks : Started(j)' <=> Started(j) \/ j = i
    BY <1>6 DEF Started
  <2>3. StartedUpTo(k + 1)'
    BY <1>1, <2>1, <2>2 DEF StartedUpTo
  <2>4. k + 1 \in 0 .. MaxQueries
    BY <1>1, ClientAssumption
  <2>5. pc'[0] \notin {"recv", "set_callback"}
    BY <1>6
  <2> QED
    BY <2>3, <2>4, <2>5 DEF OneByOne
<1>9. ThreadsOK'
  <2>1. pc[i] = "none" /\ got[i] = Absent
    BY <1>5 DEF Started, ThreadsOK
  <2>2. \A j \in Callbacks : Started(j)' => arg'[j] \in QueryIds
    BY <1>4, <1>6 DEF ThreadsOK, Started
  <2>3. \A j \in Callbacks : pc'[j] \in {"none", "start"} => got'[j] = Absent
    BY <1>4, <1>6, <2>1 DEF ThreadsOK
  <2>4. \A j \in Callbacks : pc'[j] = "call" => got'[j] \in ReplyType
    BY <1>4, <1>6 DEF ThreadsOK
  <2>5. pc'[0] \notin {"set_callback", "wait"}
    BY <1>6
  <2>6. \A j \in Callbacks :
           pc'[j] \in {"none", "start", "recv", "call", "done", "failed"}
    BY <1>6 DEF ThreadsOK
  <2> QED
    BY <2>2, <2>3, <2>4, <2>5, <2>6 DEF ThreadsOK
<1>10. HolderOK'
  <2>1. \A j \in Callers : pc'[j] = "recv" => pc[j] = "recv"
    BY <1>6
  <2> QED
    BY <1>4, <2>1 DEF HolderOK
<1> QED
  BY <1>4, <1>5, <1>7, <1>8, <1>9, <1>10 DEF Started

-----------------------------------------------------------------------------
(* Every step                                                              *)

\* What the server does.
LEMMA ServerKeeps ==
  ASSUME ClientInv, ServerStep \/ Connect(Client) \/ Break(Client),
         UNCHANGED clientVars
  PROVE  ClientInv'
<1> USE DEF ClientInv, ClientLocals
<1>1. IndInv'
  <2>1. Next
    BY ClientIsOne DEF ServerStep, Next, ClientStep
  <2> QED
    BY <2>1, IndInvStep
<1>2. TicketsKeep /\ SendingOK' /\ ServerMoves /\ sent' = sent
  BY ServerMovesStep
<1>3. RepliesOK'
  BY <1>1, <1>2, RepliesServer
<1>4. ExchangesOK'
  BY <1>1, <1>2, ExchangesServer
<1>5. ClientTypeOK' /\ HolderOK'
  BY DEF clientVars, ClientTypeOK, HolderOK
<1>6. OneByOne' /\ ThreadsOK'
  BY DEF clientVars, OneByOne, StartedUpTo, ThreadsOK, Started
<1> QED
  BY <1>1, <1>2, <1>3, <1>4, <1>5, <1>6

\* The three requests of a client.
SentBy(q) ==
    \/ \E k \in KeyIds, keys \in KeySets : q = Request("keys", k, keys)
    \/ \E k \in KeyIds : q = Request("query", k, Absent)
    \/ \E id \in QueryIds : q = Request("result", id, Absent)

\* A request that arrives keeps what is said of the server.
LEMMA ArrivalKeeps ==
  ASSUME ClientInv, NEW q, SentBy(q), Arrive(Client, q), UNCHANGED serverRest
  PROVE  /\ IndInv' /\ RepliesOK' /\ SendingOK'
         /\ q \in RequestType /\ q.n = sent + 1 /\ ArrivesAt(Client, q)
<1> USE DEF ClientInv
<1>1. ArrivesAt(Client, q)
  BY DEF ArrivesAt, serverRest
<1>2. ClientStep(Client)
  BY DEF SentBy, ClientStep, serverRest, QueryIds
<1>3. IndInv'
  BY <1>2, ClientIsOne, IndInvStep DEF Next
<1>4. q.n = sent + 1
  BY DEF SentBy, Request
<1>5. sent + 1 \in Numbers
  BY ParametersAssumption DEF Arrive, IndInv, TypeOK, Numbers
<1>6. q \in RequestType
  BY <1>5 DEF SentBy, Request, RequestType, KeysRequest, QueryRequest,
              ResultRequest, QueryIds
<1>7. RepliesOK'
  BY <1>1, <1>4, <1>6, RepliesArrive
<1>8. SendingOK'
  BY DEF SendingOK, At, serverRest
<1> QED
  BY <1>1, <1>3, <1>4, <1>6, <1>7, <1>8

\* register_enckeys.
LEMMA RegisterEncKeysKeeps ==
  ASSUME ClientInv, NEW k \in KeyIds, NEW keys \in KeySets, RegisterEncKeys(k, keys)
  PROVE  ClientInv'
<1> DEFINE q == Request("keys", k, keys)
<1>1. /\ Arrive(Client, q) /\ registered' = TRUE
      /\ UNCHANGED <<serverRest, exclusive, holder, pc, arg, asked, got, cbmap,
                     overlapped, called>>
  BY DEF RegisterEncKeys
<1>2. SentBy(q) /\ q.kind = "keys"
  BY DEF SentBy, Request
<1> HIDE DEF q
<1>3. /\ IndInv' /\ RepliesOK' /\ SendingOK'
      /\ q \in RequestType /\ ArrivesAt(Client, q)
  BY <1>1, <1>2, ArrivalKeeps
<1>4. ExchangesOK'
  BY <1>1, <1>2, <1>3, ExchangesKeys DEF ClientInv, ClientLocals
<1>5. ClientTypeOK' /\ HolderOK'
  BY <1>1 DEF ClientInv, ClientLocals, ClientTypeOK, HolderOK
<1>6. OneByOne' /\ ThreadsOK'
  BY <1>1 DEF ClientInv, ClientLocals, OneByOne, StartedUpTo, ThreadsOK, Started
<1> QED
  BY <1>3, <1>4, <1>5, <1>6 DEF ClientInv, ClientLocals

\* The beginning of an exchange.
LEMMA BeginKeeps ==
  ASSUME ClientInv, NEW i \in Callers, NEW q, SentBy(q),
         i = 0 => pc[0] = "ready" /\ Sends < MaxQueries,
         i # 0 => pc[i] = "start" /\ q.id = arg[i],
         BeginExchange(i, q),
         UNCHANGED <<serverRest, exclusive, arg, cbmap, registered, called>>
  PROVE  ClientInv'
<1>1. /\ IndInv' /\ RepliesOK' /\ SendingOK'
      /\ q \in RequestType /\ q.n = sent + 1
  BY ArrivalKeeps DEF BeginExchange
<1>2. pc[i] # "recv" /\ (i \in Callbacks => q.id = arg[i])
  BY CallersAre
<1>3. ExchangesOK'
  BY <1>1, <1>2, ExchangesBegin DEF ClientInv, ClientLocals
<1>4. ClientLocals'
  BY <1>1, BeginLocals DEF ClientInv, IndInv
<1> QED
  BY <1>1, <1>3, <1>4 DEF ClientInv

\* The end of one.
LEMMA EndKeeps ==
  ASSUME ClientInv, NEW i \in Callers, NEW next, EndExchange(i, next),
         i = 0 => next = "set_callback",
         i # 0 => next = "call",
         \/ i # 0 /\ arg' = arg
         \/ \E id \in QueryIds : i = 0 /\ arg' = [arg EXCEPT ![0] = id],
         UNCHANGED <<serverRest, sent, firstKeys, exclusive, asked, cbmap,
                     registered, overlapped, called>>
  PROVE  ClientInv'
<1> USE CallersAre DEF ClientInv, ClientLocals
<1>1. handler' = handler /\ ticket' = ticket
  BY DEF serverRest
<1>2. /\ conn' \in ConnType /\ ConnOK' /\ Outbox[1] \in ReplyType
      /\ \A c \in Connections : conn'[c].inbox = conn[c].inbox
                                /\ conn'[c].state = conn[c].state
      /\ got' = [got EXCEPT ![i] = Outbox[1]]
  BY <1>1, EndFacts
<1>3. IndInv'
  BY <1>2, ConnAlone
<1>4. RepliesOK'
  BY EndReplies
<1>5. SendingOK'
  BY <1>1 DEF SendingOK, At
<1>6. \A j \in Callbacks : arg'[j] = arg[j]
  BY DEF ClientTypeOK
<1>7. ExchangesOK'
  BY <1>6, ExchangesEnd
<1>8. ClientLocals'
  <2>1. pc[i] = "recv" /\ pc' = [pc EXCEPT ![i] = next] /\ holder' = Absent
    BY DEF EndExchange
  <2>2. next = "set_callback" => arg'[0] \in QueryIds
    BY DEF ClientTypeOK
  <2>3. ClientLocals /\ TypeOK
    BY DEF IndInv
  <2> HIDE DEF ClientInv, ClientLocals
  <2> QED
    BY <1>2, <2>1, <2>2, <2>3, EndLocals
<1> QED
  BY <1>3, <1>4, <1>5, <1>7, <1>8

\* A step that leaves the server and the connection alone.
LEMMA ElseKeeps ==
  ASSUME ClientInv, UNCHANGED serverVars, ClientLocals', ExchangesOK'
  PROVE  ClientInv'
<1>1. IndInv'
  BY IndInvStep DEF ClientInv
<1>2. RepliesOK' /\ SendingOK'
  BY DEF ClientInv, serverVars, historyVars, RepliesOK, SendingOK, Outbox,
         Pending, Awaiting, InHand, At
<1> QED
  BY <1>1, <1>2 DEF ClientInv

\* A call that throws because the connection is closed.
LEMMA FailKeeps ==
  ASSUME ClientInv, NEW i \in Callers, NEW next, ExchangeFails(i, next),
         i = 0 => next = "ready",
         i # 0 => next = "failed",
         UNCHANGED <<serverVars, exclusive, arg, asked, got, cbmap, registered,
                     overlapped, called>>
  PROVE  ClientInv'
<1>1. /\ pc[i] = "recv" /\ pc' = [pc EXCEPT ![i] = next] /\ holder' = Absent
      /\ ~Open
  BY DEF ExchangeFails
<1>2. ClientLocals'
  BY <1>1, EndLocals DEF ClientInv, IndInv
<1>3. ExchangesOK'
  <2>1. ~Open' /\ ticket' = ticket
    BY <1>1 DEF Open, serverVars, historyVars
  <2>2. \A j \in Callers : pc'[j] \in {"recv", "call"} => pc'[j] = pc[j]
    BY <1>1 DEF ClientInv, ClientLocals, ClientTypeOK
  <2> QED
    BY <2>1, <2>2, ExchangesElse DEF ClientInv, ClientLocals, GotOK
<1> QED
  BY <1>2, <1>3, ElseKeeps

\* A caller goes on outside an exchange.
LEMMA GoesOn ==
  ASSUME ClientInv, NEW i \in Callers, NEW next,
         pc[i] \notin {"none", "recv"}, pc' = [pc EXCEPT ![i] = next],
         i = 0 => next \in {"ready", "wait", "destroy", "gone"},
         i # 0 => next \in {"done", "failed"},
         \/ arg' = arg
         \/ \E id \in QueryIds : i = 0 /\ arg' = [arg EXCEPT ![0] = id],
         next = "wait" => arg' # arg \/ arg[0] \in QueryIds,
         called' \subseteq [thread : Callbacks, id : QueryIds, query : QueryType],
         ~overlapped /\ GotOK => \A c \in called' : ticket[c.query.n] = c.id,
         UNCHANGED <<exclusive, holder, asked, got, cbmap, registered, overlapped>>,
         ticket' = ticket, ~Open' \/ UNCHANGED <<conn, handler>>
  PROVE  ClientLocals' /\ ExchangesOK'
<1> USE CallersAre DEF ClientInv, ClientLocals
<1>1. \A j \in Callers : pc'[j] = IF j = i THEN next ELSE pc[j]
  BY DEF ClientTypeOK
<1>2. next \notin {"recv", "call", "none", "start"} /\ next \in Places
  BY DEF Places
<1>3. i = 0 => pc'[0] \notin {"recv", "set_callback"}
  BY <1>1
<1>4. next = "wait" => arg'[0] \in QueryIds
  BY DEF ClientTypeOK
<1>5. ClientLocals'
  <2>1. ClientLocals
    OBVIOUS
  <2> HIDE DEF ClientInv, ClientLocals
  <2> QED
    BY <1>2, <1>3, <1>4, <2>1, ElseLocals
<1>6. \A j \in Callers : /\ pc'[j] \in {"recv", "call"} => pc'[j] = pc[j]
                         /\ pc[j] = "recv" => pc'[j] = "recv"
  BY <1>1, <1>2
<1>7. \A j \in Callbacks : arg'[j] = arg[j]
  BY DEF ClientTypeOK
<1>8. Open' => Open /\ UNCHANGED <<conn, handler>>
  BY DEF Open
<1>9. ExchangesOK'
  BY <1>6, <1>7, <1>8, ExchangesElse
<1> QED
  BY <1>5, <1>9

\* ResultThread::exec ends.
LEMMA InvokeEnds ==
  ASSUME ClientInv, NEW i \in Callbacks, pc[i] \notin {"none", "recv"},
         \E next \in {"done", "failed"} : pc' = [pc EXCEPT ![i] = next],
         called' \subseteq [thread : Callbacks, id : QueryIds, query : QueryType],
         GotOK => \A c \in called' : ticket[c.query.n] = c.id,
         UNCHANGED <<serverVars, exclusive, holder, arg, asked, got, cbmap,
                     registered, overlapped>>
  PROVE  ClientInv'
<1>1. PICK next \in {"done", "failed"} : pc' = [pc EXCEPT ![i] = next]
  OBVIOUS
<1>2. i \in Callers /\ i # 0 /\ next # "wait"
  BY <1>1, CallersAre
<1>3. UNCHANGED <<conn, handler, ticket>>
  BY DEF serverVars, historyVars
<1>4. ClientLocals' /\ ExchangesOK'
  BY <1>1, <1>2, <1>3, GoesOn
<1> QED
  BY <1>4, ElseKeeps

\* It calls back with what was read.
LEMMA InvokeKeeps ==
  ASSUME ClientInv, NEW i \in Callbacks, InvokeCallback(i)
  PROVE  ClientInv'
<1> USE CallersAre DEF ClientInv, ClientLocals
<1>1. /\ pc[i] = "call" /\ i # 0 /\ i \in Callers
      /\ UNCHANGED <<serverVars, exclusive, holder, arg, asked, got, cbmap,
                     registered, overlapped>>
  BY DEF InvokeCallback
<1>2. arg[i] \in QueryIds
  BY <1>1 DEF ThreadsOK, Started
<1>3. \E next \in {"done", "failed"} : pc' = [pc EXCEPT ![i] = next]
  BY DEF InvokeCallback
<1>4. CASE got[i].kind = "result"
  <2> DEFINE c == [thread |-> i, id |-> arg[i], query |-> got[i].query]
  <2>1. called' = called \cup {c}
    BY <1>4 DEF InvokeCallback
  <2>2. got[i] \in ReplyType /\ HasReply(i)
    BY <1>1 DEF ThreadsOK, HasReply
  <2>3. got[i].query \in QueryType
    BY <1>4, <2>2 DEF ReplyType
  <2>4. c \in [thread : Callbacks, id : QueryIds, query : QueryType]
    BY <1>2, <2>3
  <2>5. GotOK => ticket[c.query.n] = c.id
    BY <1>1, <1>4, <2>2 DEF GotOK, Answers
  <2> HIDE DEF c
  <2>6. /\ called' \subseteq [thread : Callbacks, id : QueryIds, query : QueryType]
        /\ GotOK => \A d \in called' : ticket[d.query.n] = d.id
    BY <2>1, <2>4, <2>5 DEF ClientTypeOK, GotOK
  <2> QED
    BY <1>1, <1>3, <2>6, InvokeEnds
<1>5. CASE got[i].kind # "result"
  <2>1. called' = called
    BY <1>5 DEF InvokeCallback
  <2>2. /\ called' \subseteq [thread : Callbacks, id : QueryIds, query : QueryType]
        /\ GotOK => \A d \in called' : ticket[d.query.n] = d.id
    BY <2>1 DEF ClientTypeOK, GotOK
  <2> QED
    BY <1>1, <1>3, <2>2, InvokeEnds
<1> QED
  BY <1>4, <1>5

\* The application's thread goes on.
LEMMA ApplicationGoesOn ==
  ASSUME ClientInv, NEW next \in {"ready", "wait", "destroy", "gone"},
         pc[0] \notin {"none", "recv"}, pc' = [pc EXCEPT ![0] = next],
         \/ arg' = arg /\ next # "wait"
         \/ \E id \in QueryIds : arg' = [arg EXCEPT ![0] = id],
         UNCHANGED <<exclusive, holder, asked, got, cbmap, registered,
                     overlapped, called>>,
         ticket' = ticket, ~Open' \/ UNCHANGED <<conn, handler>>
  PROVE  ClientLocals' /\ ExchangesOK'
<1> USE CallersAre
<1>1. next = "wait" => arg' # arg \/ arg[0] \in QueryIds
  <2> SUFFICES ASSUME next = "wait", arg' = arg PROVE arg[0] \in QueryIds
    OBVIOUS
  <2>1. PICK id \in QueryIds : arg' = [arg EXCEPT ![0] = id]
    OBVIOUS
  <2>2. arg'[0] = id
    BY <2>1 DEF ClientInv, ClientLocals, ClientTypeOK
  <2> QED
    BY <2>2
<1>2. /\ called' \subseteq [thread : Callbacks, id : QueryIds, query : QueryType]
      /\ ~overlapped /\ GotOK => \A c \in called' : ticket[c.query.n] = c.id
  BY DEF ClientInv, ClientLocals, ClientTypeOK, GotOK
<1> QED
  BY <1>1, <1>2, GoesOn

\* Every step of the client and of the server keeps ClientInv.
LEMMA ClientStepKeeps ==
  ASSUME ClientInv, [ClientNext]_vars
  PROVE  ClientInv'
<1> USE CallersAre
<1>1. CASE UNCHANGED vars
  <2>1. ClientLocals'
    BY <1>1 DEF vars, clientVars, ClientInv, ClientLocals, ClientTypeOK, OneByOne,
                StartedUpTo, ThreadsOK, Started, HolderOK
  <2>2. UNCHANGED <<serverVars, clientVars>> /\ UNCHANGED <<conn, handler, ticket>>
    BY <1>1 DEF vars, serverVars, historyVars
  <2>3. ExchangesOK'
    BY <2>2, ExchangesElse DEF clientVars, ClientInv, ClientLocals, GotOK, Open
  <2> QED
    BY <2>1, <2>2, <2>3, ElseKeeps
<1>2. CASE \/ ServerStep /\ UNCHANGED clientVars
           \/ (Connect(Client) \/ Break(Client)) /\ UNCHANGED clientVars
  BY <1>2, ServerKeeps
<1>3. ASSUME NEW k \in KeyIds, NEW keys \in KeySets, RegisterEncKeys(k, keys)
      PROVE  ClientInv'
  BY <1>3, RegisterEncKeysKeeps
<1>4. ASSUME NEW k \in KeyIds, SendQuery(k) PROVE ClientInv'
  <2> DEFINE q == Request("query", k, Absent)
  <2>1. SentBy(q)
    BY DEF SentBy
  <2> HIDE DEF q
  <2>2. /\ pc[0] = "ready" /\ Sends < MaxQueries /\ BeginExchange(0, q)
        /\ UNCHANGED <<serverRest, exclusive, arg, cbmap, registered, called>>
    BY <1>4 DEF SendQuery, q
  <2> QED
    BY <2>1, <2>2, BeginKeeps
<1>5. ASSUME NEW id \in QueryIds, Wait(id) PROVE ClientInv'
  <2>1. /\ pc[0] = "ready" /\ pc' = [pc EXCEPT ![0] = "wait"]
        /\ arg' = [arg EXCEPT ![0] = id]
        /\ UNCHANGED <<serverVars, exclusive, holder, asked, got, cbmap,
                       registered, overlapped, called>>
    BY <1>5 DEF Wait
  <2>2. UNCHANGED <<conn, handler, ticket>>
    BY <2>1 DEF serverVars, historyVars
  <2>3. ClientLocals' /\ ExchangesOK'
    BY <2>1, <2>2, ApplicationGoesOn
  <2> QED
    BY <2>1, <2>3, ElseKeeps
<1>6. CASE Destroy
  <2>1. /\ pc[0] = "ready" /\ pc' = [pc EXCEPT ![0] = "destroy"]
        /\ conn' = Broken(Client)
        /\ UNCHANGED <<serverRest, sent, firstKeys, exclusive, holder, arg, asked,
                       got, cbmap, registered, overlapped, called>>
    BY <1>6 DEF Destroy
  <2>2. UNCHANGED <<handler, ticket>>
    BY <2>1 DEF serverRest
  <2>3. conn' \in ConnType /\ ConnOK'
    BY <2>1, <2>2, ClientIsOne, BrokenTypes DEF ClientInv, IndInv, LocalsOK
  <2>4. conn'[Client] = [state |-> "closed", inbox |-> <<>>, outbox |-> <<>>]
        /\ \A c \in Connections : c # Client => conn'[c] = conn[c]
    BY <2>1, ClientIsOne DEF Broken, ClientInv, IndInv, TypeOK
  <2>5. ~Open' /\ Outbox' = <<>>
    BY <2>4 DEF Open, Outbox
  <2>6. ClientLocals' /\ ExchangesOK'
    BY <2>1, <2>2, <2>5, ApplicationGoesOn
  <2>7. IndInv'
    BY <2>1, <2>3, <2>4, ConnAlone DEF ClientInv
  <2>8. RepliesOK' /\ SendingOK'
    BY <2>2, <2>5, NoReplies DEF ClientInv, SendingOK, At
  <2> QED
    BY <2>6, <2>7, <2>8 DEF ClientInv
<1>7. CASE RecvQueryId
  <2>1. \E id \in QueryIds : arg' = [arg EXCEPT ![0] = id]
    <3>1. PICK r \in ReplyType : got'[0] = r
      <4>1. handler' = handler /\ EndExchange(0, "set_callback")
        BY <1>7 DEF RecvQueryId, serverRest
      <4>2. got' = [got EXCEPT ![0] = Outbox[1]] /\ Outbox[1] \in ReplyType
        BY <4>1, EndFacts DEF ClientInv
      <4> QED
        BY <4>2 DEF ClientInv, ClientLocals, ClientTypeOK
    <3>2. (IF r.kind = "id" THEN r.id ELSE Refused) \in QueryIds
      BY DEF ReplyType, QueryIds
    <3> QED
      BY <1>7, <3>1, <3>2 DEF RecvQueryId
  <2>2. /\ EndExchange(0, "set_callback")
        /\ UNCHANGED <<serverRest, sent, firstKeys, exclusive, asked, cbmap,
                       registered, overlapped, called>>
    BY <1>7 DEF RecvQueryId
  <2> QED
    BY <2>1, <2>2, EndKeeps
<1>8. CASE SendQueryThrows
  BY <1>8, FailKeeps DEF SendQueryThrows
<1>9. CASE SetCallback
  <2>1. /\ pc[0] = "set_callback"
        /\ UNCHANGED <<serverVars, exclusive, holder, asked, got, registered,
                       overlapped, called>>
    BY <1>9 DEF SetCallback
  <2>2. ClientLocals'
    BY <1>9, SetCallbackLocals DEF ClientInv
  <2>3. PICK i \in Callbacks :
           /\ pc[i] = "none"
           /\ pc' = [pc EXCEPT ![0] = "ready", ![i] = "start"]
           /\ arg' = [arg EXCEPT ![i] = arg[0]]
    BY <1>9, SetCallbackLocals DEF ClientInv
  <2>4. \A j \in Callers : /\ pc'[j] = IF j = i THEN "start" ELSE
                                      IF j = 0 THEN "ready" ELSE pc[j]
                           /\ j # i => arg'[j] = arg[j]
    BY <2>3 DEF ClientInv, ClientLocals, ClientTypeOK
  <2>5. got[i] = Absent /\ ~HasReply(i)
    BY <2>3 DEF ClientInv, ClientLocals, ThreadsOK, HasReply
  <2>6. UNCHANGED <<conn, handler, ticket>>
    BY <2>1 DEF serverVars, historyVars
  <2>7. \A j \in Callers : /\ pc'[j] \in {"recv", "call"} => pc'[j] = pc[j]
                           /\ pc[j] = "recv" => pc'[j] = "recv"
    <3> SUFFICES ASSUME NEW j \in Callers
                 PROVE  /\ pc'[j] \in {"recv", "call"} => pc'[j] = pc[j]
                        /\ pc[j] = "recv" => pc'[j] = "recv"
      OBVIOUS
    <3>1. CASE j = i \/ j = 0
      <4>1. pc'[j] \in {"start", "ready"} /\ pc[j] \in {"none", "set_callback"}
        BY <2>1, <2>3, <2>4, <3>1
      <4> QED
        BY <4>1
    <3>2. CASE j # i /\ j # 0
      BY <2>4, <3>2
    <3> QED
      BY <3>1, <3>2
  <2>8. \A j \in Callbacks : HasReply(j) \/ pc[j] = "recv" => arg'[j] = arg[j]
    BY <2>3, <2>4, <2>5
  <2>9. ExchangesOK'
    BY <2>1, <2>6, <2>7, <2>8, ExchangesElse DEF ClientInv, ClientLocals, GotOK, Open
  <2> QED
    BY <2>1, <2>2, <2>9, ElseKeeps
<1>10. CASE EndWait \/ EndDestroy
  <2>1. PICK next \in {"ready", "gone"} :
           /\ pc[0] \in {"wait", "destroy"} /\ pc' = [pc EXCEPT ![0] = next]
           /\ UNCHANGED <<serverVars, exclusive, holder, arg, asked, got, cbmap,
                          registered, overlapped, called>>
    BY <1>10 DEF EndWait, EndDestroy
  <2>2. UNCHANGED <<conn, handler, ticket>>
    BY <2>1 DEF serverVars, historyVars
  <2>3. ClientLocals' /\ ExchangesOK'
    BY <2>1, <2>2, ApplicationGoesOn
  <2> QED
    BY <2>1, <2>3, ElseKeeps
<1>11. ASSUME NEW i \in Callbacks, RequestResult(i) PROVE ClientInv'
  <2> DEFINE q == Request("result", arg[i], Absent)
  <2>1. pc[i] = "start" /\ arg[i] \in QueryIds /\ i \in Callers /\ i # 0
    BY <1>11 DEF RequestResult, ClientInv, ClientLocals, ThreadsOK, Started
  <2>2. SentBy(q) /\ q.id = arg[i]
    BY <2>1 DEF SentBy, Request
  <2> HIDE DEF q
  <2>3. /\ BeginExchange(i, q)
        /\ UNCHANGED <<serverRest, exclusive, arg, cbmap, registered, called>>
    BY <1>11 DEF RequestResult, q
  <2> QED
    BY <2>1, <2>2, <2>3, BeginKeeps
<1>12. ASSUME NEW i \in Callbacks, RequestThrows(i) PROVE ClientInv'
  <2>1. /\ pc[i] = "start" /\ pc' = [pc EXCEPT ![i] = "failed"]
        /\ UNCHANGED <<serverVars, exclusive, holder, arg, asked, got, cbmap,
                       registered, overlapped, called>>
    BY <1>12 DEF RequestThrows
  <2>2. /\ called' \subseteq [thread : Callbacks, id : QueryIds, query : QueryType]
        /\ GotOK => \A c \in called' : ticket[c.query.n] = c.id
    BY <2>1 DEF ClientInv, ClientLocals, ClientTypeOK, GotOK
  <2> QED
    BY <2>1, <2>2, InvokeEnds
<1>13. ASSUME NEW i \in Callbacks, RecvResults(i) PROVE ClientInv'
  <2>1. i \in Callers /\ i # 0
    OBVIOUS
  <2> QED
    BY <1>13, <2>1, EndKeeps DEF RecvResults
<1>14. ASSUME NEW i \in Callbacks, RecvResultsThrows(i) PROVE ClientInv'
  <2>1. i \in Callers /\ i # 0
    OBVIOUS
  <2> QED
    BY <1>14, <2>1, FailKeeps DEF RecvResultsThrows
<1>15. ASSUME NEW i \in Callbacks, InvokeCallback(i) PROVE ClientInv'
  BY <1>15, InvokeKeeps
<1> QED
  BY <1>1, <1>2, <1>3, <1>4, <1>5, <1>6, <1>7, <1>8, <1>9, <1>10, <1>11, <1>12,
     <1>13, <1>14, <1>15
     DEF ClientNext, InsideCall, ResultThreadStep

-----------------------------------------------------------------------------
(* Theorems                                                                *)

\* A session starts in ClientInv.
LEMMA ClientInitInv == ClientInit => ClientInv
<1> SUFFICES ASSUME ClientInit PROVE ClientInv
  OBVIOUS
<1> USE CallersAre DEF ClientInit
<1>1. IndInv
  BY InitInv
<1>2. ClientTypeOK
  <2>1. pc \in [Callers -> Places] /\ holder \in Callers \cup {Absent}
    BY DEF Places
  <2>2. asked \in [Callers -> 0 .. MaxRequests] /\ cbmap \in [QueryIds -> Callers]
    BY ParametersAssumption
  <2>3. /\ arg \in [Callers -> QueryIds \cup {NoId}]
        /\ got \in [Callers -> ReplyType \cup {Absent}]
    OBVIOUS
  <2> QED
    BY <2>1, <2>2, <2>3 DEF ClientTypeOK
<1>3. OneByOne
  <2>1. StartedUpTo(0) /\ 0 \in 0 .. MaxQueries
    BY ClientAssumption DEF StartedUpTo, Started, Callbacks
  <2> QED
    BY <2>1 DEF OneByOne
<1>4. ThreadsOK /\ HolderOK
  BY DEF ThreadsOK, HolderOK, Started
<1>5. Outbox = <<>> /\ At(Client, "idle") /\ ~Open
  BY ClientIsOne DEF Init, Outbox, At, Idle, Open
<1>6. RepliesOK /\ SendingOK
  BY <1>5 DEF RepliesOK, SendingOK, At
<1>7. ExchangesOK
  BY <1>5 DEF ExchangesOK, OneWaits, GotOK, HasReply
<1> QED
  BY <1>1, <1>2, <1>3, <1>4, <1>6, <1>7 DEF ClientInv, ClientLocals

\* ClientInv holds throughout a session.
THEOREM ClientInvHolds == ClientSpec => []ClientInv
<1>1. ClientInv /\ [ClientNext]_vars => ClientInv'
  BY ClientStepKeeps
<1> QED
  BY <1>1, ClientInitInv, PTL DEF ClientSpec

\* Each exchange reads the reply to its own request and each callback gets a
\* result of its own query, unless exchanges overlapped.
THEOREM OwnRepliesHolds == ClientSpec => []OwnReplies
<1>1. ClientInv => OwnReplies
  BY DEF ClientInv, ExchangesOK, GotOK, HasReply, OwnReplies
<1> QED
  BY <1>1, ClientInvHolds, PTL

\* A connection that keeps other threads out of an exchange lets none overlap:
\* there OwnReplies holds without its condition.
THEOREM ExclusiveHolds == ClientSpec => [](exclusive => ~overlapped)
<1>1. ClientInv => (exclusive => ~overlapped)
  BY DEF ClientInv, ClientLocals, HolderOK
<1> QED
  BY <1>1, ClientInvHolds, PTL

=============================================================================
