------------------------------- MODULE Server -------------------------------
(***************************************************************************)
(* The computation server: Server::start, the three handlers and the       *)
(* KeyContainer they share, over the connections of its clients.  The      *)
(* calls into CalcManager are atomic here, their interleavings being the   *)
(* subject of CalcManager; what is not atomic is a handler, which other    *)
(* handlers, the calculation threads and a broken connection interrupt.    *)
(*                                                                         *)
(* External (stdsc): a connection carries requests and replies in order,   *)
(* one handler at a time works for it, and a connection can break.  What   *)
(* becomes of a connection whose handler throws is left open.              *)
(*                                                                         *)
(*   CallbackFunctionEncryptionKeys  RegisterKeys                          *)
(*   CallbackFunctionQuery           LookUpKeys PushQuery SendQueryId      *)
(*   CallbackFunctionResultRequest   PopResult SendResult                  *)
(***************************************************************************)
EXTENDS ConcurrentMapQueue, Sequences

CONSTANTS
    Connections, Threads,
    KeyIds, KeySets,     \* key ids, and the key sets registered under them
    Ids,                 \* the ids gen_uuid draws
    MaxConcurrentQueries, MaxResults,
    BadQueries,          \* numbers of the requests whose computation throws
    MaxRequests          \* bound: requests sent

Refused == -1
NoId    == -2
Numbers == 1 .. MaxRequests

\* A query in a queue, and what a calculation thread works on.
QueryType == [n : Numbers, key_id : KeyIds, keys : KeySets]
JobType   == [id : Ids, query : QueryType]

ASSUME ParametersAssumption ==
    /\ IsFiniteSet(Connections) /\ IsFiniteSet(Threads)
    /\ MaxConcurrentQueries \in Nat /\ MaxResults \in Nat
    /\ Ids \subseteq Nat /\ IsFiniteSet(Ids)
    /\ MaxRequests \in Nat /\ BadQueries \subseteq Numbers

\* Absent is none of the things it stands for the absence of.
ASSUME AbsentAssumption ==
    /\ Absent \notin Connections /\ Absent \notin KeySets
    /\ Absent \notin Numbers /\ Absent \notin QueryType
    /\ Absent \notin JobType

VARIABLES
    server,     \* "built", "listening", "started" or "stopped"
    conn,       \* connection -> its state, requests and replies under way
    handler,    \* connection -> its handler: the step and the locals
    keymap,     \* keymap_: key id -> key set
    qque, rque, \* the manager's queues: id -> query
    job,        \* thread -> its id and query
    tpc,        \* thread -> "none", "run", "compute" or "dead"
    sent,       \* requests sent
    ticket,     \* history: number -> the id pushed, Refused or NoId
    collector,  \* history: number -> the connection that popped its result
    delivered,  \* history: numbers of the queries whose result was sent
    firstKeys   \* history: connection, key id -> its first keys request, or 0

managerVars == <<qque, rque, job, tpc>>
historyVars == <<ticket, collector, delivered, firstKeys>>
serverVars  == <<server, conn, handler, keymap, managerVars, sent, historyVars>>

Handlers == {"idle", "keys", "lookup", "push", "send_id", "poll", "send_result"}
Idle == [step |-> "idle", request |-> Absent, query |-> Absent, id |-> NoId]

\* A message: a request, numbered by what was sent, and its reply.
Request(kind, id, keys) ==
    [kind |-> kind, id |-> id, keys |-> keys, n |-> sent + 1]
Query(request, keys) == [n |-> request.n, key_id |-> request.id, keys |-> keys]

-----------------------------------------------------------------------------
(* Server *)

\* start: the connections come before the calculation threads.
Listen ==
    /\ server = "built"
    /\ server' = "listening"
    /\ UNCHANGED <<conn, handler, keymap, managerVars, sent, historyVars>>

StartThreads ==
    /\ server = "listening"
    /\ server' = "started"
    /\ tpc' = [t \in Threads |-> "run"]
    /\ UNCHANGED <<conn, handler, keymap, qque, rque, job, sent,
                   historyVars>>

\* stop closes the connections and leaves the threads alone.
Stop ==
    /\ server = "started"
    /\ server' = "stopped"
    /\ conn' = [c \in Connections |->
                   [state |-> "closed", inbox |-> <<>>, outbox |-> <<>>]]
    /\ UNCHANGED <<handler, keymap, managerVars, sent, historyVars>>

-----------------------------------------------------------------------------
(* Connections *)

Connect(c) ==
    /\ server \in {"listening", "started"}
    /\ conn[c].state = "new"
    /\ conn' = [conn EXCEPT ![c].state = "open"]
    /\ UNCHANGED <<server, handler, keymap, managerVars, sent, historyVars>>

Broken(c) ==
    [conn EXCEPT ![c] = [state |-> "closed", inbox |-> <<>>, outbox |-> <<>>]]

Break(c) ==
    /\ conn[c].state = "open"
    /\ conn' = Broken(c)
    /\ UNCHANGED <<server, handler, keymap, managerVars, sent, historyVars>>

\* A client's request arrives.
Arrive(c, request) ==
    /\ conn[c].state = "open"
    /\ sent < MaxRequests
    /\ sent' = sent + 1
    /\ conn' = [conn EXCEPT ![c].inbox =
                   Append(@, request)]
    /\ firstKeys' =
          IF request.kind = "keys" /\ firstKeys[c][request.id] = 0
          THEN [firstKeys EXCEPT ![c][request.id] = request.n] ELSE firstKeys

\* The connection's thread picks the handler of the control code.
Receive(c) ==
    /\ server \in {"listening", "started"}
    /\ handler[c].step = "idle"
    /\ conn[c].inbox # <<>>
    /\ LET r == Head(conn[c].inbox)
       IN  handler' = [handler EXCEPT ![c] =
              [Idle EXCEPT !.request = r,
                           !.step = CASE r.kind = "keys"  -> "keys"
                                      [] r.kind = "query" -> "lookup"
                                      [] OTHER            -> "poll"]]
    /\ conn' = [conn EXCEPT ![c].inbox = Tail(@)]
    /\ UNCHANGED <<server, keymap, managerVars, sent, historyVars>>

-----------------------------------------------------------------------------
(* Handlers *)

At(c, step) == handler[c].step = step
Goto(c, step) == handler' = [handler EXCEPT ![c].step = step]
Return(c) == handler' = [handler EXCEPT ![c] = Idle]

\* An exception ends the handler, and perhaps the connection.
Throw(c) ==
    /\ Return(c)
    /\ conn' \in {conn, Broken(c)}

\* Sends a reply, or throws because the connection is gone.
Reply(c, reply) ==
    IF conn[c].state = "open"
    THEN /\ conn' = [conn EXCEPT ![c].outbox = Append(@, reply)]
         /\ Return(c)
    ELSE Throw(c)

\* Mutant: CalcManager::regist_enckeys is called, whose map nobody reads.
RegisterKeysElsewhere(c) ==
    /\ At(c, "keys")
    /\ Return(c)
    /\ UNCHANGED <<server, conn, keymap, managerVars, sent, historyVars>>

\* Mutant: an acknowledgement is sent, which the client does not read.
RegisterKeysAcknowledged(c) ==
    /\ At(c, "keys")
    /\ keymap' = Emplace(keymap, handler[c].request.id, handler[c].request.keys)
    /\ Reply(c, [kind |-> "id", n |-> handler[c].request.n, id |-> Refused,
                 query |-> Absent])
    /\ UNCHANGED <<server, managerVars, sent, historyVars>>

\* The keys registered first under an id stay.
RegisterKeys(c) ==
    /\ At(c, "keys")
    /\ keymap' = Emplace(keymap, handler[c].request.id, handler[c].request.keys)
    /\ Return(c)
    /\ UNCHANGED <<server, conn, managerVars, sent, historyVars>>

\* get_keys throws for an id it does not know; the query keeps a pointer to
\* the keys.
LookUpKeys(c) ==
    /\ At(c, "lookup")
    /\ LET r == handler[c].request
       IN  IF Holds(keymap, r.id)
           THEN /\ handler' = [handler EXCEPT ![c].step = "push",
                                              ![c].query = Query(r, keymap[r.id])]
                /\ UNCHANGED conn
           ELSE Throw(c)
    /\ UNCHANGED <<server, keymap, managerVars, sent, historyVars>>

\* CalcManager::push_query: no room, or an id that is queued, is -1.
PushQuery(c) ==
    /\ At(c, "push")
    /\ LET room == Size(qque) < MaxConcurrentQueries /\ Size(rque) < MaxResults
           q == handler[c].query
       IN  \E id \in Ids :
              LET got == IF room /\ ~Holds(qque, id) THEN id ELSE Refused
              IN  /\ qque' = IF got = id THEN Emplace(qque, id, q) ELSE qque
                  /\ ticket' = [ticket EXCEPT ![q.n] = got]
                  /\ handler' = [handler EXCEPT ![c].step = "send_id",
                                                ![c].id = got]
    /\ UNCHANGED <<server, conn, keymap, rque, job, tpc, sent, collector,
                   delivered, firstKeys>>

\* The connection may have broken: the query goes on without its owner.
SendQueryId(c) ==
    /\ At(c, "send_id")
    /\ Reply(c, [kind |-> "id", n |-> handler[c].request.n, id |-> handler[c].id,
                 query |-> Absent])
    /\ UNCHANGED <<server, keymap, managerVars, sent, historyVars>>

\* CalcManager::pop_result polls until the id is there, connection or not.
PopResult(c) ==
    /\ At(c, "poll")
    /\ \E id \in IF handler[c].request.id \in Ids
                 THEN Poppable(rque, handler[c].request.id) ELSE {} :
          /\ handler' = [handler EXCEPT ![c].step = "send_result",
                                        ![c].query = rque[id], ![c].id = id]
          /\ rque' = Erase(rque, id)
          /\ collector' = [collector EXCEPT ![rque[id].n] = c]
    /\ UNCHANGED <<server, conn, keymap, qque, job, tpc, sent, ticket,
                   delivered, firstKeys>>

\* Mutant: the keys are looked up under the id of the query.
KeyIdOfId(q, id) == id

\* The key id under which the parameters for the reply are looked up.
KeyIdOf(q, id) == q.key_id

SendResult(c) ==
    /\ At(c, "send_result")
    /\ LET q == handler[c].query
           k == KeyIdOf(q, handler[c].id)
       IN  IF k \in KeyIds /\ Holds(keymap, k)
           THEN /\ Reply(c, [kind |-> "result", n |-> handler[c].request.n,
                             id |-> handler[c].id, query |-> q])
                /\ delivered' = IF conn[c].state = "open"
                                THEN delivered \cup {q.n} ELSE delivered
           ELSE Throw(c) /\ UNCHANGED delivered
    /\ UNCHANGED <<server, keymap, managerVars, sent, ticket, collector,
                   firstKeys>>

-----------------------------------------------------------------------------
(* The calculation threads (CalcThread::exec, see CalcManager)             *)

TakeQuery(t) ==
    /\ tpc[t] = "run"
    /\ \E id \in Front(qque) :
          /\ job' = [job EXCEPT ![t] = [id |-> id, query |-> qque[id]]]
          /\ qque' = Erase(qque, id)
    /\ tpc' = [tpc EXCEPT ![t] = "compute"]
    /\ UNCHANGED <<server, conn, handler, keymap, rque, sent, historyVars>>

\* Mutant: an exception is swallowed and the thread goes on.
ConcludeSwallowing(t) ==
    /\ tpc[t] = "compute"
    /\ LET j == job[t]
       IN  /\ rque' = IF j.query.n \in BadQueries THEN rque
                      ELSE Emplace(rque, j.id, j.query)
           /\ job' = [job EXCEPT ![t] = Absent]
           /\ tpc' = [tpc EXCEPT ![t] = "run"]
    /\ UNCHANGED <<server, conn, handler, keymap, qque, sent, historyVars>>

\* A computation that throws, and an id whose result is still there, end
\* the thread.
Conclude(t) ==
    /\ tpc[t] = "compute"
    /\ LET j == job[t]
       IN  IF j.query.n \in BadQueries \/ Holds(rque, j.id)
           THEN /\ tpc' = [tpc EXCEPT ![t] = "dead"]
                /\ UNCHANGED <<rque, job>>
           ELSE /\ rque' = Emplace(rque, j.id, j.query)
                /\ job' = [job EXCEPT ![t] = Absent]
                /\ tpc' = [tpc EXCEPT ![t] = "run"]
    /\ UNCHANGED <<server, conn, handler, keymap, qque, sent, historyVars>>

-----------------------------------------------------------------------------
Init ==
    /\ server = "built"
    /\ conn = [c \in Connections |->
                  [state |-> "new", inbox |-> <<>>, outbox |-> <<>>]]
    /\ handler = [c \in Connections |-> Idle]
    /\ keymap = EmptyMap(KeyIds)
    /\ qque = EmptyMap(Ids)
    /\ rque = EmptyMap(Ids)
    /\ job = [t \in Threads |-> Absent]
    /\ tpc = [t \in Threads |-> "none"]
    /\ sent = 0
    /\ ticket = [n \in Numbers |-> NoId]
    /\ collector = [n \in Numbers |-> Absent]
    /\ delivered = {}
    /\ firstKeys = [c \in Connections |-> [k \in KeyIds |-> 0]]

HandlerStep(c) ==
    \/ Receive(c) \/ RegisterKeys(c) \/ LookUpKeys(c) \/ PushQuery(c)
    \/ SendQueryId(c) \/ PopResult(c) \/ SendResult(c)

ThreadStep(t) == TakeQuery(t) \/ Conclude(t)

\* What the clients send: keys, queries, and requests for any id they can
\* have been given.
ClientStep(c) ==
    \/ Connect(c)
    \/ Break(c)
    \/ /\ \/ \E k \in KeyIds, keys \in KeySets :
                Arrive(c, Request("keys", k, keys))
          \/ \E k \in KeyIds : Arrive(c, Request("query", k, Absent))
          \/ \E id \in Ids \cup {Refused} :
                Arrive(c, Request("result", id, Absent))
       /\ UNCHANGED <<server, handler, keymap, managerVars, ticket, collector,
                      delivered>>

Next ==
    \/ Listen \/ StartThreads \/ Stop
    \/ \E c \in Connections : ClientStep(c) \/ HandlerStep(c)
    \/ \E t \in Threads : ThreadStep(t)

Spec == Init /\ [][Next]_serverVars

\* Threads and handlers run; what clients do and breaks are not fair.
FairSpec ==
    /\ Spec
    /\ WF_serverVars(Listen) /\ WF_serverVars(StartThreads)
    /\ \A c \in Connections : WF_serverVars(HandlerStep(c))
    /\ \A t \in Threads : WF_serverVars(ThreadStep(t))

-----------------------------------------------------------------------------
(* Properties *)

KeysRequest   == [kind : {"keys"}, id : KeyIds, keys : KeySets, n : Numbers]
QueryRequest  == [kind : {"query"}, id : KeyIds, keys : {Absent}, n : Numbers]
ResultRequest == [kind : {"result"}, id : Ids \cup {Refused}, keys : {Absent},
                  n : Numbers]
RequestType   == KeysRequest \cup QueryRequest \cup ResultRequest

ReplyType ==
    [kind : {"id"}, n : Numbers, id : Ids \cup {Refused}, query : {Absent}]
    \cup [kind : {"result"}, n : Numbers, id : Ids, query : QueryType]

TypeOK ==
    /\ server \in {"built", "listening", "started", "stopped"}
    /\ conn \in [Connections -> [state : {"new", "open", "closed"},
                                 inbox : Seq(RequestType),
                                 outbox : Seq(ReplyType)]]
    /\ handler \in [Connections -> [step : Handlers,
                                    request : RequestType \cup {Absent},
                                    query : QueryType \cup {Absent},
                                    id : Ids \cup {Refused, NoId}]]
    /\ keymap \in [KeyIds -> KeySets \cup {Absent}]
    /\ qque \in [Ids -> QueryType \cup {Absent}]
    /\ rque \in [Ids -> QueryType \cup {Absent}]
    /\ job \in [Threads -> JobType \cup {Absent}]
    /\ tpc \in [Threads -> {"none", "run", "compute", "dead"}]
    /\ sent \in 0 .. MaxRequests
    /\ ticket \in [Numbers -> Ids \cup {Refused, NoId}]
    /\ collector \in [Numbers -> Connections \cup {Absent}]
    /\ delivered \subseteq Numbers
    /\ firstKeys \in [Connections -> [KeyIds -> 0 .. MaxRequests]]

HeldQueries ==
    {handler[c].query : c \in Connections} \cup {qque[id] : id \in Ids}
    \cup {rque[id] : id \in Ids}
    \cup {job[t].query : t \in {u \in Threads : job[u] # Absent}}

\* The keys a query points to are at every later time those registered
\* under its key id: they are not replaced by another client's while it is
\* queued, computed or answered (register_keys against the pointer that
\* Query keeps and the lookup by result.key_id_).
KeysStay ==
    /\ TypeOK
    /\ \A q \in HeldQueries \ {Absent} : keymap[q.key_id] = q.keys

InReply(n) == \E c \in Connections : At(c, "send_result")
                                     /\ handler[c].query.n = n

\* A result is popped before it is sent: one that leaves the queue and
\* reaches nobody was popped for a connection that broke, and for no other
\* reason (CallbackFunctionResultRequest).
LostWithItsConnection ==
    \A n \in Numbers :
       collector[n] # Absent /\ n \notin delivered /\ ~InReply(n) =>
          conn[collector[n]].state = "closed"

TurnedAway(c) == At(c, "lookup") /\ At(c, "idle")'

\* A query is turned away for unknown keys only if no keys were sent before
\* it over its own connection: the handlers of one connection run in order,
\* those of two do not (get_keys in CallbackFunctionQuery).
KeysComeFirst ==
    [][\A c \in Connections : TurnedAway(c) =>
          LET r == handler[c].request
          IN  firstKeys[c][r.id] = 0 \/ firstKeys[c][r.id] > r.n]_serverVars
=============================================================================
