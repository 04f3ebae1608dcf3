---------------------------- MODULE ClientSession ----------------------------
(***************************************************************************)
(* One Client object at work with the server: the application's thread     *)
(* calls register_enckeys, send_query with a callback, wait and at last    *)
(* the destructor; set_callback starts a ResultThread per query, which     *)
(* asks for the result over the connection all of them share.  Thread 0 is *)
(* the application's, thread i the one of the i-th callback.               *)
(*                                                                         *)
(* External (stdsc): send_recv_data_blocking writes a request and reads    *)
(* the next reply of the connection.  Whether it keeps other threads out   *)
(* in between is not in the repository: exclusive takes both values.       *)
(***************************************************************************)
EXTENDS ServerLife

CONSTANTS
    Client,      \* the client's connection
    MaxQueries   \* bound: calls of send_query

ASSUME ClientAssumption ==
    /\ Client \in Connections /\ MaxQueries \in Nat
    /\ Absent \notin 0 .. MaxQueries

Callbacks == 1 .. MaxQueries
Callers   == 0 .. MaxQueries

VARIABLES
    exclusive,   \* whether an exchange keeps other threads out
    holder,      \* the thread whose exchange is under way, or Absent
    pc,          \* caller -> where it is
    arg,         \* caller -> the query_id it works on
    asked,       \* caller -> the number of its request
    got,         \* caller -> the reply it read
    cbmap,       \* cbmap_: query_id -> callback thread, or 0
    registered,  \* the keys are registered
    overlapped,  \* history: two exchanges were under way together
    called       \* history: invocations of callbacks

clientVars == <<exclusive, holder, pc, arg, asked, got, cbmap, registered,
                overlapped, called>>
vars == <<serverVars, clientVars>>

serverRest == <<server, handler, keymap, managerVars, ticket, collector,
                delivered>>

QueryIds == Ids \cup {Refused}
Open     == conn[Client].state = "open"
Ended(i) == pc[i] \in {"done", "failed"}
Started(i) == pc[i] # "none"

-----------------------------------------------------------------------------
(* Exchanges *)

BeginExchange(i, request) ==
    /\ exclusive => holder = Absent
    /\ Arrive(Client, request)
    /\ holder' = IF exclusive THEN i ELSE Absent
    /\ asked' = [asked EXCEPT ![i] = request.n]
    /\ got' = [got EXCEPT ![i] = Absent]
    /\ pc' = [pc EXCEPT ![i] = "recv"]
    /\ overlapped' = (overlapped \/ \E j \in Callers \ {i} : pc[j] = "recv")

\* The caller goes on at next with the reply at the head of the connection.
EndExchange(i, next) ==
    /\ pc[i] = "recv"
    /\ conn[Client].outbox # <<>>
    /\ got' = [got EXCEPT ![i] = Head(conn[Client].outbox)]
    /\ conn' = [conn EXCEPT ![Client].outbox = Tail(@)]
    /\ holder' = Absent
    /\ pc' = [pc EXCEPT ![i] = next]

\* The connection is closed: the call throws.
ExchangeFails(i, next) ==
    /\ pc[i] = "recv"
    /\ ~Open
    /\ pc' = [pc EXCEPT ![i] = next]
    /\ holder' = Absent

-----------------------------------------------------------------------------
(* Client: the application's thread *)

\* send_data_blocking: no reply is read.
RegisterEncKeys(id, keys) ==
    /\ pc[0] = "ready"
    /\ ~registered
    /\ exclusive => holder = Absent
    /\ Arrive(Client, Request("keys", id, keys))
    /\ registered' = TRUE
    /\ UNCHANGED <<serverRest, exclusive, holder, pc, arg, asked, got, cbmap,
                   overlapped, called>>

Sends == Cardinality({i \in Callbacks : Started(i)})

SendQuery(id) ==
    /\ pc[0] = "ready"
    /\ registered
    /\ Sends < MaxQueries
    /\ BeginExchange(0, Request("query", id, Absent))
    /\ UNCHANGED <<serverRest, exclusive, arg, cbmap, registered, called>>

\* The bytes of a result make no query id: what they are taken for is open.
RecvQueryId ==
    /\ EndExchange(0, "set_callback")
    /\ arg' = [arg EXCEPT ![0] = IF got'[0].kind = "id" THEN got'[0].id
                                 ELSE Refused]
    /\ UNCHANGED <<serverRest, sent, firstKeys, exclusive, asked, cbmap,
                   registered, overlapped, called>>

SendQueryThrows ==
    /\ ExchangeFails(0, "ready")
    /\ UNCHANGED <<serverVars, exclusive, arg, asked, got, cbmap, registered,
                   overlapped, called>>

\* The map's entry is overwritten: the destructor of a thread that was there
\* joins it first.
SetCallback ==
    /\ pc[0] = "set_callback"
    /\ LET id == arg[0]
           i  == Sends + 1
       IN  /\ cbmap[id] # 0 => Ended(cbmap[id])
           /\ cbmap' = [cbmap EXCEPT ![id] = i]
           /\ pc' = [pc EXCEPT ![0] = "ready", ![i] = "start"]
           /\ arg' = [arg EXCEPT ![i] = id]
    /\ UNCHANGED <<serverVars, exclusive, holder, asked, got, registered,
                   overlapped, called>>

Wait(id) ==
    /\ pc[0] = "ready"
    /\ cbmap[id] # 0
    /\ pc' = [pc EXCEPT ![0] = "wait"]
    /\ arg' = [arg EXCEPT ![0] = id]
    /\ UNCHANGED <<serverVars, exclusive, holder, asked, got, cbmap, registered,
                   overlapped, called>>

EndWait ==
    /\ pc[0] = "wait"
    /\ Ended(cbmap[arg[0]])
    /\ pc' = [pc EXCEPT ![0] = "ready"]
    /\ UNCHANGED <<serverVars, exclusive, holder, arg, asked, got, cbmap,
                   registered, overlapped, called>>

\* Mutant: the threads are joined before the connection is closed.
DestroyJoining ==
    /\ pc[0] = "ready"
    /\ pc' = [pc EXCEPT ![0] = "destroy"]
    /\ UNCHANGED <<serverVars, exclusive, holder, arg, asked, got, cbmap,
                   registered, overlapped, called>>

\* ~Impl disconnects, then the members go: each thread is joined.
Destroy ==
    /\ pc[0] = "ready"
    /\ pc' = [pc EXCEPT ![0] = "destroy"]
    /\ conn' = Broken(Client)
    /\ UNCHANGED <<serverRest, sent, firstKeys, exclusive, holder, arg, asked,
                   got, cbmap, registered, overlapped, called>>

EndDestroy ==
    /\ pc[0] = "destroy"
    /\ \A i \in Callbacks : Started(i) => Ended(i)
    /\ pc' = [pc EXCEPT ![0] = "gone"]
    /\ UNCHANGED <<serverVars, exclusive, holder, arg, asked, got, cbmap,
                   registered, overlapped, called>>

-----------------------------------------------------------------------------
(* ResultThread *)

\* Mutant: the thread is started before its parameter has the query id.
RequestResultEarly(i) ==
    /\ pc[i] = "start"
    /\ BeginExchange(i, Request("result", Refused, Absent))
    /\ UNCHANGED <<serverRest, exclusive, arg, cbmap, registered, called>>

RequestResult(i) ==
    /\ pc[i] = "start"
    /\ BeginExchange(i, Request("result", arg[i], Absent))
    /\ UNCHANGED <<serverRest, exclusive, arg, cbmap, registered, called>>

RequestThrows(i) ==
    /\ pc[i] = "start"
    /\ ~Open
    /\ pc' = [pc EXCEPT ![i] = "failed"]
    /\ UNCHANGED <<serverVars, exclusive, holder, arg, asked, got, cbmap,
                   registered, overlapped, called>>

RecvResults(i) ==
    /\ EndExchange(i, "call")
    /\ UNCHANGED <<serverRest, sent, firstKeys, exclusive, arg, asked, cbmap,
                   registered, overlapped, called>>

RecvResultsThrows(i) ==
    /\ ExchangeFails(i, "failed")
    /\ UNCHANGED <<serverVars, exclusive, arg, asked, got, cbmap, registered,
                   overlapped, called>>

\* The callback runs with the ciphertexts read; another reply has none, and
\* vdata throws.
InvokeCallback(i) ==
    /\ pc[i] = "call"
    /\ IF got[i].kind = "result"
       THEN /\ called' = called \cup {[thread |-> i, id |-> arg[i],
                                       query |-> got[i].query]}
            /\ pc' = [pc EXCEPT ![i] = "done"]
       ELSE pc' = [pc EXCEPT ![i] = "failed"] /\ UNCHANGED called
    /\ UNCHANGED <<serverVars, exclusive, holder, arg, asked, got, cbmap,
                   registered, overlapped>>

-----------------------------------------------------------------------------
ClientInit ==
    /\ Init
    /\ exclusive \in BOOLEAN
    /\ holder = Absent
    /\ pc = [i \in Callers |-> IF i = 0 THEN "ready" ELSE "none"]
    /\ arg = [i \in Callers |-> NoId]
    /\ asked = [i \in Callers |-> 0]
    /\ got = [i \in Callers |-> Absent]
    /\ cbmap = [id \in QueryIds |-> 0]
    /\ registered = FALSE
    /\ overlapped = FALSE
    /\ called = {}

ResultThreadStep(i) ==
    \/ RequestResult(i) \/ RequestThrows(i) \/ RecvResults(i)
    \/ RecvResultsThrows(i) \/ InvokeCallback(i)

\* What the application's thread does once it is inside a call.
InsideCall ==
    \/ RecvQueryId \/ SendQueryThrows \/ SetCallback \/ EndWait \/ EndDestroy

ServerStep ==
    \/ Listen \/ StartThreads
    \/ HandlerStep(Client)
    \/ \E t \in Threads : ThreadStep(t)

ClientNext ==
    \/ ServerStep /\ UNCHANGED clientVars
    \/ (Connect(Client) \/ Break(Client)) /\ UNCHANGED clientVars
    \/ \E id \in KeyIds, keys \in KeySets : RegisterEncKeys(id, keys)
    \/ \E id \in KeyIds : SendQuery(id)
    \/ \E id \in QueryIds : Wait(id)
    \/ Destroy
    \/ InsideCall
    \/ \E i \in Callbacks : ResultThreadStep(i)

ClientSpec == ClientInit /\ [][ClientNext]_vars

\* Threads of both sides run; the application calls what it likes.  A thread
\* that waits for its turn to exchange is not overtaken for ever.
FairClientSpec ==
    /\ ClientSpec
    /\ WF_vars(ServerStep /\ UNCHANGED clientVars)
    /\ WF_vars(InsideCall)
    /\ \A i \in Callbacks : SF_vars(ResultThreadStep(i))

-----------------------------------------------------------------------------
(* Properties *)

\* Each exchange reads the reply to its own request, and each callback gets
\* a result of the query its id was returned for, unless two threads were
\* inside an exchange together (send_query and recv_results share client_).
OwnReplies ==
    ~overlapped =>
       /\ \A i \in Callers : got[i] # Absent => got[i].n = asked[i]
       /\ \A c \in called : ticket[c.query.n] = c.id

\* Callback i was set for a query that was accepted under an id no other
\* callback has, and nothing stands in its way.
Undisturbed(i) ==
    /\ exclusive /\ Open
    /\ \A j \in Callbacks : Started(j) => arg[j] \in Ids
    /\ \A j \in Callbacks \ {i} : Started(j) => arg[j] # arg[i]
    /\ \A t \in Threads : tpc[t] # "dead"

\* The callback of an accepted query is invoked: its result is computed,
\* asked for and received, whatever else the client does on the connection
\* (set_callback, ResultThread::exec, the three handlers, exec).
CallbacksRun ==
    \A i \in Callbacks : pc[i] = "start" ~> pc[i] = "done" \/ ~Undisturbed(i)

\* A client that is destroyed ends, whatever its threads wait for: closing
\* the connection lets go of them (disconnect in ~Impl, join in
\* ~ResultThread).
DestroyEnds == pc[0] = "destroy" ~> pc[0] = "gone"

\* Refuted: send_query returns a query id (ppcnn_client.hpp).  A query that
\* is refused gets the id -1 and a callback; the thread of that callback
\* waits for a result -1 for ever, and the next query with it.
SendQueryReturns ==
    pc[0] \in {"recv", "set_callback"} ~>
       \/ pc[0] \notin {"recv", "set_callback"}
       \/ ~exclusive \/ \E t \in Threads : tpc[t] = "dead"
=============================================================================
