----------------------------- MODULE CalcManager -----------------------------
(***************************************************************************)
(* The query engine of the computation server: class CalcManager, its      *)
(* QueryQueue and ResultQueue, and the calculation threads.                *)
(*                                                                         *)
(* Callers are the threads that call the manager's methods (in the server, *)
(* one connection handler each).  Every method runs concurrently with the  *)
(* others; a step below is a piece of code between two points at which     *)
(* another thread can be observed.                                         *)
(*                                                                         *)
(*   push_query    CallPush ReadQuerySize ReadResultSize Srand Rand        *)
(*                 CheckQueryKey EmplaceQuery ReturnId                     *)
(*   pop_result    CallPop PopResult ReturnResult                          *)
(*   cleanup_results  CallCleanup ScanResults EraseResult ReturnCleanup    *)
(*   CalcThread::exec TakeQuery Compute CheckResultKey EmplaceResult       *)
(***************************************************************************)
EXTENDS ConcurrentMapQueue

CONSTANTS
    Callers,               \* threads that call push_query and pop_result
    Cleaners,              \* callers that also call cleanup_results
    Threads,               \* the calculation threads of start_threads
    Queries,               \* query payloads, each pushed at most once
    BadQueries,            \* those whose computation throws
    MaxConcurrentQueries, MaxResults, ResultLifetimeSec,
    MaxClock,              \* bound: seconds of wall clock explored
    MaxDraws,              \* bound: rand() calls after one srand()
    Ids,                   \* 0 .. RAND_MAX, the values of rand()
    Rands                  \* Rands[s][n]: the n-th rand() after srand(s)

Refused == -1              \* the query_id of a query that was not queued
NoId    == -2              \* no query_id drawn yet
Seconds == 0 .. MaxClock

ASSUME ParametersAssumption ==
    /\ IsFiniteSet(Callers) /\ IsFiniteSet(Threads)
    /\ Callers # {} /\ Threads # {}
    /\ Cleaners \subseteq Callers
    /\ BadQueries \subseteq Queries
    /\ MaxConcurrentQueries \in Nat /\ MaxResults \in Nat
    /\ ResultLifetimeSec \in Nat
    /\ MaxClock \in Nat /\ MaxDraws \in Nat
    /\ Ids \subseteq Nat /\ IsFiniteSet(Ids)
    /\ Rands \in [Seconds -> [1 .. MaxDraws -> Ids]]

VARIABLES
    clock,      \* time(nullptr), in seconds
    rng,        \* the C library's generator: seed and draws since srand
    qque,       \* map_ of the QueryQueue
    rque,       \* map_ of the ResultQueue
    pc,         \* where each caller is
    query,      \* push_query's argument
    asked,      \* pop_result's query_id, or the cleaner's current one
    got,        \* the result pop_result has copied out
    expired,    \* cleanup_results' query_ids
    tpc,        \* where each calculation thread is
    job,        \* exec's query_id, query and the Result it has built
    ticket,     \* the query_id push_query drew (or refused) per query
    delivered,  \* history: the queries whose result some pop_result took
    cleaned     \* history: the queries whose result cleanup_results erased

callerVars == <<pc, query, asked, got, expired>>
threadVars == <<tpc, job>>
vars == <<clock, rng, qque, rque, pc, query, asked, got, expired, tpc, job,
          ticket, delivered, cleaned>>

Result == [query : Queries, created : Seconds]
Job    == [id : Ids, query : Queries, created : Seconds]

ASSUME AbsentAssumption == Absent \notin Queries \cup Result \cup Job

-----------------------------------------------------------------------------
(* Who may be inside a mutating call of a queue right now.                 *)

QueryWriters  == {c \in Callers : pc[c] = "emplace_query"}
ResultWriters == {t \in Threads : tpc[t] = "emplace_result"}

\* A poll that finds its key erases it; so does the cleanup loop.
ErasingCallers ==
    {c \in Callers : \/ pc[c] = "pop_result" /\ asked[c] \in Keys(rque)
                     \/ pc[c] = "erase_result" /\ expired[c] # {}}

\* An idle thread can be inside pop() whenever the queue is not empty.
QueryMapBusy(c) == \/ QueryWriters \ {c} # {}
                   \/ \E t \in Threads : tpc[t] = "take_query"

ResultMapBusy(t) == \/ ResultWriters \ {t} # {}
                    \/ ErasingCallers # {}

-----------------------------------------------------------------------------
(* push_query *)

Fresh(q) == ticket[q] = NoId /\ \A c \in Callers : query[c] # q

Goto(c, label) == pc' = [pc EXCEPT ![c] = label]

CallPush(c, q) ==
    /\ pc[c] = "idle"
    /\ Fresh(q)
    /\ query' = [query EXCEPT ![c] = q]
    /\ Goto(c, "read_query_size")
    /\ UNCHANGED <<clock, rng, qque, rque, asked, got, expired, threadVars,
                   ticket, delivered,
                   cleaned>>

Refuse(c) ==
    /\ ticket' = [ticket EXCEPT ![query[c]] = Refused]
    /\ Goto(c, "return_id")

\* Mutants: <= for <.
QueryRoomOffByOne  == Size(qque) <= MaxConcurrentQueries
ResultRoomOffByOne == Size(rque) <= MaxResults

HasQueryRoom  == Size(qque) < MaxConcurrentQueries
HasResultRoom == Size(rque) < MaxResults

\* qque_.size() is read without the queue's mutex ...
ReadQuerySize(c) ==
    /\ pc[c] = "read_query_size"
    /\ IF HasQueryRoom
       THEN Goto(c, "read_result_size") /\ UNCHANGED ticket
       ELSE Refuse(c)
    /\ UNCHANGED <<clock, rng, qque, rque, query, asked, got, expired,
                   threadVars, delivered, cleaned>>

\* ... and so is rque_.size(), after it.
ReadResultSize(c) ==
    /\ pc[c] = "read_result_size"
    /\ IF HasResultRoom
       THEN Goto(c, "srand") /\ UNCHANGED ticket
       ELSE Refuse(c)
    /\ UNCHANGED <<clock, rng, qque, rque, query, asked, got, expired,
                   threadVars, delivered, cleaned>>

\* gen_uuid: std::srand(std::time(nullptr)), then std::rand() on the
\* generator that every thread of the process shares.
Srand(c) ==
    /\ pc[c] = "srand"
    /\ rng' = [seed |-> clock, draws |-> 0]
    /\ Goto(c, "rand")
    /\ UNCHANGED <<clock, qque, rque, query, asked, got, expired, threadVars,
                   ticket, delivered,
                   cleaned>>

Rand(c) ==
    /\ pc[c] = "rand"
    /\ rng.draws < MaxDraws
    /\ rng' = [rng EXCEPT !.draws = @ + 1]
    /\ ticket' = [ticket EXCEPT ![query[c]] = Rands[rng.seed][rng.draws + 1]]
    /\ Goto(c, "check_query_key")
    /\ UNCHANGED <<clock, qque, rque, query, asked, got, expired, threadVars,
                   delivered, cleaned>>

\* ConcurrentMapQueue::push looks the key up before it takes the mutex; the
\* exception it throws for a key in use is caught in push_query.
CheckQueryKey(c) ==
    /\ pc[c] = "check_query_key"
    /\ \E found \in CountAnswers(qque, ticket[query[c]], QueryMapBusy(c)) :
          IF found THEN Refuse(c)
                   ELSE Goto(c, "emplace_query") /\ UNCHANGED ticket
    /\ UNCHANGED <<clock, rng, qque, rque, query, asked, got, expired,
                   threadVars, delivered, cleaned>>

EmplaceQuery(c) ==
    /\ pc[c] = "emplace_query"
    /\ qque' = Emplace(qque, ticket[query[c]], query[c])
    /\ Goto(c, "return_id")
    /\ UNCHANGED <<clock, rng, rque, query, asked, got, expired, threadVars,
                   ticket, delivered,
                   cleaned>>

\* The caller gets ticket[query[c]]; what it does with it is the server's.
ReturnId(c) ==
    /\ pc[c] = "return_id"
    /\ query' = [query EXCEPT ![c] = Absent]
    /\ Goto(c, "idle")
    /\ UNCHANGED <<clock, rng, qque, rque, asked, got, expired, threadVars,
                   ticket, delivered,
                   cleaned>>

-----------------------------------------------------------------------------
(* pop_result *)

\* The query ids that push_query has returned, Refused among them: nothing
\* stops a caller from asking for the result of a query that was refused.
ReturnedIds == {ticket[q] : q \in {p \in Queries :
                   ticket[p] # NoId /\ \A c \in Callers : query[c] # p}}

CallPop(c, id) ==
    /\ pc[c] = "idle"
    /\ id \in ReturnedIds
    /\ asked' = [asked EXCEPT ![c] = id]
    /\ Goto(c, "pop_result")
    /\ UNCHANGED <<clock, rng, qque, rque, query, got, expired, threadVars,
                   ticket, delivered,
                   cleaned>>

\* The loop polls every 100 ms and ends only when the id is in the map; a
\* failed poll changes nothing and is not a step.
PopResult(c) ==
    /\ pc[c] = "pop_result"
    /\ \E id \in Poppable(rque, asked[c]) :
          /\ got' = [got EXCEPT ![c] = rque[id].query]
          /\ delivered' = delivered \cup {rque[id].query}
          /\ rque' = Erase(rque, id)
    /\ Goto(c, "return_result")
    /\ UNCHANGED <<clock, rng, qque, query, asked, expired, threadVars, ticket,
                   cleaned>>

ReturnResult(c) ==
    /\ pc[c] = "return_result"
    /\ got' = [got EXCEPT ![c] = Absent]
    /\ asked' = [asked EXCEPT ![c] = NoId]
    /\ Goto(c, "idle")
    /\ UNCHANGED <<clock, rng, qque, rque, query, expired, threadVars, ticket,
                   delivered, cleaned>>

-----------------------------------------------------------------------------
(* cleanup_results *)

CallCleanup(c) ==
    /\ pc[c] = "idle"
    /\ Size(rque) >= MaxResults
    /\ Goto(c, "scan_results")
    /\ UNCHANGED <<clock, rng, qque, rque, query, asked, got, expired,
                   threadVars, ticket, delivered,
                   cleaned>>

\* Mutant: off by one.
IsExpiredEarly(id) == clock - rque[id].created >= ResultLifetimeSec - 1

IsExpired(id) == clock - rque[id].created >= ResultLifetimeSec

\* The iteration over rque_ holds no mutex; with a pop or a push under way
\* it can pass over entries.
ScanResults(c) ==
    /\ pc[c] = "scan_results"
    /\ LET due == {id \in Keys(rque) : IsExpired(id)}
           racing == ResultWriters # {} \/ ErasingCallers # {}
       IN  \E seen \in IF racing THEN SUBSET due ELSE {due} :
              expired' = [expired EXCEPT ![c] = seen]
    /\ Goto(c, "erase_result")
    /\ UNCHANGED <<clock, rng, qque, rque, query, asked, got, threadVars,
                   ticket, delivered,
                   cleaned>>

\* The second loop pops the collected ids one by one, in the map's order,
\* whatever is stored under them by then.
EraseResult(c) ==
    /\ pc[c] = "erase_result"
    /\ \E id \in expired[c] :
          /\ \A j \in expired[c] : id <= j
          /\ expired' = [expired EXCEPT ![c] = @ \ {id}]
          /\ rque' = Erase(rque, id)
          /\ cleaned' = cleaned \cup
                {q \in Queries : Holds(rque, id) /\ rque[id].query = q}
    /\ UNCHANGED <<clock, rng, qque, pc, query, asked, got, threadVars, ticket,
                   delivered>>

ReturnCleanup(c) ==
    /\ pc[c] = "erase_result"
    /\ expired[c] = {}
    /\ Goto(c, "idle")
    /\ UNCHANGED <<clock, rng, qque, rque, query, asked, got, expired,
                   threadVars, ticket, delivered,
                   cleaned>>

-----------------------------------------------------------------------------
(* CalcThread::exec *)

ThreadGoto(t, label) == tpc' = [tpc EXCEPT ![t] = label]

\* Mutant: the thread waits for room in the result queue first.
TakeQueryWhenRoom(t) ==
    /\ tpc[t] = "take_query"
    /\ HasResultRoom
    /\ \E id \in Front(qque) :
          /\ job' = [job EXCEPT ![t] =
                        [id |-> id, query |-> qque[id], created |-> clock]]
          /\ qque' = Erase(qque, id)
    /\ ThreadGoto(t, "compute")
    /\ UNCHANGED <<clock, rng, rque, callerVars, ticket, delivered, cleaned>>

\* pop(query_id, query) takes the entry with the least id.
TakeQuery(t) ==
    /\ tpc[t] = "take_query"
    /\ \E id \in Front(qque) :
          /\ job' = [job EXCEPT ![t] =
                        [id |-> id, query |-> qque[id], created |-> clock]]
          /\ qque' = Erase(qque, id)
    /\ ThreadGoto(t, "compute")
    /\ UNCHANGED <<clock, rng, rque, callerVars, ticket, delivered,
                   cleaned>>

\* Mutant: the exception is swallowed and the loop goes on.
ComputeSwallowing(t) ==
    /\ tpc[t] = "compute"
    /\ IF job[t].query \in BadQueries
       THEN /\ ThreadGoto(t, "take_query")
            /\ job' = [job EXCEPT ![t] = Absent]
       ELSE /\ ThreadGoto(t, "check_result_key")
            /\ job' = [job EXCEPT ![t].created = clock]
    /\ UNCHANGED <<clock, rng, qque, rque, callerVars, ticket, delivered,
                   cleaned>>

\* A missing model file, or a layer the network builder rejects, throws out
\* of exec; nothing in exec catches it and the thread ends.
Compute(t) ==
    /\ tpc[t] = "compute"
    /\ IF job[t].query \in BadQueries
       THEN ThreadGoto(t, "dead") /\ UNCHANGED job
       ELSE /\ ThreadGoto(t, "check_result_key")
            /\ job' = [job EXCEPT ![t].created = clock]
    /\ UNCHANGED <<clock, rng, qque, rque, callerVars, ticket, delivered,
                   cleaned>>

\* out_queue_.push throws for a key in use, and exec does not catch that
\* either.
CheckResultKey(t) ==
    /\ tpc[t] = "check_result_key"
    /\ \E found \in CountAnswers(rque, job[t].id, ResultMapBusy(t)) :
          ThreadGoto(t, IF found THEN "dead" ELSE "emplace_result")
    /\ UNCHANGED <<clock, rng, qque, rque, callerVars, job, ticket, delivered,
                   cleaned>>

EmplaceResult(t) ==
    /\ tpc[t] = "emplace_result"
    /\ rque' = Emplace(rque, job[t].id,
                       [query |-> job[t].query, created |-> job[t].created])
    /\ job' = [job EXCEPT ![t] = Absent]
    /\ ThreadGoto(t, "take_query")
    /\ UNCHANGED <<clock, rng, qque, callerVars, ticket, delivered,
                   cleaned>>

-----------------------------------------------------------------------------
Tick ==
    /\ clock < MaxClock
    /\ clock' = clock + 1
    /\ UNCHANGED <<rng, qque, rque, callerVars, threadVars, ticket, delivered,
                   cleaned>>

\* CalcManager's constructor and start_threads: empty queues, every thread
\* at the top of its loop.
Init ==
    /\ clock = 0
    /\ rng = [seed |-> 0, draws |-> 0]
    /\ qque = EmptyMap(Ids)
    /\ rque = EmptyMap(Ids)
    /\ pc = [c \in Callers |-> "idle"]
    /\ query = [c \in Callers |-> Absent]
    /\ asked = [c \in Callers |-> NoId]
    /\ got = [c \in Callers |-> Absent]
    /\ expired = [c \in Callers |-> {}]
    /\ tpc = [t \in Threads |-> "take_query"]
    /\ job = [t \in Threads |-> Absent]
    /\ ticket = [q \in Queries |-> NoId]
    /\ delivered = {}
    /\ cleaned = {}

PushStep(c) ==
    \/ ReadQuerySize(c) \/ ReadResultSize(c) \/ Srand(c) \/ Rand(c)
    \/ CheckQueryKey(c) \/ EmplaceQuery(c) \/ ReturnId(c)

PopStep(c) == PopResult(c) \/ ReturnResult(c)

CleanupStep(c) == ScanResults(c) \/ EraseResult(c) \/ ReturnCleanup(c)

\* The steps a caller inside a method will take.
CallerStep(c) == PushStep(c) \/ PopStep(c) \/ CleanupStep(c)

ThreadStep(t) ==
    TakeQuery(t) \/ Compute(t) \/ CheckResultKey(t) \/ EmplaceResult(t)

Call(c) ==
    \/ \E q \in Queries : CallPush(c, q)
    \/ \E id \in Ids \cup {Refused} : CallPop(c, id)
    \/ c \in Cleaners /\ CallCleanup(c)

Next ==
    \/ Tick
    \/ \E c \in Callers : Call(c) \/ CallerStep(c)
    \/ \E t \in Threads : ThreadStep(t)

Spec == Init /\ [][Next]_vars

\* The operating system runs every thread that is not waiting; nothing makes
\* a client call.
Fairness ==
    /\ \A c \in Callers : WF_vars(CallerStep(c))
    /\ \A t \in Threads : WF_vars(ThreadStep(t))

-----------------------------------------------------------------------------
(* Where a caller and a query are. *)

CheckedQuerySize  == {"read_result_size", "srand", "rand", "check_query_key",
                      "emplace_query"}
CheckedResultSize == CheckedQuerySize \ {"read_result_size"}
PushLabels == CheckedQuerySize \cup {"read_query_size", "return_id"}
HasDrawn   == {"check_query_key", "emplace_query"}

Pushing(q) == \E c \in Callers : query[c] = q
Queued(q)  == \E id \in Ids : qque[id] = q
RunsOn(t, q) == job[t] # Absent /\ job[t].query = q
Running(q) == \E t \in Threads : RunsOn(t, q)
Ready(q)   == \E id \in Keys(rque) : rque[id].query = q

Accepted(q) == ticket[q] \in Ids /\ ~Pushing(q)

\* Between gen_uuid and the end of emplace the id may still be refused.
Choosing(q) == \E c \in Callers : query[c] = q /\ pc[c] \in HasDrawn

\* Another query was accepted with the same id: both in one second, or
\* unlucky.
Collides(q) == \E p \in Queries \ {q} : ticket[p] = ticket[q] /\ ~Choosing(p)

\* Every variable ranges over the values the code's types allow.
TypeOK ==
    /\ clock \in Seconds
    /\ rng \in [seed : Seconds, draws : 0 .. MaxDraws]
    /\ qque \in [Ids -> Queries \cup {Absent}]
    /\ rque \in [Ids -> Result \cup {Absent}]
    /\ pc \in [Callers -> PushLabels \cup {"idle", "pop_result",
                  "return_result", "scan_results", "erase_result"}]
    /\ query \in [Callers -> Queries \cup {Absent}]
    /\ asked \in [Callers -> Ids \cup {Refused, NoId}]
    /\ got \in [Callers -> Queries \cup {Absent}]
    /\ expired \in [Callers -> SUBSET Ids]
    /\ tpc \in [Threads -> {"take_query", "compute", "check_result_key",
                            "emplace_result", "dead"}]
    /\ job \in [Threads -> Job \cup {Absent}]
    /\ ticket \in [Queries -> Ids \cup {Refused, NoId}]
    /\ delivered \subseteq Queries
    /\ cleaned \subseteq Queries

\* push_query tests the queue's size and queues later, without holding
\* anything in between: every caller may slip past the test together, and
\* no further than that.
QueryCapacity == Size(qque) <= MaxConcurrentQueries + Cardinality(Callers) - 1

\* The result queue's size is tested when a query is admitted, not when its
\* result is stored: what is queued and being computed comes on top.
ResultCapacity ==
    Size(rque) <= MaxResults + MaxConcurrentQueries
                  + Cardinality(Callers) + Cardinality(Threads) - 2

\* No query is computed by two threads, or again after it left the queue, and
\* no result is handed out twice, whatever ids were drawn.
ComputedOnce ==
    \A q \in Queries :
       /\ Queued(q) => ~Running(q) /\ ~Ready(q)
       /\ \A t, u \in Threads : RunsOn(t, q) /\ RunsOn(u, q) => t = u
       /\ Running(q) => ~Ready(q)
       /\ q \in delivered \cup cleaned =>
             ~Queued(q) /\ ~Running(q) /\ ~Ready(q)
       /\ q \notin delivered \cap cleaned

\* A query whose id was returned to its caller is somewhere until its result
\* is collected, unless its id was also drawn by another query: then emplace
\* may have ignored it.
NothingLost ==
    \A q \in Queries :
       Accepted(q) => \/ Queued(q) \/ Running(q) \/ Ready(q)
                      \/ q \in delivered \cup cleaned
                      \/ Collides(q)

\* pop_result(id) hands out the result of a query that was accepted as id.
OwnResult ==
    \A c \in Callers : got[c] # Absent => ticket[got[c]] = asked[c]

\* A calculation thread ends only because its computation threw or because
\* its query shares its id with another.
DeathHasACause ==
    \A t \in Threads :
       tpc[t] = "dead" =>
          job[t].query \in BadQueries \/ Collides(job[t].query)

\* cleanup_results erases only results past their lifetime, although it pops
\* by id what it judged by value earlier: the id would have to be reused.
CleanedWereExpired ==
    [][\A id \in Ids :
          (Holds(rque, id) /\ rque[id].query \in cleaned' \ cleaned) =>
             \/ clock - rque[id].created >= ResultLifetimeSec
             \/ Collides(rque[id].query)]_vars

\* What is stored under an id is never replaced by something else, however
\* the pushes race: it leaves before the id is used again.
EntriesAreFinal ==
    [][\A id \in Ids :
          /\ Holds(qque, id) => qque'[id] \in {qque[id], Absent}
          /\ Holds(rque, id) => rque'[id] \in {rque[id], Absent}]_vars

\* pop takes the least id, and ids are random: a query waits for every smaller
\* id, those that arrive after it included.
Overtaken(q) == Queued(q) /\ \E id \in Keys(qque) : id < ticket[q]

\* A queued query's result gets ready, unless its computation throws, its id
\* collides, no calculation thread is left, or smaller ids are in the queue
\* again and again: while arrivals do not end nothing keeps a query with a
\* large id from being passed for ever (begin() of the map, in pop).
QueuedIsComputed ==
    \A q \in Queries :
       \/ []<>Overtaken(q)
       \/ Queued(q) ~> \/ Ready(q) \/ q \in delivered \cup cleaned
                       \/ q \in BadQueries /\ Running(q)
                       \/ Collides(q)
                       \/ \A t \in Threads : tpc[t] = "dead"

\* A ready result that some caller is polling for does not stay: the poll
\* finds it wherever it is in the map.
PolledIsCollected ==
    \A q \in Queries, c \in Callers :
       (pc[c] = "pop_result" /\ asked[c] = ticket[q] /\ Ready(q))
          ~> q \in delivered \cup cleaned

-----------------------------------------------------------------------------
(* The inductive invariant behind the safety properties. *)

\* A caller has a query exactly while it pushes one, no two the same one, and
\* a thread has a job exactly while it is busy.
LocalsOK ==
    /\ \A c \in Callers :
          /\ query[c] # Absent <=> pc[c] \in PushLabels
          /\ pc[c] \in HasDrawn => ticket[query[c]] \in Ids
          /\ pc[c] \in PushLabels \ (HasDrawn \cup {"return_id"}) =>
                ticket[query[c]] = NoId
          /\ got[c] # Absent <=> pc[c] = "return_result"
          /\ got[c] # Absent => got[c] \in delivered
          /\ \A d \in Callers : query[c] # Absent /\ query[c] = query[d] => c = d
    /\ \A t \in Threads : job[t] = Absent <=> tpc[t] = "take_query"

\* What is stored or computed under an id drew that id, and is past its push.
PlacedOK ==
    \A q \in Queries :
       /\ \A id \in Ids : qque[id] = q => ticket[q] = id
       /\ \A t \in Threads : RunsOn(t, q) => ticket[q] = job[t].id
       /\ \A id \in Keys(rque) : rque[id].query = q => ticket[q] = id
       /\ q \in delivered \cup cleaned => ticket[q] \in Ids
       /\ Choosing(q) =>
             /\ ~Queued(q) /\ ~Running(q) /\ ~Ready(q)
             /\ q \notin delivered \cup cleaned

\* Admission counts: the callers that have passed a size test and not yet
\* queued are charged to the queue they were admitted to.
PendingCallers  == {c \in Callers : pc[c] \in CheckedQuerySize}
AdmittedCallers == {c \in Callers : pc[c] \in CheckedResultSize}
BusyThreads     == {t \in Threads : tpc[t] # "take_query"}

AdmissionOK ==
    /\ Size(qque) + Cardinality(PendingCallers)
          <= MaxConcurrentQueries + Cardinality(Callers) - 1
    /\ Size(rque) + Cardinality(BusyThreads) + Size(qque)
          + Cardinality(AdmittedCallers)
          <= MaxResults + MaxConcurrentQueries
             + Cardinality(Callers) + Cardinality(Threads) - 2

\* From emplace on a query is somewhere, or its id is shared.
AcceptedOK ==
    \A q \in Queries :
       ticket[q] \in Ids /\ ~Choosing(q) =>
          \/ Queued(q) \/ Running(q) \/ Ready(q)
          \/ q \in delivered \cup cleaned
          \/ Collides(q)

\* The inductive invariant: it implies every safety invariant above.
IndInv == /\ TypeOK /\ LocalsOK /\ PlacedOK /\ ComputedOnce
          /\ AdmissionOK /\ AcceptedOK /\ OwnResult /\ DeathHasACause
=============================================================================
