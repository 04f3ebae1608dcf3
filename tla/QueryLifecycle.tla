--------------------------- MODULE QueryLifecycle ---------------------------
(***************************************************************************)
(* What CalcManager promises the threads that call it, with no map, lock   *)
(* or poll in sight: a query is settled once, computed at most once by one *)
(* worker, and its result leaves at most once, by a poll or by expiry.     *)
(* The ways in which a query can vanish after its id was returned are part *)
(* of the promise: another query with the same id is ahead of it.          *)
(***************************************************************************)
CONSTANTS
    Queries,
    Faulty,        \* the queries whose computation throws
    Workers,
    NoQuery,       \* what an idle worker works on
    Ids,
    NoId           \* the id of a query that is not queued yet, or refused

VARIABLES
    phase,         \* where each query is in its life
    id,            \* the id each query was queued with
    worker         \* what each worker works on

lifeVars == <<phase, id, worker>>

\* Some other query in phase ph has the id x.
Shared(q, x, ph) == \E p \in Queries \ {q} : id[p] = x /\ phase[p] = ph

Move(q, from, to) == phase[q] = from /\ phase' = [phase EXCEPT ![q] = to]

Offer(q) == Move(q, "new", "offered") /\ UNCHANGED <<id, worker>>

Refuse(q) == Move(q, "offered", "refused") /\ UNCHANGED <<id, worker>>

Accept(q, x) ==
    /\ id' = [id EXCEPT ![q] = x]
    /\ IF Shared(q, x, "queued") THEN Move(q, "offered", "dropped")
                                 ELSE Move(q, "offered", "queued")
    /\ UNCHANGED worker

Start(q, w) ==
    /\ worker[w] = NoQuery
    /\ Move(q, "queued", "computing")
    /\ worker' = [worker EXCEPT ![w] = q]
    /\ UNCHANGED id

Finish(q, w) ==
    /\ worker[w] = q
    /\ IF Shared(q, id[q], "ready") THEN Move(q, "computing", "dropped")
                                    ELSE Move(q, "computing", "ready")
    /\ worker' = [worker EXCEPT ![w] = NoQuery]
    /\ UNCHANGED id

\* The worker is gone with its query.
Fail(q, w) ==
    /\ worker[w] = q
    /\ q \in Faulty \/ Shared(q, id[q], "ready")
    /\ Move(q, "computing", "failed")
    /\ UNCHANGED <<id, worker>>

Collect(q) == Move(q, "ready", "collected") /\ UNCHANGED <<id, worker>>

Expire(q) == Move(q, "ready", "expired") /\ UNCHANGED <<id, worker>>

Settle(q)     == Refuse(q) \/ \E x \in Ids : Accept(q, x)
Begin         == \E q \in Queries, w \in Workers : Start(q, w)
Conclude(q)   == \E w \in Workers : Finish(q, w) \/ Fail(q, w)

Init ==
    /\ phase = [q \in Queries |-> "new"]
    /\ id = [q \in Queries |-> NoId]
    /\ worker = [w \in Workers |-> NoQuery]

Next ==
    \/ \E q \in Queries :
          \/ Offer(q) \/ Settle(q) \/ Conclude(q) \/ Collect(q) \/ Expire(q)
    \/ Begin

Spec == Init /\ [][Next]_lifeVars

\* An offered query is settled, some queued one started while a worker is
\* idle, and a started one concluded.  Which queued one is left open: no query
\* is promised its turn while others keep coming.
Fairness ==
    /\ \A q \in Queries : WF_lifeVars(Settle(q)) /\ WF_lifeVars(Conclude(q))
    /\ WF_lifeVars(Begin)

FairSpec == Spec /\ Fairness
=============================================================================
