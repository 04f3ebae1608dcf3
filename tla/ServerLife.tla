----------------------------- MODULE ServerLife -----------------------------
(***************************************************************************)
(* The server implements QueryLifecycle, too: a query is offered by its    *)
(* handler, and collected by the handler of a result request, whatever     *)
(* connections break in between.                                           *)
(***************************************************************************)
EXTENDS Server

LifeIn(map, n) == \E id \in Ids : map[id] # Absent /\ map[id].n = n

LifeWorker == [t \in Threads |->
                  IF job[t] = Absent THEN Absent ELSE job[t].query.n]

LifeId == [n \in Numbers |-> IF ticket[n] \in Ids THEN ticket[n] ELSE NoId]

LifePhase == [n \in Numbers |->
    IF collector[n] # Absent THEN "collected"
    ELSE IF LifeIn(rque, n) THEN "ready"
    ELSE IF \E t \in Threads : LifeWorker[t] = n /\ tpc[t] = "dead"
         THEN "failed"
    ELSE IF \E t \in Threads : LifeWorker[t] = n THEN "computing"
    ELSE IF LifeIn(qque, n) THEN "queued"
    ELSE IF ticket[n] = Refused THEN "refused"
    ELSE IF \E c \in Connections : At(c, "push") /\ handler[c].query.n = n
         THEN "offered"
    ELSE "new"]

Life == INSTANCE QueryLifecycle
          WITH phase <- LifePhase, id <- LifeId, worker <- LifeWorker,
               Queries <- Numbers, Faulty <- BadQueries, Workers <- Threads,
               NoQuery <- Absent

\* What a query goes through never leaves its course, while handlers are
\* interrupted by each other, by threads that die and by connections that
\* break: it is computed by one thread, its result is popped once, and after
\* a refusal or a failure nothing happens to it any more (the handlers and
\* exec against QueryLifecycle).
KeepsServing == Life!Spec

\* Once its handler has found the keys a query's life goes on to its end, with
\* or without its connection: it is settled, started while a thread is left,
\* and concluded (the handlers, start and exec against QueryLifecycle).
ServesLifecycle == Life!FairSpec
=============================================================================
