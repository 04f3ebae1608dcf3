--------------------------- MODULE CalcManagerLife ---------------------------
(***************************************************************************)
(* CalcManager implements QueryLifecycle: where a query is, read off the   *)
(* queues, the threads' jobs and the tickets.                              *)
(***************************************************************************)
EXTENDS CalcManager

\* From the end of emplace on, a query has an id.
LifeId == [q \in Queries |->
              IF ticket[q] \in Ids /\ ~Choosing(q) THEN ticket[q] ELSE NoId]

LifeWorker == [t \in Threads |->
                  IF job[t] = Absent THEN Absent ELSE job[t].query]

LifePhase == [q \in Queries |->
    IF q \in delivered   THEN "collected"
    ELSE IF q \in cleaned THEN "expired"
    ELSE IF Ready(q)     THEN "ready"
    ELSE IF \E t \in Threads : RunsOn(t, q) /\ tpc[t] = "dead" THEN "failed"
    ELSE IF Running(q)   THEN "computing"
    ELSE IF Queued(q)    THEN "queued"
    ELSE IF ticket[q] = Refused THEN "refused"
    ELSE IF LifeId[q] \in Ids THEN "dropped"
    ELSE IF Pushing(q)   THEN "offered"
    ELSE "new"]

Life == INSTANCE QueryLifecycle
          WITH phase <- LifePhase, id <- LifeId, worker <- LifeWorker,
               Faulty <- BadQueries, Workers <- Threads, NoQuery <- Absent

\* Every step of the manager, whatever the interleaving, is a step of some
\* query's life or changes nobody's.
KeepsLifecycle == Life!Spec

\* Under the scheduler's fairness the lives of queries go on: each one offered
\* is settled, some queued one is started while a thread is idle, and each one
\* started is concluded (the fairness of the abstract specification, whose
\* steps are those of KeepsLifecycle).
LivesOn == Life!Fairness
=============================================================================
