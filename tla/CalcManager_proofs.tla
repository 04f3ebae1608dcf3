-------------------------- MODULE CalcManager_proofs --------------------------
(***************************************************************************)
(* Theorems about CalcManager, for any sets of callers, threads and        *)
(* queries, any limits and any generator: its invariants, what             *)
(* cleanup_results may erase, and that it implements QueryLifecycle.       *)
(***************************************************************************)
EXTENDS CalcManagerLife, FiniteSetTheorems, TLAPS

-----------------------------------------------------------------------------
(* What the queue's operations do to its set of keys and to its size *)

\* emplace adds its key and keeps what is stored under every other.
LEMMA EmplaceKeys ==
  ASSUME NEW K, NEW R,
         NEW map \in [K -> R], NEW key \in K, NEW val \in R, val # Absent
  PROVE  /\ Emplace(map, key, val) \in [K -> R]
         /\ Keys(Emplace(map, key, val)) = Keys(map) \cup {key}
         /\ \A k \in K : Emplace(map, key, val)[k] =
               IF k = key /\ key \notin Keys(map) THEN val ELSE map[k]
  BY DEF Emplace, Keys, Holds

\* The size of a map over finitely many keys is a number.
LEMMA SizeIsNat ==
  ASSUME NEW K, IsFiniteSet(K), NEW R, NEW map \in [K -> R]
  PROVE  IsFiniteSet(Keys(map)) /\ Size(map) \in Nat
<1>1. Keys(map) \subseteq K
  BY DEF Keys
<1>2. IsFiniteSet(Keys(map))
  BY <1>1, FS_Subset
<1> QED
  BY <1>2, FS_CardinalityType DEF Size

\* emplace adds at most one entry.
LEMMA EmplaceSize ==
  ASSUME NEW K, IsFiniteSet(K), NEW R, Absent \in R,
         NEW map \in [K -> R], NEW key \in K, NEW val \in R, val # Absent
  PROVE  Size(Emplace(map, key, val)) \in {Size(map), Size(map) + 1}
<1>1. Keys(Emplace(map, key, val)) = Keys(map) \cup {key}
  BY DEF Emplace, Keys, Holds
<1>2. IsFiniteSet(Keys(map))
  BY SizeIsNat
<1>3. Cardinality(Keys(map) \cup {key}) =
         IF key \in Keys(map) THEN Cardinality(Keys(map))
                              ELSE Cardinality(Keys(map)) + 1
  BY <1>2, FS_AddElement
<1> QED
  BY <1>1, <1>3 DEF Size

\* erase of a key in use removes exactly one entry.
LEMMA EraseSize ==
  ASSUME NEW K, IsFiniteSet(K), NEW R, Absent \in R,
         NEW map \in [K -> R], NEW key \in Keys(map)
  PROVE  Size(Erase(map, key)) = Size(map) - 1
<1>1. key \in K
  BY DEF Keys
<1>2. Keys(Erase(map, key)) = Keys(map) \ {key}
  BY <1>1 DEF Erase, Keys
<1>3. IsFiniteSet(Keys(map))
  BY SizeIsNat
<1>4. Cardinality(Keys(map) \ {key}) = Cardinality(Keys(map)) - 1
  BY <1>3, FS_RemoveElement
<1> QED
  BY <1>2, <1>4 DEF Size

\* erase of any key never adds an entry.
LEMMA EraseAnySize ==
  ASSUME NEW K, IsFiniteSet(K), NEW R, Absent \in R,
         NEW map \in [K -> R], NEW key \in K
  PROVE  Size(Erase(map, key)) <= Size(map)
<1>1. CASE key \in Keys(map)
  BY <1>1, EraseSize, SizeIsNat
<1>2. CASE key \notin Keys(map)
  <2>1. Keys(Erase(map, key)) = Keys(map)
    BY <1>2 DEF Erase, Keys
  <2> QED
    BY <2>1, SizeIsNat DEF Size
<1> QED
  BY <1>1, <1>2

-----------------------------------------------------------------------------
(* Types and locals *)

\* The two marks are no ids.
LEMMA MarksAreNoIds == NoId \notin Ids /\ Refused \notin Ids
  BY ParametersAssumption DEF NoId, Refused

\* The system starts with types and locals in order.
LEMMA InitTypes == Init => TypeOK /\ LocalsOK
  BY ParametersAssumption
     DEF Init, TypeOK, LocalsOK, EmptyMap, Seconds, PushLabels,
         CheckedQuerySize, HasDrawn

\* Within the bound, rand() has a value.
LEMMA RandIsAnId ==
  ASSUME TypeOK, rng.draws < MaxDraws
  PROVE  /\ Rands[rng.seed][rng.draws + 1] \in Ids
         /\ rng.draws + 1 \in 0 .. MaxDraws
<1>1. rng \in [seed : Seconds, draws : 0 .. MaxDraws]
  BY DEF TypeOK
<1>2. rng.seed \in Seconds /\ rng.draws \in 0 .. MaxDraws
  BY <1>1
<1>3. rng.draws + 1 \in 1 .. MaxDraws
  BY <1>2, ParametersAssumption
<1> QED
  BY <1>2, <1>3, ParametersAssumption

\* Refusing a query changes its caller's place and the query's ticket only.
LEMMA RefuseTypes ==
  ASSUME TypeOK, LocalsOK, NEW c \in Callers,
         pc[c] \in {"read_query_size", "read_result_size", "check_query_key"},
         Refuse(c),
         UNCHANGED <<clock, rng, qque, rque, query, asked, got, expired,
                     threadVars, delivered, cleaned>>
  PROVE  TypeOK' /\ LocalsOK'
<1> USE DEF Refuse, Goto, threadVars, PushLabels, CheckedQuerySize, HasDrawn
<1>1. query[c] \in Queries
  BY DEF TypeOK, LocalsOK
<1>2. TypeOK'
  BY <1>1 DEF TypeOK
<1>3. ASSUME NEW d \in Callers, d # c, query[d] # Absent
      PROVE  ticket'[query[d]] = ticket[query[d]]
  BY <1>1, <1>3 DEF TypeOK, LocalsOK
<1>4. LocalsOK'
  BY <1>1, <1>3 DEF TypeOK, LocalsOK
<1> QED
  BY <1>2, <1>4

\* A step of a caller keeps the types and the control state consistent.
LEMMA CallerTypes ==
  ASSUME TypeOK, LocalsOK, NEW c \in Callers, Call(c) \/ CallerStep(c)
  PROVE  TypeOK' /\ LocalsOK'
<1> USE ParametersAssumption, AbsentAssumption
    DEF TypeOK, LocalsOK, Goto, threadVars, PushLabels, CheckedQuerySize,
        HasDrawn, Refused, NoId
<1>1. ASSUME NEW q \in Queries, CallPush(c, q) PROVE TypeOK' /\ LocalsOK'
  BY <1>1 DEF CallPush, Fresh
<1>2. ASSUME NEW id \in Ids \cup {Refused}, CallPop(c, id)
      PROVE  TypeOK' /\ LocalsOK'
  BY <1>2 DEF CallPop
<1>3. CASE CallCleanup(c)
  BY <1>3 DEF CallCleanup
<1>4. CASE ReadQuerySize(c)
  <2>1. CASE HasQueryRoom
    <3>1. /\ pc[c] = "read_query_size"
          /\ pc' = [pc EXCEPT ![c] = "read_result_size"]
          /\ UNCHANGED <<clock, rng, qque, rque, query, asked, got, expired, tpc,
                         job, ticket, delivered, cleaned>>
      BY <1>4, <2>1 DEF ReadQuerySize
    <3>2. TypeOK'
      BY <3>1
    <3>3. LocalsOK'
      BY <3>1
    <3> QED
      BY <3>2, <3>3
  <2>2. CASE ~HasQueryRoom
    BY <1>4, <2>2, RefuseTypes DEF ReadQuerySize
  <2> QED
    BY <2>1, <2>2
<1>5. CASE ReadResultSize(c)
  <2>1. CASE HasResultRoom
    <3>1. /\ pc[c] = "read_result_size"
          /\ pc' = [pc EXCEPT ![c] = "srand"]
          /\ UNCHANGED <<clock, rng, qque, rque, query, asked, got, expired, tpc,
                         job, ticket, delivered, cleaned>>
      BY <1>5, <2>1 DEF ReadResultSize
    <3>2. TypeOK'
      BY <3>1
    <3>3. LocalsOK'
      BY <3>1
    <3> QED
      BY <3>2, <3>3
  <2>2. CASE ~HasResultRoom
    BY <1>5, <2>2, RefuseTypes DEF ReadResultSize
  <2> QED
    BY <2>1, <2>2
<1>6. CASE Srand(c)
  BY <1>6 DEF Srand
<1>7. CASE Rand(c)
  <2>1. /\ Rands[rng.seed][rng.draws + 1] \in Ids
        /\ rng.draws + 1 \in 0 .. MaxDraws
    BY <1>7, RandIsAnId DEF Rand
  <2>2. query[c] \in Queries
    BY <1>7 DEF Rand
  <2>3. TypeOK'
    BY <1>7, <2>1, <2>2 DEF Rand
  <2>4. ASSUME NEW d \in Callers, d # c, query[d] # Absent
        PROVE  ticket'[query[d]] = ticket[query[d]]
    BY <1>7, <2>2, <2>4 DEF Rand
  <2>5. LocalsOK'
    BY <1>7, <2>1, <2>2, <2>4 DEF Rand
  <2> QED
    BY <2>3, <2>5
<1>8. CASE CheckQueryKey(c)
  <2>1. CASE Refuse(c)
    BY <1>8, <2>1, RefuseTypes DEF CheckQueryKey
  <2>2. CASE Goto(c, "emplace_query") /\ UNCHANGED ticket
    BY <1>8, <2>2 DEF CheckQueryKey
  <2> QED
    BY <1>8, <2>1, <2>2 DEF CheckQueryKey
<1>9. CASE EmplaceQuery(c)
  BY <1>9 DEF EmplaceQuery, Emplace, Holds
<1>10. CASE ReturnId(c)
  BY <1>10 DEF ReturnId
<1>11. CASE PopResult(c)
  BY <1>11 DEF PopResult, Poppable, Keys, Erase, Result
<1>12. CASE ReturnResult(c)
  BY <1>12 DEF ReturnResult
<1>13. CASE ScanResults(c)
  BY <1>13 DEF ScanResults, Keys
<1>14. CASE EraseResult(c)
  BY <1>14 DEF EraseResult, Erase
<1>15. CASE ReturnCleanup(c)
  BY <1>15 DEF ReturnCleanup
<1> QED
  BY <1>1, <1>2, <1>3, <1>4, <1>5, <1>6, <1>7, <1>8, <1>9, <1>10, <1>11,
     <1>12, <1>13, <1>14, <1>15
  DEF Call, CallerStep, PushStep, PopStep, CleanupStep

\* So does a step of a calculation thread.
LEMMA ThreadTypes ==
  ASSUME TypeOK, LocalsOK, NEW t \in Threads, ThreadStep(t)
  PROVE  TypeOK' /\ LocalsOK'
<1> USE ParametersAssumption, AbsentAssumption
    DEF TypeOK, LocalsOK, ThreadGoto, callerVars, Job, Result
<1>1. CASE TakeQuery(t)
  BY <1>1 DEF TakeQuery, Front, Keys, Erase
<1>2. CASE Compute(t)
  <2>1. job[t] \in Job
    BY <1>2 DEF Compute
  <2>2. [job[t] EXCEPT !.created = clock] \in Job
    BY <2>1
  <2>3. CASE job[t].query \in BadQueries
    <3>1. /\ tpc[t] = "compute"
          /\ tpc' = [tpc EXCEPT ![t] = "dead"]
          /\ UNCHANGED <<clock, rng, qque, rque, pc, query, asked, got, expired,
                         job, ticket, delivered, cleaned>>
      BY <1>2, <2>3 DEF Compute
    <3> HIDE DEF Job, Result
    <3>2. TypeOK'
      BY <3>1
    <3>3. LocalsOK'
      BY <3>1
    <3> QED
      BY <3>2, <3>3
  <2>4. CASE job[t].query \notin BadQueries
    <3> DEFINE built == [job[t] EXCEPT !.created = clock]
    <3>1. built \in Job /\ built # Absent
      BY <2>2
    <3>2. /\ tpc[t] = "compute"
          /\ tpc' = [tpc EXCEPT ![t] = "check_result_key"]
          /\ job' = [job EXCEPT ![t] = built]
          /\ UNCHANGED <<clock, rng, qque, rque, pc, query, asked, got, expired,
                         ticket, delivered, cleaned>>
      BY <1>2, <2>4 DEF Compute
    <3> HIDE DEF built, Job
    <3>3. TypeOK'
      BY <3>1, <3>2
    <3>4. LocalsOK'
      BY <3>1, <3>2
    <3> QED
      BY <3>3, <3>4
  <2> QED
    BY <2>3, <2>4
<1>3. CASE CheckResultKey(t)
  BY <1>3 DEF CheckResultKey
<1>4. CASE EmplaceResult(t)
  BY <1>4 DEF EmplaceResult, Emplace, Holds
<1> QED
  BY <1>1, <1>2, <1>3, <1>4 DEF ThreadStep

\* Every variable keeps its type, and the locals of callers and threads agree
\* with where they are.
THEOREM TypeCorrect == Spec => [](TypeOK /\ LocalsOK)
<1>1. Init => TypeOK /\ LocalsOK
  BY InitTypes
<1>2. TypeOK /\ LocalsOK /\ [Next]_vars => (TypeOK /\ LocalsOK)'
  <2> SUFFICES ASSUME TypeOK, LocalsOK, [Next]_vars
               PROVE  TypeOK' /\ LocalsOK'
    OBVIOUS
  <2>1. CASE Tick
    BY <2>1, ParametersAssumption
       DEF Tick, TypeOK, LocalsOK, Seconds, callerVars, threadVars
  <2>2. ASSUME NEW c \in Callers, Call(c) \/ CallerStep(c)
        PROVE  TypeOK' /\ LocalsOK'
    BY <2>2, CallerTypes
  <2>3. ASSUME NEW t \in Threads, ThreadStep(t)
        PROVE  TypeOK' /\ LocalsOK'
    BY <2>3, ThreadTypes
  <2>4. CASE UNCHANGED vars
    BY <2>4 DEF vars, TypeOK, LocalsOK
  <2> QED
    BY <2>1, <2>2, <2>3, <2>4 DEF Next
<1> QED
  BY <1>1, <1>2, PTL DEF Spec

-----------------------------------------------------------------------------
(* Where a query is *)

\* A step that moves no query, and leaves the ids alone, keeps every query
\* where it is.
LEMMA QuietStep ==
  ASSUME PlacedOK, ComputedOnce, AcceptedOK,
         UNCHANGED <<qque, rque, ticket, delivered, cleaned>>,
         \A q \in Queries : Choosing(q)' <=> Choosing(q),
         \A t \in Threads, q \in Queries :
            /\ RunsOn(t, q)' <=> RunsOn(t, q)
            /\ job'[t].id = job[t].id
  PROVE  PlacedOK' /\ ComputedOnce' /\ AcceptedOK'
<1> USE DEF Queued, Running, Ready
<1>1. PlacedOK'
  BY DEF PlacedOK, Keys
<1>2. ComputedOnce'
  BY DEF ComputedOnce, Keys
<1>3. AcceptedOK'
  BY DEF AcceptedOK, Collides, Keys
<1> QED
  BY <1>1, <1>2, <1>3

\* A query without an id is nowhere, and one being queued is nowhere yet.
LEMMA NotYetPlaced ==
  ASSUME PlacedOK, NEW q \in Queries, ticket[q] \notin Ids \/ Choosing(q),
         TypeOK
  PROVE  ~Queued(q) /\ ~Running(q) /\ ~Ready(q) /\ q \notin delivered \cup cleaned
<1>1. CASE Choosing(q)
  BY <1>1 DEF PlacedOK
<1>2. CASE ticket[q] \notin Ids
  BY <1>2 DEF PlacedOK, Queued, Running, Ready, Keys, RunsOn, TypeOK, Job
<1> QED
  BY <1>1, <1>2

\* A query that is refused was nowhere, and its id kept nothing alive.
LEMMA RefuseKeepsPlaces ==
  ASSUME TypeOK, LocalsOK, PlacedOK, ComputedOnce, AcceptedOK,
         NEW c \in Callers,
         pc[c] \in {"read_query_size", "read_result_size", "check_query_key"},
         Refuse(c),
         UNCHANGED <<qque, rque, query, job, delivered, cleaned>>
  PROVE  PlacedOK' /\ ComputedOnce' /\ AcceptedOK'
<1> DEFINE q == query[c]
<1> USE DEF Queued, Running, Ready, RunsOn, Refuse, Goto
<1>1. /\ q \in Queries
      /\ ticket[q] \notin Ids \/ Choosing(q)
  BY ParametersAssumption
  DEF TypeOK, LocalsOK, PushLabels, CheckedQuerySize, HasDrawn, Choosing, NoId
<1>2. ~Queued(q) /\ ~Running(q) /\ ~Ready(q) /\ q \notin delivered \cup cleaned
  BY <1>1, NotYetPlaced
<1>3. /\ ticket' = [ticket EXCEPT ![q] = Refused]
      /\ ticket'[q] \notin Ids
  BY <1>1, ParametersAssumption DEF TypeOK, Refused
<1>4. \A p \in Queries \ {q} : ticket'[p] = ticket[p]
  BY <1>3 DEF TypeOK
<1>5. \A p \in Queries : Choosing(p)' <=> Choosing(p) /\ p # q
  BY DEF Choosing, TypeOK, LocalsOK, PushLabels, CheckedQuerySize, HasDrawn
<1> HIDE DEF q
<1>6. PlacedOK'
  BY <1>2, <1>4, <1>5 DEF PlacedOK, Keys
<1>7. ComputedOnce'
  BY DEF ComputedOnce, Keys
<1>8. AcceptedOK'
  <2> SUFFICES ASSUME NEW p \in Queries, ticket'[p] \in Ids, ~Choosing(p)'
               PROVE  \/ Queued(p)' \/ Running(p)' \/ Ready(p)'
                      \/ p \in delivered' \cup cleaned'
                      \/ Collides(p)'
    BY DEF AcceptedOK
  <2>1. p # q /\ ticket[p] \in Ids /\ ~Choosing(p)
    BY <1>3, <1>4, <1>5
  <2>2. CASE Collides(p)
    <3>1. PICK r \in Queries \ {p} : ticket[r] = ticket[p] /\ ~Choosing(r)
      BY <2>2 DEF Collides
    <3>2. r # q
      BY <1>1, <2>1, <3>1
    <3> QED
      BY <1>4, <1>5, <2>1, <3>1, <3>2 DEF Collides
  <2> QED
    BY <2>1, <2>2 DEF AcceptedOK, Keys
<1> QED
  BY <1>6, <1>7, <1>8

\* A query that draws its id is nowhere, and stays so until emplace.
LEMMA RandKeepsPlaces ==
  ASSUME TypeOK, LocalsOK, PlacedOK, ComputedOnce, AcceptedOK,
         NEW c \in Callers, Rand(c)
  PROVE  PlacedOK' /\ ComputedOnce' /\ AcceptedOK'
<1> DEFINE q == query[c]
<1>0. pc[c] = "rand"
  BY DEF Rand
<1>1. q \in Queries /\ ticket[q] \notin Ids
  <2>1. ticket[query[c]] = NoId
    BY <1>0 DEF LocalsOK, PushLabels, CheckedQuerySize, HasDrawn
  <2>2. query[c] \in Queries
    BY <1>0 DEF TypeOK, LocalsOK, PushLabels, CheckedQuerySize
  <2> QED
    BY <2>1, <2>2, MarksAreNoIds
<1> USE DEF Queued, Running, Ready, RunsOn, Rand, Goto, threadVars
<1>2. ~Queued(q) /\ ~Running(q) /\ ~Ready(q) /\ q \notin delivered \cup cleaned
  BY <1>1, NotYetPlaced
<1>3. \A p \in Queries \ {q} : ticket'[p] = ticket[p]
  BY <1>1 DEF TypeOK
<1>4. \A p \in Queries : Choosing(p)' <=> Choosing(p) \/ p = q
  BY <1>1 DEF Choosing, TypeOK, LocalsOK, PushLabels, CheckedQuerySize, HasDrawn
<1> HIDE DEF q
<1>5. PlacedOK'
  BY <1>2, <1>3, <1>4 DEF PlacedOK, Keys
<1>6. ComputedOnce'
  BY DEF ComputedOnce, Keys
<1>7. AcceptedOK'
  <2> SUFFICES ASSUME NEW p \in Queries, ticket'[p] \in Ids, ~Choosing(p)'
               PROVE  \/ Queued(p)' \/ Running(p)' \/ Ready(p)'
                      \/ p \in delivered' \cup cleaned'
                      \/ Collides(p)'
    BY DEF AcceptedOK
  <2>1. p # q /\ ticket[p] \in Ids /\ ~Choosing(p)
    BY <1>3, <1>4
  <2>2. CASE Collides(p)
    <3>1. PICK r \in Queries \ {p} : ticket[r] = ticket[p] /\ ~Choosing(r)
      BY <2>2 DEF Collides
    <3>2. r # q
      BY <1>1, <2>1, <3>1
    <3> QED
      BY <1>3, <1>4, <2>1, <3>1, <3>2 DEF Collides
  <2> QED
    BY <2>1, <2>2 DEF AcceptedOK, Keys
<1> QED
  BY <1>5, <1>6, <1>7

\* emplace queues the query, or leaves the one that has its id in place.
LEMMA EmplaceQueryKeepsPlaces ==
  ASSUME TypeOK, LocalsOK, PlacedOK, ComputedOnce, AcceptedOK,
         NEW c \in Callers, EmplaceQuery(c)
  PROVE  PlacedOK' /\ ComputedOnce' /\ AcceptedOK'
<1> DEFINE q == query[c]
           k == ticket[q]
<1> USE DEF Queued, Running, Ready, RunsOn
<1>1. pc[c] = "emplace_query"
  BY DEF EmplaceQuery
<1>2. q \in Queries /\ k \in Ids /\ q # Absent
  BY <1>1, AbsentAssumption
  DEF TypeOK, LocalsOK, PushLabels, CheckedQuerySize, HasDrawn
<1>3. Choosing(q)
  BY <1>1 DEF Choosing, HasDrawn
<1>4. ~Queued(q) /\ ~Running(q) /\ ~Ready(q) /\ q \notin delivered \cup cleaned
  BY <1>2, <1>3, NotYetPlaced
<1>5. \A p \in Queries : Choosing(p)' <=> Choosing(p) /\ p # q
  BY <1>1, <1>2
  DEF Choosing, EmplaceQuery, Goto, TypeOK, LocalsOK, PushLabels,
      CheckedQuerySize, HasDrawn
<1>6. /\ qque' = Emplace(qque, k, q)
      /\ UNCHANGED <<rque, job, ticket, delivered, cleaned>>
  BY DEF EmplaceQuery, threadVars
<1>7. \A p \in Queries : Queued(p) => Queued(p)'
  BY <1>2, <1>6, AbsentAssumption DEF Emplace, Holds, TypeOK
<1>8. \A p \in Queries \ {q} : Queued(p)' => Queued(p)
  BY <1>2, <1>6 DEF Emplace, Holds, TypeOK
<1>9. \A p \in Queries, id \in Ids :
         qque'[id] = p => qque[id] = p \/ (id = k /\ p = q)
  BY <1>2, <1>6 DEF Emplace, Holds, TypeOK
<1> HIDE DEF q, k
<1>10. PlacedOK'
  <2> SUFFICES ASSUME NEW p \in Queries
               PROVE  /\ \A id \in Ids : qque'[id] = p => ticket[p] = id
                      /\ Choosing(p)' => ~Queued(p)'
    BY <1>5, <1>6 DEF PlacedOK, Keys
  <2>1. \A id \in Ids : qque'[id] = p => ticket[p] = id
    BY <1>9 DEF PlacedOK, k, q
  <2>2. Choosing(p)' => ~Queued(p)'
    BY <1>5, <1>8 DEF PlacedOK
  <2> QED
    BY <2>1, <2>2
<1>11. ComputedOnce'
  <2> HIDE DEF Queued
  <2>1. \A p \in Queries : Queued(p)' => Queued(p) \/ p = q
    BY <1>8
  <2> QED
    BY <1>4, <1>6, <2>1 DEF ComputedOnce, Keys
<1>12. AcceptedOK'
  <2> SUFFICES ASSUME NEW p \in Queries, ticket[p] \in Ids, ~Choosing(p)'
               PROVE  \/ Queued(p)' \/ Running(p)' \/ Ready(p)'
                      \/ p \in delivered' \cup cleaned'
                      \/ Collides(p)'
    BY <1>6 DEF AcceptedOK
  <2>1. CASE p # q
    <3>1. Collides(p) => Collides(p)'
      BY <1>5, <1>6 DEF Collides
    <3>2. ~Choosing(p)
      BY <1>5, <2>1
    <3>3. \/ Queued(p) \/ Running(p) \/ Ready(p) \/ p \in delivered \cup cleaned
          \/ Collides(p)
      BY <3>2 DEF AcceptedOK
    <3> QED
      BY <1>6, <1>7, <3>1, <3>3 DEF Keys
  <2>2. CASE p = q /\ ~Holds(qque, k)
    BY <1>2, <1>6, <2>2 DEF Emplace, TypeOK
  <2>3. CASE p = q /\ Holds(qque, k)
    <3>1. PICK r \in Queries : r = qque[k]
      BY <1>2, <2>3 DEF Holds, TypeOK
    <3>2. Queued(r) /\ r # q
      BY <1>2, <1>4, <3>1
    <3>3. ticket[r] = k /\ ~Choosing(r)
      BY <1>2, <3>1, <3>2 DEF PlacedOK
    <3>4. ticket'[r] = ticket'[p]
      BY <1>6, <2>3, <3>3 DEF k
    <3> QED
      BY <1>5, <2>3, <3>2, <3>3, <3>4 DEF Collides
  <2> QED
    BY <2>1, <2>2, <2>3
<1> QED
  BY <1>10, <1>11, <1>12

\* A result that leaves the result queue is noted as delivered or cleaned up.
LEMMA EraseResultKeepsPlaces ==
  ASSUME TypeOK, LocalsOK, PlacedOK, ComputedOnce, AcceptedOK,
         NEW id \in Keys(rque),
         rque' = Erase(rque, id),
         \/ /\ delivered' = delivered \cup {rque[id].query}
            /\ UNCHANGED cleaned
         \/ /\ cleaned' = cleaned \cup {rque[id].query}
            /\ UNCHANGED delivered,
         UNCHANGED <<qque, job, ticket>>,
         \A q \in Queries : Choosing(q)' <=> Choosing(q)
  PROVE  PlacedOK' /\ ComputedOnce' /\ AcceptedOK'
<1> USE DEF Running, RunsOn
<1>0. PICK r \in Queries : r = rque[id].query
  BY DEF Keys, TypeOK, Result
<1>1. id \in Ids /\ r \in Queries /\ Ready(r) /\ ticket[r] = id
  BY <1>0 DEF Keys, TypeOK, PlacedOK, Ready
<1>2. /\ Keys(rque') = Keys(rque) \ {id}
      /\ \A k \in Keys(rque) \ {id} : rque'[k] = rque[k]
  BY <1>1 DEF Erase, Keys, TypeOK
<1>3. ~Queued(r) /\ ~Running(r) /\ r \notin delivered \cup cleaned /\ ~Choosing(r)
  BY <1>1 DEF ComputedOnce, PlacedOK
<1>4. /\ ~Ready(r)'
      /\ \A q \in Queries \ {r} : Ready(q)' <=> Ready(q)
  <2>1. \A k \in Keys(rque) : rque[k].query = r => k = id
    BY <1>1 DEF PlacedOK
  <2>2. ~Ready(r)'
    BY <1>2, <2>1 DEF Ready
  <2>3. \A q \in Queries : Ready(q)' => Ready(q)
    BY <1>2 DEF Ready
  <2>4. \A q \in Queries \ {r} : Ready(q) => Ready(q)'
    BY <1>0, <1>2 DEF Ready
  <2> QED
    BY <2>2, <2>3, <2>4
<1>5. /\ delivered' \cup cleaned' = delivered \cup cleaned \cup {r}
      /\ delivered' \cap cleaned' \subseteq (delivered \cap cleaned) \cup {r}
      /\ r \notin delivered' \cap cleaned'
  BY <1>0, <1>3
<1>6. PlacedOK'
  BY <1>1, <1>2, <1>3, <1>4, <1>5 DEF PlacedOK, Queued
<1>7. ComputedOnce'
  <2>1. \A q \in Queries : /\ Queued(q)' <=> Queued(q)
                           /\ Running(q)' <=> Running(q)
                           /\ Ready(q)' => Ready(q) /\ q # r
    BY <1>4 DEF Queued
  <2>2. \A q \in Queries :
           /\ q \in delivered' \cup cleaned' <=>
                 q \in delivered \cup cleaned \/ q = r
           /\ q \in delivered' \cap cleaned' => q \in delivered \cap cleaned
    BY <1>5
  <2>3. \A t, u \in Threads, q \in Queries :
           RunsOn(t, q)' /\ RunsOn(u, q)' => t = u
    BY DEF ComputedOnce
  <2> HIDE DEF Running, RunsOn
  <2> QED
    BY <1>3, <2>1, <2>2, <2>3 DEF ComputedOnce
<1>8. AcceptedOK'
  BY <1>1, <1>3, <1>4, <1>5 DEF AcceptedOK, Queued, Collides
<1> QED
  BY <1>6, <1>7, <1>8

\* No step of a caller makes a query reappear, or vanish without trace.
LEMMA CallerPlaces ==
  ASSUME TypeOK, LocalsOK, PlacedOK, ComputedOnce, AcceptedOK,
         NEW c \in Callers, Call(c) \/ CallerStep(c)
  PROVE  PlacedOK' /\ ComputedOnce' /\ AcceptedOK'
<1>1. ASSUME UNCHANGED <<qque, rque, ticket, job, delivered, cleaned>>,
             \A q \in Queries : Choosing(q)' <=> Choosing(q)
      PROVE  PlacedOK' /\ ComputedOnce' /\ AcceptedOK'
  BY <1>1, QuietStep DEF RunsOn
<1>2. ASSUME UNCHANGED <<query, pc>>
      PROVE  \A q \in Queries : Choosing(q)' <=> Choosing(q)
  BY <1>2 DEF Choosing
<1>3. ASSUME UNCHANGED query, NEW l, pc' = [pc EXCEPT ![c] = l],
             l \in HasDrawn <=> pc[c] \in HasDrawn
      PROVE  \A q \in Queries : Choosing(q)' <=> Choosing(q)
  BY <1>3 DEF Choosing, TypeOK
<1> USE DEF threadVars, Goto
<1>4. ASSUME NEW q \in Queries, CallPush(c, q)
      PROVE  PlacedOK' /\ ComputedOnce' /\ AcceptedOK'
  <2>1. \A p \in Queries : Choosing(p)' <=> Choosing(p)
    BY <1>4 DEF CallPush, Choosing, HasDrawn, TypeOK
  <2> QED
    BY <1>1, <1>4, <2>1 DEF CallPush
<1>5. ASSUME NEW id \in Ids \cup {Refused}, CallPop(c, id)
      PROVE  PlacedOK' /\ ComputedOnce' /\ AcceptedOK'
  BY <1>1, <1>3, <1>5 DEF CallPop, HasDrawn
<1>6. CASE CallCleanup(c)
  BY <1>1, <1>3, <1>6 DEF CallCleanup, HasDrawn
<1>7. CASE ReadQuerySize(c)
  <2>1. CASE HasQueryRoom
    BY <1>1, <1>3, <1>7, <2>1 DEF ReadQuerySize, HasDrawn
  <2>2. CASE ~HasQueryRoom
    BY <1>7, <2>2, RefuseKeepsPlaces DEF ReadQuerySize
  <2> QED
    BY <2>1, <2>2
<1>8. CASE ReadResultSize(c)
  <2>1. CASE HasResultRoom
    BY <1>1, <1>3, <1>8, <2>1 DEF ReadResultSize, HasDrawn
  <2>2. CASE ~HasResultRoom
    BY <1>8, <2>2, RefuseKeepsPlaces DEF ReadResultSize
  <2> QED
    BY <2>1, <2>2
<1>9. CASE Srand(c)
  BY <1>1, <1>3, <1>9 DEF Srand, HasDrawn
<1>10. CASE Rand(c)
  BY <1>10, RandKeepsPlaces
<1>11. CASE CheckQueryKey(c)
  <2>1. CASE Refuse(c)
    BY <1>11, <2>1, RefuseKeepsPlaces DEF CheckQueryKey
  <2>2. CASE Goto(c, "emplace_query") /\ UNCHANGED ticket
    BY <1>1, <1>3, <1>11, <2>2 DEF CheckQueryKey, HasDrawn
  <2> QED
    BY <1>11, <2>1, <2>2 DEF CheckQueryKey
<1>12. CASE EmplaceQuery(c)
  BY <1>12, EmplaceQueryKeepsPlaces
<1>13. CASE ReturnId(c)
  <2>1. \A p \in Queries : Choosing(p)' <=> Choosing(p)
    BY <1>13, AbsentAssumption DEF ReturnId, Choosing, HasDrawn, TypeOK
  <2> QED
    BY <1>1, <1>13, <2>1 DEF ReturnId
<1>14. CASE PopResult(c)
  <2>1. \A q \in Queries : Choosing(q)' <=> Choosing(q)
    BY <1>3, <1>14 DEF PopResult, HasDrawn
  <2>2. PICK id \in Keys(rque) :
           /\ delivered' = delivered \cup {rque[id].query}
           /\ rque' = Erase(rque, id)
    BY <1>14 DEF PopResult, Poppable
  <2> QED
    BY <1>14, <2>1, <2>2, EraseResultKeepsPlaces DEF PopResult
<1>15. CASE ReturnResult(c)
  BY <1>1, <1>3, <1>15 DEF ReturnResult, HasDrawn
<1>16. CASE ScanResults(c)
  BY <1>1, <1>3, <1>16 DEF ScanResults, HasDrawn
<1>17. CASE EraseResult(c)
  <2>1. \A q \in Queries : Choosing(q)' <=> Choosing(q)
    BY <1>2, <1>17 DEF EraseResult
  <2>2. PICK id \in expired[c] :
           /\ rque' = Erase(rque, id)
           /\ cleaned' = cleaned \cup
                 {q \in Queries : Holds(rque, id) /\ rque[id].query = q}
    BY <1>17 DEF EraseResult
  <2>3. id \in Ids
    BY DEF TypeOK
  <2>4. CASE Holds(rque, id)
    <3>1. id \in Keys(rque) /\ rque[id].query \in Queries
      BY <2>3, <2>4 DEF Holds, Keys, TypeOK, Result
    <3>2. cleaned' = cleaned \cup {rque[id].query}
      BY <2>2, <2>4, <3>1
    <3> QED
      BY <1>17, <2>1, <2>2, <3>1, <3>2, EraseResultKeepsPlaces
      DEF EraseResult
  <2>5. CASE ~Holds(rque, id)
    <3>1. UNCHANGED <<rque, cleaned>>
      BY <2>2, <2>3, <2>5 DEF Holds, Erase, TypeOK
    <3> QED
      BY <1>1, <1>17, <2>1, <3>1 DEF EraseResult
  <2> QED
    BY <2>4, <2>5
<1>18. CASE ReturnCleanup(c)
  BY <1>1, <1>3, <1>18 DEF ReturnCleanup, HasDrawn
<1> QED
  BY <1>4, <1>5, <1>6, <1>7, <1>8, <1>9, <1>10, <1>11, <1>12, <1>13, <1>14,
     <1>15, <1>16, <1>17, <1>18
  DEF Call, CallerStep, PushStep, PopStep, CleanupStep

\* A query leaves the queue for the one thread that takes it.
LEMMA TakeQueryKeepsPlaces ==
  ASSUME TypeOK, LocalsOK, PlacedOK, ComputedOnce, AcceptedOK,
         NEW t \in Threads, TakeQuery(t)
  PROVE  PlacedOK' /\ ComputedOnce' /\ AcceptedOK'
<1>1. PICK id \in Front(qque) :
         /\ job' = [job EXCEPT ![t] =
                      [id |-> id, query |-> qque[id], created |-> clock]]
         /\ qque' = Erase(qque, id)
  BY DEF TakeQuery
<1>2. PICK r \in Queries : r = qque[id]
  BY DEF Front, Keys, TypeOK
<1>3. /\ id \in Ids /\ Queued(r) /\ ticket[r] = id
      /\ ~Running(r) /\ ~Ready(r) /\ r \notin delivered \cup cleaned
      /\ ~Choosing(r)
  BY <1>2 DEF Front, Keys, TypeOK, PlacedOK, ComputedOnce, Queued
<1>4. UNCHANGED <<rque, ticket, delivered, cleaned, query, pc>>
  BY DEF TakeQuery, callerVars
<1>5. \A q \in Queries : Choosing(q)' <=> Choosing(q)
  BY <1>4 DEF Choosing
<1>6. job[t] = Absent /\ job'[t] # Absent /\ job'[t].query = r /\ job'[t].id = id
  <2>1. job[t] = Absent
    BY DEF TakeQuery, LocalsOK
  <2>2. [id |-> id, query |-> r, created |-> clock] \in Job
    BY <1>3 DEF Job, TypeOK
  <2> QED
    BY <1>1, <1>2, <2>1, <2>2, AbsentAssumption DEF TypeOK
<1>7. \A u \in Threads \ {t} : job'[u] = job[u]
  BY <1>1 DEF TypeOK
<1>8. \A q \in Queries, k \in Ids : qque'[k] = q <=> qque[k] = q /\ k # id
  BY <1>1, <1>3, AbsentAssumption DEF Erase, TypeOK
<1>9. \A q \in Queries : Queued(q)' <=> Queued(q) /\ q # r
  <2>1. \A k \in Ids : qque[k] = r => k = id
    BY <1>3 DEF PlacedOK
  <2> QED
    BY <1>2, <1>8, <2>1 DEF Queued
<1>10. \A u \in Threads, q \in Queries :
          RunsOn(u, q)' <=> RunsOn(u, q) \/ (u = t /\ q = r)
  BY <1>6, <1>7 DEF RunsOn
<1>11. \A q \in Queries : Running(q)' <=> Running(q) \/ q = r
  BY <1>10 DEF Running
<1>12. \A q \in Queries : Ready(q)' <=> Ready(q)
  BY <1>4 DEF Ready, Keys
<1>13. PlacedOK'
  <2> SUFFICES ASSUME NEW q \in Queries
               PROVE  /\ \A k \in Ids : qque'[k] = q => ticket[q] = k
                      /\ \A u \in Threads :
                            RunsOn(u, q)' => ticket[q] = job'[u].id
                      /\ \A k \in Keys(rque) : rque[k].query = q => ticket[q] = k
                      /\ q \in delivered \cup cleaned => ticket[q] \in Ids
                      /\ Choosing(q) =>
                            /\ ~Queued(q)' /\ ~Running(q)' /\ ~Ready(q)'
                            /\ q \notin delivered \cup cleaned
    BY <1>4, <1>5 DEF PlacedOK, Keys
  <2>1. \A u \in Threads : RunsOn(u, q)' => ticket[q] = job'[u].id
    BY <1>3, <1>6, <1>7, <1>10 DEF PlacedOK, RunsOn
  <2> QED
    BY <1>3, <1>8, <1>9, <1>11, <1>12, <2>1 DEF PlacedOK
<1>14. ComputedOnce'
  <2>1. \A q \in Queries, u, v \in Threads :
           RunsOn(u, q)' /\ RunsOn(v, q)' => u = v
    BY <1>3, <1>10 DEF ComputedOnce, Running
  <2> QED
    BY <1>3, <1>4, <1>9, <1>11, <1>12, <2>1 DEF ComputedOnce
<1>15. AcceptedOK'
  BY <1>4, <1>5, <1>9, <1>11, <1>12 DEF AcceptedOK, Collides
<1> QED
  BY <1>13, <1>14, <1>15

\* A result is stored, or dropped because its id holds another's.
LEMMA EmplaceResultKeepsPlaces ==
  ASSUME TypeOK, LocalsOK, PlacedOK, ComputedOnce, AcceptedOK,
         NEW t \in Threads, EmplaceResult(t)
  PROVE  PlacedOK' /\ ComputedOnce' /\ AcceptedOK'
<1>1. job[t] \in Job /\ job[t] # Absent
  BY DEF EmplaceResult, TypeOK, LocalsOK
<1>2. PICK r \in Queries, id \in Ids : r = job[t].query /\ id = job[t].id
  BY <1>1 DEF Job
<1>3. PICK res \in Result :
         res = [query |-> job[t].query, created |-> job[t].created]
  BY <1>1 DEF Job, Result
<1>4. /\ rque' = Emplace(rque, id, res) /\ res.query = r
      /\ job' = [job EXCEPT ![t] = Absent]
      /\ UNCHANGED <<qque, ticket, delivered, cleaned, query, pc>>
  BY <1>2, <1>3 DEF EmplaceResult, callerVars
<1>5. /\ RunsOn(t, r) /\ ticket[r] = id
      /\ ~Queued(r) /\ ~Ready(r) /\ r \notin delivered \cup cleaned
      /\ ~Choosing(r)
  BY <1>1, <1>2 DEF RunsOn, Running, PlacedOK, ComputedOnce
<1>6. \A q \in Queries : Choosing(q)' <=> Choosing(q)
  BY <1>4 DEF Choosing
<1>7. \A u \in Threads, q \in Queries : RunsOn(u, q)' <=> RunsOn(u, q) /\ u # t
  BY <1>4 DEF RunsOn, TypeOK
<1>8. \A q \in Queries : Running(q)' <=> Running(q) /\ q # r
  BY <1>1, <1>2, <1>5, <1>7 DEF Running, RunsOn, ComputedOnce
<1>9. /\ Keys(rque') = Keys(rque) \cup {id}
      /\ \A k \in Keys(rque) : rque'[k] = rque[k]
      /\ id \notin Keys(rque) => rque'[id] = res
  BY <1>2, <1>4, AbsentAssumption DEF Emplace, Holds, Keys, TypeOK
<1>10. \A q \in Queries : Ready(q)' <=> Ready(q) \/ (q = r /\ id \notin Keys(rque))
  BY <1>4, <1>9 DEF Ready
<1>11. \A q \in Queries : Queued(q)' <=> Queued(q)
  BY <1>4 DEF Queued
<1>12. PlacedOK'
  <2> SUFFICES ASSUME NEW q \in Queries
               PROVE  /\ \A k \in Ids : qque[k] = q => ticket[q] = k
                      /\ \A u \in Threads :
                            RunsOn(u, q)' => ticket[q] = job'[u].id
                      /\ \A k \in Keys(rque') :
                            rque'[k].query = q => ticket[q] = k
                      /\ q \in delivered \cup cleaned => ticket[q] \in Ids
                      /\ Choosing(q) =>
                            /\ ~Queued(q) /\ ~Running(q)' /\ ~Ready(q)'
                            /\ q \notin delivered \cup cleaned
    BY <1>4, <1>6, <1>11 DEF PlacedOK
  <2>1. \A u \in Threads : RunsOn(u, q)' => ticket[q] = job'[u].id
    BY <1>4, <1>7 DEF PlacedOK, TypeOK
  <2>2. \A k \in Keys(rque') : rque'[k].query = q => ticket[q] = k
    BY <1>4, <1>5, <1>9 DEF PlacedOK
  <2> QED
    BY <1>5, <1>8, <1>10, <2>1, <2>2 DEF PlacedOK
<1>13. ComputedOnce'
  <2>1. \A q \in Queries, u, v \in Threads :
           RunsOn(u, q)' /\ RunsOn(v, q)' => u = v
    BY <1>7 DEF ComputedOnce
  <2> QED
    BY <1>4, <1>5, <1>8, <1>10, <1>11, <2>1 DEF ComputedOnce
<1>14. AcceptedOK'
  <2>1. id \in Keys(rque) => Collides(r)'
    <3> SUFFICES ASSUME id \in Keys(rque) PROVE Collides(r)'
      OBVIOUS
    <3>1. PICK p \in Queries : p = rque[id].query
      BY DEF Keys, TypeOK, Result
    <3>2. Ready(p) /\ ticket[p] = id
      BY <3>1 DEF Ready, PlacedOK
    <3>3. p # r /\ ~Choosing(p)
      BY <1>5, <3>2 DEF PlacedOK
    <3> QED
      BY <1>4, <1>5, <1>6, <3>2, <3>3 DEF Collides
  <2>2. \A q \in Queries : Collides(q) => Collides(q)'
    BY <1>4, <1>6 DEF Collides
  <2> QED
    BY <1>4, <1>6, <1>8, <1>10, <1>11, <2>1, <2>2 DEF AcceptedOK
<1> QED
  BY <1>12, <1>13, <1>14

\* A step of a calculation thread neither.
LEMMA ThreadPlaces ==
  ASSUME TypeOK, LocalsOK, PlacedOK, ComputedOnce, AcceptedOK,
         NEW t \in Threads, ThreadStep(t)
  PROVE  PlacedOK' /\ ComputedOnce' /\ AcceptedOK'
<1>1. CASE TakeQuery(t)
  BY <1>1, TakeQueryKeepsPlaces
<1>2. CASE Compute(t) \/ CheckResultKey(t)
  <2>1. UNCHANGED <<qque, rque, query, pc, ticket, delivered, cleaned>>
    BY <1>2 DEF Compute, CheckResultKey, callerVars
  <2>2. \A q \in Queries : Choosing(q)' <=> Choosing(q)
    BY <2>1 DEF Choosing
  <2>3. \/ UNCHANGED job
        \/ job' = [job EXCEPT ![t].created = clock]
    BY <1>2 DEF Compute, CheckResultKey
  <2>4. job[t] \in Job /\ job[t] # Absent
    BY <1>2 DEF Compute, CheckResultKey, TypeOK, LocalsOK
  <2>5. [job[t] EXCEPT !.created = clock] \in Job
    BY <2>4 DEF Job, TypeOK
  <2>6. \A u \in Threads : /\ job'[u].id = job[u].id
                           /\ job'[u].query = job[u].query
                           /\ job'[u] = Absent <=> job[u] = Absent
    BY <2>3, <2>4, <2>5, AbsentAssumption DEF Job, TypeOK
  <2>7. \A u \in Threads, q \in Queries : RunsOn(u, q)' <=> RunsOn(u, q)
    BY <2>6 DEF RunsOn
  <2> QED
    BY <2>1, <2>2, <2>6, <2>7, QuietStep
<1>3. CASE EmplaceResult(t)
  BY <1>3, EmplaceResultKeepsPlaces
<1> QED
  BY <1>1, <1>2, <1>3 DEF ThreadStep

\* Every query is in one place, was computed once, and was accepted first.
LEMMA PlacesInvariant == Spec => [](PlacedOK /\ ComputedOnce /\ AcceptedOK)
<1>1. Init => PlacedOK /\ ComputedOnce /\ AcceptedOK
  BY MarksAreNoIds, AbsentAssumption
  DEF Init, PlacedOK, ComputedOnce, AcceptedOK, EmptyMap, Keys, Queued, Running,
      RunsOn, Ready, Choosing, HasDrawn
<1>2. /\ TypeOK /\ LocalsOK /\ PlacedOK /\ ComputedOnce /\ AcceptedOK
      /\ [Next]_vars
      => (PlacedOK /\ ComputedOnce /\ AcceptedOK)'
  <2> SUFFICES ASSUME TypeOK, LocalsOK, PlacedOK, ComputedOnce, AcceptedOK,
                      [Next]_vars
               PROVE  PlacedOK' /\ ComputedOnce' /\ AcceptedOK'
    OBVIOUS
  <2>1. CASE Tick \/ UNCHANGED vars
    <3>1. UNCHANGED <<qque, rque, query, pc, job, ticket, delivered, cleaned>>
      BY <2>1 DEF Tick, vars, callerVars, threadVars
    <3>2. \A q \in Queries : Choosing(q)' <=> Choosing(q)
      BY <3>1 DEF Choosing
    <3>3. \A u \in Threads, q \in Queries : RunsOn(u, q)' <=> RunsOn(u, q)
      BY <3>1 DEF RunsOn
    <3> QED
      BY <3>1, <3>2, <3>3, QuietStep
  <2>2. ASSUME NEW c \in Callers, Call(c) \/ CallerStep(c)
        PROVE  PlacedOK' /\ ComputedOnce' /\ AcceptedOK'
    BY <2>2, CallerPlaces
  <2>3. ASSUME NEW t \in Threads, ThreadStep(t)
        PROVE  PlacedOK' /\ ComputedOnce' /\ AcceptedOK'
    BY <2>3, ThreadPlaces
  <2> QED
    BY <2>1, <2>2, <2>3 DEF Next
<1> QED
  BY <1>1, <1>2, TypeCorrect, PTL DEF Spec

\* Whatever ids the generator draws, no query is computed twice and no result
\* is handed out twice.
THEOREM ComputedOnceHolds == Spec => []ComputedOnce
  BY PlacesInvariant, PTL

\* A query that push_query accepted is lost only to one with the same id.
THEOREM NothingLostHolds == Spec => []NothingLost
<1>1. LocalsOK /\ TypeOK /\ AcceptedOK => NothingLost
  BY AbsentAssumption
  DEF NothingLost, AcceptedOK, Accepted, Choosing, Pushing, LocalsOK, TypeOK
<1> QED
  BY <1>1, TypeCorrect, PlacesInvariant, PTL

\* An id, once accepted, is its query's for good: only callers that have not
\* queued their query yet change a ticket.
LEMMA TicketsStay ==
  ASSUME TypeOK, LocalsOK, [Next]_vars, NEW q \in Queries,
         ticket[q] \in Ids, ~Choosing(q)
  PROVE  ticket'[q] = ticket[q] /\ ~Choosing(q)'
<1> USE DEF threadVars, callerVars, Goto
<1>1. \A c \in Callers : pc[c] \in PushLabels \ {"return_id"} => query[c] # q
  BY MarksAreNoIds DEF LocalsOK, Choosing
<1>2. CASE Tick \/ UNCHANGED vars
  BY <1>2 DEF Tick, vars, Choosing
<1>3. ASSUME NEW t \in Threads, ThreadStep(t)
      PROVE  ticket'[q] = ticket[q] /\ ~Choosing(q)'
  BY <1>3 DEF ThreadStep, TakeQuery, Compute, CheckResultKey, EmplaceResult,
              Choosing
<1>4. ASSUME NEW c \in Callers, Call(c) \/ CallerStep(c)
      PROVE  ticket'[q] = ticket[q] /\ ~Choosing(q)'
  <2>1. ASSUME NEW p \in Queries, CallPush(c, p)
        PROVE  ticket'[q] = ticket[q] /\ ~Choosing(q)'
    BY <2>1 DEF CallPush, Choosing, HasDrawn, TypeOK
  <2>2. CASE PushStep(c) /\ pc[c] # "return_id"
    <3>1. pc[c] \in PushLabels \ {"return_id"} /\ query' = query
      BY <2>2 DEF PushStep, ReadQuerySize, ReadResultSize, Srand, Rand,
                  CheckQueryKey, EmplaceQuery, ReturnId, PushLabels,
                  CheckedQuerySize
    <3>2. \/ UNCHANGED ticket
          \/ \E v : ticket' = [ticket EXCEPT ![query[c]] = v]
      BY <2>2 DEF PushStep, ReadQuerySize, ReadResultSize, Srand, Rand,
                  CheckQueryKey, EmplaceQuery, ReturnId, Refuse
    <3>3. \E l : pc' = [pc EXCEPT ![c] = l]
      BY <2>2 DEF PushStep, ReadQuerySize, ReadResultSize, Srand, Rand,
                  CheckQueryKey, EmplaceQuery, ReturnId, Refuse
    <3>4. query[c] # q
      BY <1>1, <3>1
    <3>5. ticket'[q] = ticket[q]
      BY <3>2, <3>4 DEF TypeOK
    <3>6. ~Choosing(q)'
      BY <3>1, <3>3, <3>4 DEF Choosing, TypeOK
    <3> QED
      BY <3>5, <3>6
  <2>3. CASE ReturnId(c)
    BY <2>3, AbsentAssumption DEF ReturnId, Choosing, HasDrawn, TypeOK
  <2>4. CASE \/ \E id \in Ids \cup {Refused} : CallPop(c, id)
             \/ CallCleanup(c) \/ PopStep(c) \/ CleanupStep(c)
    <3>1. UNCHANGED <<query, ticket>>
      BY <2>4 DEF CallPop, CallCleanup, PopStep, CleanupStep, PopResult,
                  ReturnResult, ScanResults, EraseResult, ReturnCleanup
    <3>2. \/ UNCHANGED pc
          \/ \E l \in {"pop_result", "return_result", "idle", "scan_results",
                       "erase_result"} : pc' = [pc EXCEPT ![c] = l]
      BY <2>4 DEF CallPop, CallCleanup, PopStep, CleanupStep, PopResult,
                  ReturnResult, ScanResults, EraseResult, ReturnCleanup
    <3> QED
      BY <3>1, <3>2 DEF Choosing, HasDrawn, TypeOK
  <2> QED
    BY <1>4, <2>1, <2>2, <2>3, <2>4
    DEF Call, CallerStep, PushStep, ReadQuerySize, ReadResultSize, Srand, Rand,
        CheckQueryKey, EmplaceQuery
<1> QED
  BY <1>2, <1>3, <1>4 DEF Next

\* pop_result hands out the result of a query accepted under the id asked for.
THEOREM OwnResultHolds == Spec => []OwnResult
<1>1. Init => OwnResult
  BY DEF Init, OwnResult
<1>2. TypeOK /\ LocalsOK /\ PlacedOK /\ OwnResult /\ [Next]_vars => OwnResult'
  <2> SUFFICES ASSUME TypeOK, LocalsOK, PlacedOK, OwnResult, [Next]_vars,
                      NEW c \in Callers, got'[c] # Absent
               PROVE  ticket'[got'[c]] = asked'[c]
    BY DEF OwnResult
  <2>1. CASE got'[c] = got[c] /\ asked'[c] = asked[c]
    <3>1. got[c] \in Queries /\ got[c] \in delivered
      BY <2>1 DEF LocalsOK, TypeOK
    <3>2. ticket[got[c]] \in Ids /\ ~Choosing(got[c])
      BY <3>1 DEF PlacedOK
    <3>3. \A q \in Queries : ticket[q] \in Ids /\ ~Choosing(q)
                              => ticket'[q] = ticket[q]
      BY TicketsStay
    <3> QED
      BY <2>1, <3>1, <3>2, <3>3 DEF OwnResult
  <2>2. CASE PopResult(c)
    BY <2>2 DEF PopResult, Poppable, Keys, PlacedOK, TypeOK, Result
  <2>3. CASE ReturnResult(c)
    BY <2>3 DEF ReturnResult, TypeOK
  <2>4. CASE \E id \in Ids \cup {Refused} : CallPop(c, id)
    BY <2>4 DEF CallPop, LocalsOK, TypeOK
  <2>5. ~PopResult(c) /\ ~ReturnResult(c)
           /\ ~(\E id \in Ids \cup {Refused} : CallPop(c, id))
        => got'[c] = got[c] /\ asked'[c] = asked[c]
    <3> USE DEF threadVars, callerVars, TypeOK
    <3>1. ASSUME NEW d \in Callers, Call(d) \/ CallerStep(d), ~PopResult(c),
                 ~ReturnResult(c),
                 ~(\E id \in Ids \cup {Refused} : CallPop(c, id))
          PROVE  got'[c] = got[c] /\ asked'[c] = asked[c]
      <4>1. CASE PopResult(d) \/ ReturnResult(d)
                  \/ \E id \in Ids \cup {Refused} : CallPop(d, id)
        BY <3>1, <4>1 DEF PopResult, ReturnResult, CallPop
      <4>2. CASE \/ \E q \in Queries : CallPush(d, q)
                 \/ CallCleanup(d) \/ PushStep(d) \/ CleanupStep(d)
        BY <4>2 DEF CallPush, CallCleanup, PushStep, CleanupStep, ReadQuerySize,
                    ReadResultSize, Srand, Rand, CheckQueryKey, EmplaceQuery,
                    ReturnId, ScanResults, EraseResult, ReturnCleanup
      <4> QED
        BY <3>1, <4>1, <4>2 DEF Call, CallerStep, PopStep
    <3>2. ASSUME NEW t \in Threads, ThreadStep(t)
          PROVE  got'[c] = got[c] /\ asked'[c] = asked[c]
      BY <3>2 DEF ThreadStep, TakeQuery, Compute, CheckResultKey, EmplaceResult
    <3>3. CASE Tick \/ UNCHANGED vars
      BY <3>3 DEF Tick, vars
    <3> QED
      BY <3>1, <3>2, <3>3 DEF Next
  <2> QED
    BY <2>1, <2>2, <2>3, <2>4, <2>5
<1> QED
  BY <1>1, <1>2, TypeCorrect, PlacesInvariant, PTL DEF Spec

\* A calculation thread ends only for a query that throws, or shares its id.
THEOREM DeathHasACauseHolds == Spec => []DeathHasACause
<1>1. Init => DeathHasACause
  BY DEF Init, DeathHasACause
<1>2. /\ TypeOK /\ LocalsOK /\ PlacedOK /\ ComputedOnce /\ DeathHasACause
      /\ [Next]_vars
      => DeathHasACause'
  <2> SUFFICES ASSUME TypeOK, LocalsOK, PlacedOK, ComputedOnce, DeathHasACause,
                      [Next]_vars, NEW t \in Threads, tpc'[t] = "dead"
               PROVE  (job[t].query \in BadQueries \/ Collides(job[t].query))'
    BY DEF DeathHasACause
  <2>1. \A q \in Queries : ticket[q] \in Ids /\ ~Choosing(q) /\ Collides(q)
                           => Collides(q)'
    <3> SUFFICES ASSUME NEW q \in Queries, ticket[q] \in Ids, ~Choosing(q),
                        Collides(q)
                 PROVE  Collides(q)'
      OBVIOUS
    <3>1. PICK p \in Queries \ {q} : ticket[p] = ticket[q] /\ ~Choosing(p)
      BY DEF Collides
    <3>2. ticket'[q] = ticket[q] /\ ticket'[p] = ticket[p] /\ ~Choosing(p)'
      BY <3>1, TicketsStay
    <3> QED
      BY <3>1, <3>2 DEF Collides
  <2>2. tpc[t] # "take_query" =>
           /\ job[t] \in Job /\ job[t].query \in Queries
           /\ ticket[job[t].query] = job[t].id /\ job[t].id \in Ids
           /\ ~Choosing(job[t].query)
    BY DEF LocalsOK, TypeOK, Job, PlacedOK, RunsOn, Running
  <2>3. CASE tpc[t] = "dead" /\ job'[t] = job[t]
    <3>1. job[t].query \in BadQueries \/ Collides(job[t].query)
      BY <2>3 DEF DeathHasACause
    <3>2. PICK q \in Queries : q = job[t].query
      BY <2>2, <2>3
    <3>3. Collides(q) => Collides(q)'
      BY <2>1, <2>2, <2>3, <3>2
    <3> QED
      BY <2>3, <3>1, <3>2, <3>3
  <2>4. CASE Compute(t)
    BY <2>4 DEF Compute, ThreadGoto, TypeOK
  <2>5. CASE CheckResultKey(t)
    <3>1. job'[t] = job[t] /\ Holds(rque, job[t].id) /\ tpc[t] = "check_result_key"
      <4>1. PICK found \in CountAnswers(rque, job[t].id, ResultMapBusy(t)) :
               ThreadGoto(t, IF found THEN "dead" ELSE "emplace_result")
        BY <2>5 DEF CheckResultKey
      <4>2. found = TRUE
        BY <4>1 DEF ThreadGoto, TypeOK, CountAnswers, Holds
      <4>3. Holds(rque, job[t].id)
        BY <4>1, <4>2 DEF CountAnswers
      <4> QED
        BY <2>5, <4>3 DEF CheckResultKey
    <3>2. PICK p \in Queries : /\ p = rque[job[t].id].query
                               /\ job[t].id \in Keys(rque)
      BY <2>2, <3>1 DEF Holds, Keys, TypeOK, Result
    <3>3. Ready(p) /\ ticket[p] = job[t].id
      BY <3>2 DEF Ready, PlacedOK
    <3>4. Running(job[t].query)
      BY <2>2, <3>1, AbsentAssumption DEF Running, RunsOn
    <3>5. p # job[t].query /\ ~Choosing(p)
      BY <2>2, <3>1, <3>3, <3>4 DEF ComputedOnce, PlacedOK
    <3>6. PICK q \in Queries : q = job[t].query
      BY <2>2, <3>1
    <3>7. Collides(q)
      BY <2>2, <3>1, <3>3, <3>5, <3>6 DEF Collides
    <3>8. Collides(q)'
      BY <2>1, <2>2, <3>1, <3>6, <3>7
    <3> QED
      BY <3>1, <3>6, <3>8
  <2>6. ASSUME NEW u \in Threads, ThreadStep(u), ~Compute(t), ~CheckResultKey(t)
        PROVE  tpc[t] = "dead" /\ job'[t] = job[t]
    <3>1. CASE u = t
      BY <2>6, <3>1 DEF ThreadStep, TakeQuery, EmplaceResult, ThreadGoto, TypeOK
    <3>2. CASE u # t
      BY <2>6, <3>2 DEF ThreadStep, TakeQuery, Compute, CheckResultKey,
                        EmplaceResult, ThreadGoto, TypeOK
    <3> QED
      BY <3>1, <3>2
  <2>7. ASSUME NEW c \in Callers, Call(c) \/ CallerStep(c)
        PROVE  UNCHANGED <<tpc, job>>
    BY <2>7
    DEF Call, CallerStep, PushStep, PopStep, CleanupStep, CallPush, CallPop,
        CallCleanup, ReadQuerySize, ReadResultSize, Srand, Rand, CheckQueryKey,
        EmplaceQuery, ReturnId, PopResult, ReturnResult, ScanResults,
        EraseResult, ReturnCleanup, threadVars
  <2>8. CASE Tick \/ UNCHANGED vars
    BY <2>3, <2>8 DEF Tick, vars, threadVars
  <2> QED
    BY <2>3, <2>4, <2>5, <2>6, <2>7, <2>8 DEF Next
<1> QED
  BY <1>1, <1>2, TypeCorrect, PlacesInvariant, PTL DEF Spec

-----------------------------------------------------------------------------
(* How far the queues exceed their limits *)

\* The numbers that AdmissionOK adds up.
LEMMA Counts ==
  ASSUME TypeOK
  PROVE  /\ Size(qque) \in Nat /\ Size(rque) \in Nat
         /\ Cardinality(Callers) \in Nat \ {0}
         /\ Cardinality(Threads) \in Nat
         /\ IsFiniteSet(PendingCallers) /\ IsFiniteSet(AdmittedCallers)
         /\ IsFiniteSet(BusyThreads)
         /\ Cardinality(PendingCallers) \in 0 .. Cardinality(Callers)
         /\ Cardinality(AdmittedCallers) \in 0 .. Cardinality(PendingCallers)
         /\ Cardinality(BusyThreads) \in 0 .. Cardinality(Threads)
<1>1. Size(qque) \in Nat /\ Size(rque) \in Nat
  BY SizeIsNat, ParametersAssumption DEF TypeOK
<1>2. IsFiniteSet(Callers) /\ IsFiniteSet(Threads) /\ Callers # {}
  BY ParametersAssumption
<1>3. Cardinality(Callers) \in Nat /\ Cardinality(Threads) \in Nat
  BY <1>2, FS_CardinalityType
<1>4. Cardinality(Callers) # 0
  BY <1>2, FS_EmptySet
<1>5. /\ PendingCallers \subseteq Callers /\ BusyThreads \subseteq Threads
      /\ AdmittedCallers \subseteq PendingCallers
  BY DEF PendingCallers, AdmittedCallers, BusyThreads, CheckedResultSize
<1>6. /\ IsFiniteSet(PendingCallers)
      /\ Cardinality(PendingCallers) <= Cardinality(Callers)
  BY <1>2, <1>5, FS_Subset
<1>7. /\ IsFiniteSet(AdmittedCallers)
      /\ Cardinality(AdmittedCallers) <= Cardinality(PendingCallers)
  BY <1>5, <1>6, FS_Subset
<1>8. /\ IsFiniteSet(BusyThreads)
      /\ Cardinality(BusyThreads) <= Cardinality(Threads)
  BY <1>2, <1>5, FS_Subset
<1>9. /\ Cardinality(PendingCallers) \in Nat
      /\ Cardinality(AdmittedCallers) \in Nat
      /\ Cardinality(BusyThreads) \in Nat
  BY <1>6, <1>7, <1>8, FS_CardinalityType
<1> QED
  BY <1>1, <1>3, <1>4, <1>6, <1>7, <1>8, <1>9

\* Moving one caller changes the two counts of callers by at most one.
LEMMA MoveCaller ==
  ASSUME TypeOK, NEW c \in Callers, NEW l, pc' = [pc EXCEPT ![c] = l]
  PROVE  /\ Cardinality(PendingCallers') = Cardinality(PendingCallers)
               + (IF l \in CheckedQuerySize THEN 1 ELSE 0)
               - (IF pc[c] \in CheckedQuerySize THEN 1 ELSE 0)
         /\ Cardinality(AdmittedCallers') = Cardinality(AdmittedCallers)
               + (IF l \in CheckedResultSize THEN 1 ELSE 0)
               - (IF pc[c] \in CheckedResultSize THEN 1 ELSE 0)
<1>1. /\ PendingCallers' = IF l \in CheckedQuerySize THEN PendingCallers \cup {c}
                                                     ELSE PendingCallers \ {c}
      /\ AdmittedCallers' = IF l \in CheckedResultSize
                             THEN AdmittedCallers \cup {c}
                             ELSE AdmittedCallers \ {c}
  BY DEF PendingCallers, AdmittedCallers, TypeOK
<1>2. /\ c \in PendingCallers <=> pc[c] \in CheckedQuerySize
      /\ c \in AdmittedCallers <=> pc[c] \in CheckedResultSize
  BY DEF PendingCallers, AdmittedCallers
<1>3. /\ IsFiniteSet(PendingCallers) /\ Cardinality(PendingCallers) \in Nat
      /\ IsFiniteSet(AdmittedCallers) /\ Cardinality(AdmittedCallers) \in Nat
  BY Counts
<1>4. /\ Cardinality(PendingCallers \cup {c}) =
            IF c \in PendingCallers THEN Cardinality(PendingCallers)
                                    ELSE Cardinality(PendingCallers) + 1
      /\ Cardinality(AdmittedCallers \cup {c}) =
            IF c \in AdmittedCallers THEN Cardinality(AdmittedCallers)
                                     ELSE Cardinality(AdmittedCallers) + 1
  BY <1>3, FS_AddElement
<1>5. /\ Cardinality(PendingCallers \ {c}) =
            IF c \in PendingCallers THEN Cardinality(PendingCallers) - 1
                                    ELSE Cardinality(PendingCallers)
      /\ Cardinality(AdmittedCallers \ {c}) =
            IF c \in AdmittedCallers THEN Cardinality(AdmittedCallers) - 1
                                     ELSE Cardinality(AdmittedCallers)
  BY <1>3, FS_RemoveElement
<1> QED
  BY <1>1, <1>2, <1>3, <1>4, <1>5

\* The sizes of the two queues after one entry is added or taken.
LEMMA QuerySizes ==
  ASSUME TypeOK, NEW id \in Ids
  PROVE  /\ \A q \in Queries :
               Size(Emplace(qque, id, q)) \in {Size(qque), Size(qque) + 1}
         /\ id \in Keys(qque) => Size(Erase(qque, id)) = Size(qque) - 1
<1> DEFINE R == Queries \cup {Absent}
<1>1. qque \in [Ids -> R] /\ IsFiniteSet(Ids) /\ Absent \in R
  BY ParametersAssumption DEF TypeOK
<1>2. \A q \in Queries : q \in R /\ q # Absent
  BY AbsentAssumption
<1> HIDE DEF R
<1>3. ASSUME NEW q \in Queries
      PROVE  Size(Emplace(qque, id, q)) \in {Size(qque), Size(qque) + 1}
  BY <1>1, <1>2, EmplaceSize
<1>4. id \in Keys(qque) => Size(Erase(qque, id)) = Size(qque) - 1
  BY <1>1, EraseSize
<1> QED
  BY <1>3, <1>4

\* The same for the results.
LEMMA ResultSizes ==
  ASSUME TypeOK, NEW id \in Ids
  PROVE  /\ \A res \in Result :
               Size(Emplace(rque, id, res)) \in {Size(rque), Size(rque) + 1}
         /\ Size(Erase(rque, id)) <= Size(rque)
<1> DEFINE R == Result \cup {Absent}
<1>1. rque \in [Ids -> R] /\ IsFiniteSet(Ids) /\ Absent \in R
  BY ParametersAssumption DEF TypeOK
<1>2. \A res \in Result : res \in R /\ res # Absent
  BY AbsentAssumption
<1> HIDE DEF R
<1>3. ASSUME NEW res \in Result
      PROVE  Size(Emplace(rque, id, res)) \in {Size(rque), Size(rque) + 1}
  BY <1>1, <1>2, EmplaceSize
<1>4. Size(Erase(rque, id)) <= Size(rque)
  BY <1>1, EraseAnySize
<1> QED
  BY <1>3, <1>4

\* A step that adds no entry and admits no caller keeps the sums.
LEMMA NoAdmission ==
  ASSUME TypeOK, TypeOK', AdmissionOK,
         Size(qque') <= Size(qque), Size(rque') <= Size(rque),
         UNCHANGED tpc,
         \/ UNCHANGED pc
         \/ \E c \in Callers, l \in {"idle", "read_query_size", "return_id", "rand",
                "check_query_key", "emplace_query", "pop_result",
                "return_result", "scan_results", "erase_result"} :
               /\ pc' = [pc EXCEPT ![c] = l]
               /\ l \in CheckedQuerySize => pc[c] \in CheckedResultSize
  PROVE  AdmissionOK'
<1>1. BusyThreads' = BusyThreads
  BY DEF BusyThreads
<1>2. /\ Cardinality(PendingCallers') \in Int
      /\ Cardinality(PendingCallers') <= Cardinality(PendingCallers)
      /\ Cardinality(AdmittedCallers') \in Int
      /\ Cardinality(AdmittedCallers') <= Cardinality(AdmittedCallers)
  <2>1. CASE UNCHANGED pc
    <3>1. PendingCallers' = PendingCallers /\ AdmittedCallers' = AdmittedCallers
      BY <2>1 DEF PendingCallers, AdmittedCallers
    <3> QED
      BY <3>1, Counts
  <2>2. CASE ~UNCHANGED pc
    <3>1. PICK c \in Callers, l \in {"idle", "read_query_size", "return_id", "rand",
             "check_query_key", "emplace_query", "pop_result",
             "return_result", "scan_results", "erase_result"} :
               /\ pc' = [pc EXCEPT ![c] = l]
               /\ l \in CheckedQuerySize => pc[c] \in CheckedResultSize
      BY <2>2
    <3>2. /\ l \in CheckedQuerySize => pc[c] \in CheckedQuerySize
          /\ l \in CheckedResultSize => pc[c] \in CheckedResultSize
      BY <3>1 DEF CheckedResultSize
    <3>3. /\ Cardinality(PendingCallers') = Cardinality(PendingCallers)
               + (IF l \in CheckedQuerySize THEN 1 ELSE 0)
               - (IF pc[c] \in CheckedQuerySize THEN 1 ELSE 0)
          /\ Cardinality(AdmittedCallers') = Cardinality(AdmittedCallers)
               + (IF l \in CheckedResultSize THEN 1 ELSE 0)
               - (IF pc[c] \in CheckedResultSize THEN 1 ELSE 0)
      BY <3>1, MoveCaller
    <3>4. Cardinality(PendingCallers) \in Nat /\ Cardinality(AdmittedCallers) \in Nat
      BY Counts
    <3> QED
      BY <3>2, <3>3, <3>4
  <2> QED
    BY <2>1, <2>2
<1>3. Size(qque') \in Nat /\ Size(rque') \in Nat
  BY SizeIsNat, ParametersAssumption DEF TypeOK
<1>4. MaxConcurrentQueries \in Nat /\ MaxResults \in Nat
  BY ParametersAssumption
<1> QED
  BY <1>1, <1>2, <1>3, <1>4, Counts DEF AdmissionOK

\* Every step of a caller keeps the sums within their limits: the two size
\* tests are the only steps that charge a caller.
LEMMA CallerAdmission ==
  ASSUME TypeOK, TypeOK', LocalsOK, AdmissionOK,
         NEW c \in Callers, Call(c) \/ CallerStep(c)
  PROVE  AdmissionOK'
<1> USE DEF Goto, threadVars
<1>0. PICK N, P, A, B : /\ N = Cardinality(Callers)
                        /\ P = Cardinality(PendingCallers)
                        /\ A = Cardinality(AdmittedCallers)
                        /\ B = Cardinality(BusyThreads)
  OBVIOUS
<1>1. /\ Size(qque) \in Nat /\ Size(rque) \in Nat
      /\ Cardinality(Callers) \in Nat \ {0} /\ Cardinality(Threads) \in Nat
      /\ P \in 0 .. N /\ A \in 0 .. P
      /\ B \in 0 .. Cardinality(Threads)
      /\ MaxConcurrentQueries \in Nat /\ MaxResults \in Nat
  BY <1>0, Counts, ParametersAssumption
<1>2. ASSUME UNCHANGED <<qque, rque, tpc>>,
             NEW l \in {"idle", "read_query_size", "return_id", "rand",
                "check_query_key", "emplace_query", "pop_result",
                "return_result", "scan_results", "erase_result"},
             pc' = [pc EXCEPT ![c] = l],
             l \in CheckedQuerySize => pc[c] \in CheckedResultSize
      PROVE  AdmissionOK'
  <2>1. Size(qque') <= Size(qque) /\ Size(rque') <= Size(rque)
    BY <1>1, <1>2
  <2>2. UNCHANGED tpc
    BY <1>2
  <2> QED
    BY <1>2, <2>1, <2>2, NoAdmission
<1>3. CASE (\E q \in Queries : CallPush(c, q))
             \/ (\E id \in Ids \cup {Refused} : CallPop(c, id)) \/ CallCleanup(c)
  BY <1>2, <1>3 DEF CallPush, CallPop, CallCleanup, CheckedQuerySize
<1>4. CASE ReadQuerySize(c) /\ HasQueryRoom
  <2>1. /\ pc[c] = "read_query_size"
        /\ pc' = [pc EXCEPT ![c] = "read_result_size"]
        /\ UNCHANGED <<qque, rque, tpc>>
    BY <1>4 DEF ReadQuerySize
  <2>2. /\ Cardinality(PendingCallers') = P + 1
        /\ Cardinality(AdmittedCallers') = A
    <3>1. /\ "read_query_size" \notin CheckedQuerySize
          /\ "read_query_size" \notin CheckedResultSize
          /\ "read_result_size" \in CheckedQuerySize
          /\ "read_result_size" \notin CheckedResultSize
      BY DEF CheckedQuerySize, CheckedResultSize
    <3>2. /\ Cardinality(PendingCallers') = Cardinality(PendingCallers)
               + (IF "read_result_size" \in CheckedQuerySize THEN 1 ELSE 0)
               - (IF pc[c] \in CheckedQuerySize THEN 1 ELSE 0)
          /\ Cardinality(AdmittedCallers') = Cardinality(AdmittedCallers)
               + (IF "read_result_size" \in CheckedResultSize THEN 1 ELSE 0)
               - (IF pc[c] \in CheckedResultSize THEN 1 ELSE 0)
      BY <2>1, MoveCaller
    <3> QED
      BY <1>0, <1>1, <2>1, <3>1, <3>2
  <2>3. Cardinality(PendingCallers') <= N
    <3>1. PendingCallers' \subseteq Callers /\ IsFiniteSet(Callers)
      BY ParametersAssumption DEF PendingCallers
    <3> QED
      BY <1>0, <3>1, FS_Subset
  <2>4. Size(qque) + 1 <= MaxConcurrentQueries
    BY <1>1, <1>4 DEF HasQueryRoom
  <2>5. BusyThreads' = BusyThreads
    BY <2>1 DEF BusyThreads
  <2> QED
    BY <1>0, <1>1, <2>1, <2>2, <2>3, <2>4, <2>5 DEF AdmissionOK
<1>5. CASE ReadResultSize(c) /\ HasResultRoom
  <2>1. /\ pc[c] = "read_result_size"
        /\ pc' = [pc EXCEPT ![c] = "srand"]
        /\ UNCHANGED <<qque, rque, tpc>>
    BY <1>5 DEF ReadResultSize
  <2>2. /\ Cardinality(PendingCallers') = P
        /\ Cardinality(AdmittedCallers') = A + 1
    <3>1. /\ "read_result_size" \in CheckedQuerySize
          /\ "read_result_size" \notin CheckedResultSize
          /\ "srand" \in CheckedQuerySize
          /\ "srand" \in CheckedResultSize
      BY DEF CheckedQuerySize, CheckedResultSize
    <3>2. /\ Cardinality(PendingCallers') = Cardinality(PendingCallers)
               + (IF "srand" \in CheckedQuerySize THEN 1 ELSE 0)
               - (IF pc[c] \in CheckedQuerySize THEN 1 ELSE 0)
          /\ Cardinality(AdmittedCallers') = Cardinality(AdmittedCallers)
               + (IF "srand" \in CheckedResultSize THEN 1 ELSE 0)
               - (IF pc[c] \in CheckedResultSize THEN 1 ELSE 0)
      BY <2>1, MoveCaller
    <3> QED
      BY <1>0, <1>1, <2>1, <3>1, <3>2
  <2>3. Cardinality(AdmittedCallers') <= Cardinality(PendingCallers')
    <3>1. PendingCallers' \subseteq Callers /\ IsFiniteSet(Callers)
      BY ParametersAssumption DEF PendingCallers
    <3>2. AdmittedCallers' \subseteq PendingCallers'
      BY DEF AdmittedCallers, PendingCallers, CheckedResultSize
    <3> QED
      BY <3>1, <3>2, FS_Subset
  <2>4. Size(rque) + 1 <= MaxResults
    BY <1>1, <1>5 DEF HasResultRoom
  <2>5. BusyThreads' = BusyThreads
    BY <2>1 DEF BusyThreads
  <2> QED
    BY <1>0, <1>1, <2>1, <2>2, <2>3, <2>4, <2>5 DEF AdmissionOK
<1>6. CASE Refuse(c) /\ UNCHANGED <<qque, rque, tpc>>
  BY <1>2, <1>6 DEF Refuse, CheckedQuerySize
<1>7. CASE Srand(c) \/ Rand(c) \/ ReturnId(c)
  BY <1>2, <1>7 DEF Srand, Rand, ReturnId, CheckedQuerySize, CheckedResultSize
<1>8. CASE CheckQueryKey(c) /\ ~Refuse(c)
  BY <1>2, <1>8 DEF CheckQueryKey, CheckedQuerySize, CheckedResultSize
<1>9. CASE EmplaceQuery(c)
  <2>1. /\ pc[c] = "emplace_query"
        /\ pc' = [pc EXCEPT ![c] = "return_id"]
        /\ qque' = Emplace(qque, ticket[query[c]], query[c])
        /\ UNCHANGED <<rque, tpc>>
    BY <1>9 DEF EmplaceQuery
  <2>2. query[c] \in Queries /\ ticket[query[c]] \in Ids
    BY <2>1 DEF TypeOK, LocalsOK, HasDrawn, PushLabels, CheckedQuerySize
  <2>3. Size(qque') \in {Size(qque), Size(qque) + 1}
    BY <2>1, <2>2, QuerySizes
  <2>4. /\ Cardinality(PendingCallers') = P - 1
        /\ Cardinality(AdmittedCallers') = A - 1
    <3>1. /\ "emplace_query" \in CheckedQuerySize
          /\ "emplace_query" \in CheckedResultSize
          /\ "return_id" \notin CheckedQuerySize
          /\ "return_id" \notin CheckedResultSize
      BY DEF CheckedQuerySize, CheckedResultSize
    <3>2. /\ Cardinality(PendingCallers') = Cardinality(PendingCallers)
               + (IF "return_id" \in CheckedQuerySize THEN 1 ELSE 0)
               - (IF pc[c] \in CheckedQuerySize THEN 1 ELSE 0)
          /\ Cardinality(AdmittedCallers') = Cardinality(AdmittedCallers)
               + (IF "return_id" \in CheckedResultSize THEN 1 ELSE 0)
               - (IF pc[c] \in CheckedResultSize THEN 1 ELSE 0)
      BY <2>1, MoveCaller
    <3> QED
      BY <1>0, <1>1, <2>1, <3>1, <3>2
  <2>5. BusyThreads' = BusyThreads
    BY <2>1 DEF BusyThreads
  <2> QED
    BY <1>0, <1>1, <2>1, <2>3, <2>4, <2>5 DEF AdmissionOK
<1>10. CASE PopStep(c) \/ CleanupStep(c)
  <2>1. ASSUME NEW id \in Ids, rque' = Erase(rque, id)
        PROVE  Size(rque') <= Size(rque)
    BY <2>1, ResultSizes
  <2>2. Size(rque') <= Size(rque)
    <3>1. CASE UNCHANGED rque
      BY <1>1, <3>1
    <3>2. CASE \E id \in Ids : rque' = Erase(rque, id)
      BY <2>1, <3>2
    <3>3. UNCHANGED rque \/ \E id \in Ids : rque' = Erase(rque, id)
      BY <1>10 DEF PopStep, CleanupStep, PopResult, ReturnResult, ScanResults,
                   EraseResult, ReturnCleanup, Poppable, Keys, TypeOK
    <3> QED
      BY <3>1, <3>2, <3>3
  <2>3. UNCHANGED <<qque, tpc>>
    BY <1>10 DEF PopStep, CleanupStep, PopResult, ReturnResult, ScanResults,
                 EraseResult, ReturnCleanup
  <2>4. \/ UNCHANGED pc
        \/ \E l \in {"idle", "return_result", "erase_result"} :
              pc' = [pc EXCEPT ![c] = l]
    BY <1>10 DEF PopStep, CleanupStep, PopResult, ReturnResult, ScanResults,
                 EraseResult, ReturnCleanup
  <2> QED
    BY <1>1, <2>2, <2>3, <2>4, NoAdmission DEF CheckedQuerySize
<1>11. ReadQuerySize(c) /\ ~HasQueryRoom =>
          Refuse(c) /\ UNCHANGED <<qque, rque, tpc>>
  BY DEF ReadQuerySize
<1>12. ReadResultSize(c) /\ ~HasResultRoom =>
          Refuse(c) /\ UNCHANGED <<qque, rque, tpc>>
  BY DEF ReadResultSize
<1>13. CheckQueryKey(c) => UNCHANGED <<qque, rque, tpc>>
  BY DEF CheckQueryKey
<1> QED
  BY <1>3, <1>4, <1>5, <1>6, <1>7, <1>8, <1>9, <1>10, <1>11, <1>12, <1>13
  DEF Call, CallerStep, PushStep

\* A thread moves a query from one count to another.
LEMMA ThreadAdmission ==
  ASSUME TypeOK, TypeOK', LocalsOK, AdmissionOK, NEW t \in Threads, ThreadStep(t)
  PROVE  AdmissionOK'
<1>0. PICK B : B = Cardinality(BusyThreads)
  OBVIOUS
<1>1. /\ Size(qque) \in Nat /\ Size(rque) \in Nat
      /\ Cardinality(Callers) \in Nat /\ Cardinality(Threads) \in Nat
      /\ Cardinality(PendingCallers) \in Nat
      /\ Cardinality(AdmittedCallers) \in Nat
      /\ IsFiniteSet(BusyThreads) /\ B \in Nat
      /\ MaxConcurrentQueries \in Nat /\ MaxResults \in Nat
  BY <1>0, Counts, ParametersAssumption
<1>2. UNCHANGED pc
  BY DEF ThreadStep, TakeQuery, Compute, CheckResultKey, EmplaceResult,
         callerVars
<1>3. PendingCallers' = PendingCallers /\ AdmittedCallers' = AdmittedCallers
  BY <1>2 DEF PendingCallers, AdmittedCallers
<1>4. CASE TakeQuery(t)
  <2>1. PICK id \in Keys(qque) : qque' = Erase(qque, id)
    BY <1>4 DEF TakeQuery, Front
  <2>2. Size(qque') = Size(qque) - 1
    <3>1. id \in Ids
      BY DEF Keys, TypeOK
    <3> QED
      BY <2>1, <3>1, QuerySizes
  <2>3. BusyThreads' = BusyThreads \cup {t} /\ t \notin BusyThreads
    BY <1>4 DEF TakeQuery, ThreadGoto, BusyThreads, TypeOK
  <2>4. Cardinality(BusyThreads') = B + 1
    BY <1>0, <1>1, <2>3, FS_AddElement
  <2>5. UNCHANGED rque
    BY <1>4 DEF TakeQuery
  <2> QED
    BY <1>0, <1>1, <1>3, <2>2, <2>4, <2>5 DEF AdmissionOK
<1>5. CASE Compute(t) \/ CheckResultKey(t)
  <2>1. BusyThreads' = BusyThreads /\ UNCHANGED <<qque, rque>>
    BY <1>5 DEF Compute, CheckResultKey, ThreadGoto, BusyThreads, TypeOK
  <2> QED
    BY <1>3, <2>1 DEF AdmissionOK
<1>6. CASE EmplaceResult(t)
  <2>1. job[t] \in Job
    BY <1>6 DEF EmplaceResult, TypeOK, LocalsOK
  <2>2. PICK res \in Result : rque' = Emplace(rque, job[t].id, res)
    BY <1>6, <2>1 DEF EmplaceResult, Job, Result
  <2>3. Size(rque') \in {Size(rque), Size(rque) + 1}
    <3>1. job[t].id \in Ids
      BY <2>1 DEF Job
    <3> QED
      BY <2>2, <3>1, ResultSizes
  <2>4. BusyThreads' = BusyThreads \ {t} /\ t \in BusyThreads
    BY <1>6 DEF EmplaceResult, ThreadGoto, BusyThreads, TypeOK
  <2>5. Cardinality(BusyThreads') = B - 1
    BY <1>0, <1>1, <2>4, FS_RemoveElement
  <2>6. UNCHANGED qque
    BY <1>6 DEF EmplaceResult
  <2> QED
    BY <1>0, <1>1, <1>3, <2>3, <2>5, <2>6 DEF AdmissionOK
<1> QED
  BY <1>4, <1>5, <1>6 DEF ThreadStep

\* The queues hold at most what their limits and the callers let in allow.
LEMMA AdmissionInvariant == Spec => []AdmissionOK
<1>1. Init => AdmissionOK
  <2> SUFFICES ASSUME Init PROVE AdmissionOK
    OBVIOUS
  <2>1. /\ Keys(qque) = {} /\ Keys(rque) = {} /\ PendingCallers = {}
        /\ AdmittedCallers = {} /\ BusyThreads = {}
    BY DEF Init, EmptyMap, Keys, PendingCallers, AdmittedCallers, BusyThreads,
           CheckedQuerySize, CheckedResultSize
  <2>2. /\ Size(qque) = 0 /\ Size(rque) = 0 /\ Cardinality(PendingCallers) = 0
        /\ Cardinality(AdmittedCallers) = 0 /\ Cardinality(BusyThreads) = 0
    BY <2>1, FS_EmptySet DEF Size
  <2>3. Cardinality(Callers) \in Nat \ {0} /\ Cardinality(Threads) \in Nat \ {0}
    BY ParametersAssumption, FS_EmptySet, FS_CardinalityType
  <2>4. MaxConcurrentQueries \in Nat /\ MaxResults \in Nat
    BY ParametersAssumption
  <2> QED
    BY <2>2, <2>3, <2>4 DEF AdmissionOK
<1>2. TypeOK /\ TypeOK' /\ LocalsOK /\ AdmissionOK /\ [Next]_vars => AdmissionOK'
  <2> SUFFICES ASSUME TypeOK, TypeOK', LocalsOK, AdmissionOK, [Next]_vars
               PROVE  AdmissionOK'
    OBVIOUS
  <2>1. CASE Tick \/ UNCHANGED vars
    BY <2>1
    DEF Tick, vars, callerVars, threadVars, AdmissionOK, PendingCallers,
        AdmittedCallers, BusyThreads
  <2> QED
    BY <2>1, CallerAdmission, ThreadAdmission DEF Next
<1> QED
  BY <1>1, <1>2, TypeCorrect, PTL DEF Spec

\* At most one query per caller is queued beyond max_concurrent_queries, less
\* the one that found room.
THEOREM QueryCapacityHolds == Spec => []QueryCapacity
<1>1. TypeOK /\ AdmissionOK => QueryCapacity
  <2> SUFFICES ASSUME TypeOK, AdmissionOK PROVE QueryCapacity
    OBVIOUS
  <2>1. /\ Size(qque) \in Nat /\ Cardinality(Callers) \in Nat
        /\ Cardinality(PendingCallers) \in Nat /\ MaxConcurrentQueries \in Nat
    BY Counts, ParametersAssumption
  <2>2. Size(qque) + Cardinality(PendingCallers)
           <= MaxConcurrentQueries + Cardinality(Callers) - 1
    BY DEF AdmissionOK
  <2> QED
    BY <2>1, <2>2 DEF QueryCapacity
<1> QED
  BY <1>1, TypeCorrect, AdmissionInvariant, PTL

\* Beyond max_results the result queue holds at most what was queued or
\* computed when the last query was admitted.
THEOREM ResultCapacityHolds == Spec => []ResultCapacity
<1>1. TypeOK /\ AdmissionOK => ResultCapacity
  <2> SUFFICES ASSUME TypeOK, AdmissionOK PROVE ResultCapacity
    OBVIOUS
  <2>1. /\ Size(qque) \in Nat /\ Size(rque) \in Nat
        /\ Cardinality(Callers) \in Nat /\ Cardinality(Threads) \in Nat
        /\ Cardinality(PendingCallers) \in Nat
    BY Counts
  <2>2. /\ Cardinality(AdmittedCallers) \in Nat
        /\ Cardinality(BusyThreads) \in Nat
        /\ MaxConcurrentQueries \in Nat /\ MaxResults \in Nat
    BY <2>1, Counts, ParametersAssumption
  <2>3. Size(rque) + Cardinality(BusyThreads) + Size(qque)
           + Cardinality(AdmittedCallers)
           <= MaxResults + MaxConcurrentQueries
              + Cardinality(Callers) + Cardinality(Threads) - 2
    BY DEF AdmissionOK
  <2> QED
    BY <2>1, <2>2, <2>3 DEF ResultCapacity
<1> QED
  BY <1>1, TypeCorrect, AdmissionInvariant, PTL

\* Every step leaves each queue as it is, emplaces in it or erases from it.
LEMMA MapSteps ==
  ASSUME TypeOK, LocalsOK, [Next]_vars
  PROVE  /\ \/ UNCHANGED qque
            \/ \E id \in Ids : qque' = Erase(qque, id)
            \/ \E id \in Ids, q \in Queries : qque' = Emplace(qque, id, q)
         /\ \/ UNCHANGED rque
            \/ \E id \in Ids : rque' = Erase(rque, id)
            \/ \E id \in Ids, res \in Result : rque' = Emplace(rque, id, res)
<1>1. CASE UNCHANGED vars \/ Tick
  BY <1>1 DEF vars, Tick
<1>2. ASSUME NEW c \in Callers, Call(c) \/ CallerStep(c), ~EmplaceQuery(c)
      PROVE  /\ UNCHANGED qque
             /\ UNCHANGED rque \/ \E id \in Ids : rque' = Erase(rque, id)
  <2>1. rque \in [Ids -> Result \cup {Absent}] /\ expired[c] \subseteq Ids
    BY DEF TypeOK
  <2> QED
    BY <1>2, <2>1
    DEF Call, CallerStep, PushStep, PopStep, CleanupStep, CallPush, CallPop,
        CallCleanup, ReadQuerySize, ReadResultSize, Srand, Rand, CheckQueryKey,
        ReturnId, PopResult, ReturnResult, ScanResults, EraseResult,
        ReturnCleanup, Poppable, Keys
<1>3. ASSUME NEW c \in Callers, EmplaceQuery(c)
      PROVE  /\ UNCHANGED rque
             /\ \E id \in Ids, q \in Queries : qque' = Emplace(qque, id, q)
  <2>1. query[c] \in Queries /\ ticket[query[c]] \in Ids
    BY <1>3 DEF EmplaceQuery, TypeOK, LocalsOK, HasDrawn, PushLabels,
                CheckedQuerySize
  <2> QED
    BY <1>3, <2>1 DEF EmplaceQuery
<1>4. ASSUME NEW t \in Threads, ThreadStep(t), ~EmplaceResult(t)
      PROVE  /\ UNCHANGED rque
             /\ UNCHANGED qque \/ \E id \in Ids : qque' = Erase(qque, id)
  <2>1. qque \in [Ids -> Queries \cup {Absent}]
    BY DEF TypeOK
  <2> QED
    BY <1>4, <2>1
    DEF ThreadStep, TakeQuery, Compute, CheckResultKey, Front, Keys
<1>5. ASSUME NEW t \in Threads, EmplaceResult(t)
      PROVE  /\ UNCHANGED qque
             /\ \E id \in Ids, res \in Result : rque' = Emplace(rque, id, res)
  <2>1. job[t] \in Job
    BY <1>5 DEF EmplaceResult, TypeOK, LocalsOK
  <2> QED
    BY <1>5, <2>1 DEF EmplaceResult, Job, Result
<1> QED
  BY <1>1, <1>2, <1>3, <1>4, <1>5 DEF Next

\* What push stored under an id stays as it is until pop takes it.
THEOREM EntriesAreFinalHolds == Spec => EntriesAreFinal
<1> DEFINE Final ==
      \A id \in Ids :
          /\ Holds(qque, id) => qque'[id] \in {qque[id], Absent}
          /\ Holds(rque, id) => rque'[id] \in {rque[id], Absent}
<1>1. ASSUME TypeOK, LocalsOK, [Next]_vars PROVE Final
  <2>1. /\ qque \in [Ids -> Queries \cup {Absent}]
        /\ rque \in [Ids -> Result \cup {Absent}]
    BY <1>1 DEF TypeOK
  <2>3. ASSUME NEW id \in Ids, Holds(qque, id)
        PROVE  qque'[id] \in {qque[id], Absent}
    <3>1. \A key \in Ids : Erase(qque, key)[id] \in {qque[id], Absent}
      BY <2>1 DEF Erase
    <3>2. \A key \in Ids, q \in Queries : Emplace(qque, key, q)[id] = qque[id]
      BY <2>1, <2>3 DEF Emplace, Holds
    <3>3. \/ UNCHANGED qque
          \/ \E key \in Ids : qque' = Erase(qque, key)
          \/ \E key \in Ids, q \in Queries : qque' = Emplace(qque, key, q)
      BY <1>1, MapSteps
    <3> QED
      BY <3>1, <3>2, <3>3
  <2>4. ASSUME NEW id \in Ids, Holds(rque, id)
        PROVE  rque'[id] \in {rque[id], Absent}
    <3>1. \A key \in Ids : Erase(rque, key)[id] \in {rque[id], Absent}
      BY <2>1 DEF Erase
    <3>2. \A key \in Ids, res \in Result : Emplace(rque, key, res)[id] = rque[id]
      BY <2>1, <2>4 DEF Emplace, Holds
    <3>3. \/ UNCHANGED rque
          \/ \E key \in Ids : rque' = Erase(rque, key)
          \/ \E key \in Ids, res \in Result : rque' = Emplace(rque, key, res)
      BY <1>1, MapSteps
    <3> QED
      BY <3>1, <3>2, <3>3
  <2> QED
    BY <2>3, <2>4
<1>2. TypeOK /\ LocalsOK /\ [Next]_vars => [Final]_vars
  BY <1>1
<1> QED
  BY <1>2, TypeCorrect, PTL DEF Spec, EntriesAreFinal

\* All that the safety theorems rest on, in one invariant.
THEOREM IndInvHolds == Spec => []IndInv
  BY TypeCorrect, PlacesInvariant, AdmissionInvariant, OwnResultHolds,
     DeathHasACauseHolds, PTL
  DEF IndInv

-----------------------------------------------------------------------------
(* The cleanup *)

\* An id the cleanup has collected was that of a result past its lifetime,
\* which is still there or has left.
Judged(id) ==
    \E p \in Queries :
       /\ ticket[p] = id /\ ~Choosing(p)
       /\ \/ p \in delivered \cup cleaned
          \/ Holds(rque, id) /\ rque[id].query = p /\ IsExpired(id)

JudgedOK == \A c \in Callers : \A id \in expired[c] : Judged(id)

\* Time goes on, and a result leaves its queue to a caller or the cleanup.
LEMMA ResultGoes ==
  ASSUME TypeOK, LocalsOK, [Next]_vars
  PROVE  /\ delivered \subseteq delivered' /\ cleaned \subseteq cleaned'
         /\ clock' \in {clock, clock + 1}
         /\ \A id \in Ids : Holds(rque, id) =>
               rque'[id] = rque[id] \/ rque[id].query \in delivered' \cup cleaned'
<1> DEFINE Goes ==
      /\ delivered \subseteq delivered' /\ cleaned \subseteq cleaned'
      /\ clock' \in {clock, clock + 1}
      /\ \A id \in Ids : Holds(rque, id) =>
            rque'[id] = rque[id] \/ rque[id].query \in delivered' \cup cleaned'
<1>t. rque \in [Ids -> Result \cup {Absent}]
  BY DEF TypeOK
<1>1. CASE Tick \/ UNCHANGED vars
  BY <1>1 DEF Tick, vars
<1>2. ASSUME NEW c \in Callers, PopResult(c) PROVE Goes
  <2>1. PICK id \in Ids : /\ rque' = Erase(rque, id)
                          /\ delivered' = delivered \cup {rque[id].query}
    BY <1>2 DEF PopResult, Poppable, Keys, TypeOK
  <2>2. \A k \in Ids \ {id} : rque'[k] = rque[k]
    BY <1>t, <2>1 DEF Erase
  <2> QED
    BY <1>2, <2>1, <2>2 DEF PopResult
<1>3. ASSUME NEW c \in Callers, EraseResult(c) PROVE Goes
  <2>1. PICK id \in expired[c] :
           /\ rque' = Erase(rque, id)
           /\ cleaned' = cleaned \cup
                 {q \in Queries : Holds(rque, id) /\ rque[id].query = q}
    BY <1>3 DEF EraseResult
  <2>2. id \in Ids
    BY DEF TypeOK
  <2>3. \A k \in Ids \ {id} : rque'[k] = rque[k]
    BY <1>t, <2>1 DEF Erase
  <2>4. Holds(rque, id) => rque[id].query \in cleaned'
    BY <1>t, <2>1, <2>2 DEF Holds, Result
  <2> QED
    BY <1>3, <2>1, <2>3, <2>4 DEF EraseResult
<1>4. ASSUME NEW c \in Callers, Call(c) \/ CallerStep(c), ~PopResult(c),
             ~EraseResult(c)
      PROVE  Goes
  BY <1>4
  DEF Call, CallerStep, PushStep, PopStep, CleanupStep, CallPush, CallPop,
      CallCleanup, ReadQuerySize, ReadResultSize, Srand, Rand, CheckQueryKey,
      EmplaceQuery, ReturnId, ReturnResult, ScanResults, ReturnCleanup
<1>5. ASSUME NEW t \in Threads, ThreadStep(t) PROVE Goes
  <2>1. /\ UNCHANGED <<clock, delivered, cleaned>>
        /\ UNCHANGED rque \/ \E id, res : rque' = Emplace(rque, id, res)
    BY <1>5 DEF ThreadStep, TakeQuery, Compute, CheckResultKey, EmplaceResult
  <2>2. \A id, res : \A k \in Ids :
           Holds(rque, k) => Emplace(rque, id, res)[k] = rque[k]
    BY <1>t DEF Emplace, Holds
  <2> QED
    BY <2>1, <2>2
<1> QED
  BY <1>1, <1>2, <1>3, <1>4, <1>5 DEF Next

\* What is judged stays judged, whatever takes the result away.
LEMMA JudgedStays ==
  ASSUME TypeOK, LocalsOK, [Next]_vars, NEW id \in Ids, Judged(id)
  PROVE  Judged(id)'
<1>1. PICK p \in Queries :
         /\ ticket[p] = id /\ ~Choosing(p)
         /\ \/ p \in delivered \cup cleaned
            \/ Holds(rque, id) /\ rque[id].query = p /\ IsExpired(id)
  BY DEF Judged
<1>2. ticket'[p] = id /\ ~Choosing(p)'
  BY <1>1, TicketsStay
<1>3. CASE p \in delivered' \cup cleaned'
  BY <1>2, <1>3 DEF Judged
<1>4. CASE p \notin delivered' \cup cleaned'
  <2>1. Holds(rque, id) /\ rque[id].query = p /\ IsExpired(id)
    BY <1>1, <1>4, ResultGoes
  <2>2. rque'[id] = rque[id] /\ clock' \in {clock, clock + 1}
    BY <1>4, <2>1, ResultGoes
  <2>3. clock \in Nat /\ rque[id].created \in Nat /\ ResultLifetimeSec \in Nat
    BY <2>1, ParametersAssumption DEF Holds, TypeOK, Result, Seconds
  <2>4. clock' - rque[id].created >= ResultLifetimeSec
    BY <2>1, <2>2, <2>3 DEF IsExpired
  <2>5. Holds(rque', id) /\ rque'[id].query = p /\ IsExpired(id)'
    BY <2>1, <2>2, <2>4 DEF Holds, IsExpired
  <2> QED
    BY <1>2, <2>5 DEF Judged
<1> QED
  BY <1>3, <1>4

\* What the cleanup collects is judged.
LEMMA JudgedStep ==
  ASSUME TypeOK, LocalsOK, PlacedOK, JudgedOK, [Next]_vars
  PROVE  JudgedOK'
<1> SUFFICES ASSUME NEW c \in Callers, NEW id \in expired'[c]
             PROVE  id \in Ids /\ Judged(id)
  BY JudgedStays DEF JudgedOK
<1>t. expired \in [Callers -> SUBSET Ids]
  BY DEF TypeOK
<1>1. CASE id \in expired[c]
  BY <1>1 DEF JudgedOK, TypeOK
<1>2. ASSUME id \notin expired[c]
      PROVE  /\ ScanResults(c)
             /\ id \in Keys(rque) /\ IsExpired(id)
  <2>1. CASE Tick \/ UNCHANGED vars
    BY <1>2, <2>1 DEF Tick, vars, callerVars
  <2>2. ASSUME NEW t \in Threads, ThreadStep(t) PROVE FALSE
    BY <1>2, <2>2
    DEF ThreadStep, TakeQuery, Compute, CheckResultKey, EmplaceResult, callerVars
  <2>3. ASSUME NEW d \in Callers, Call(d) \/ CallerStep(d), ~ScanResults(d)
        PROVE  FALSE
    <3>1. UNCHANGED expired \/ \E k : expired' = [expired EXCEPT ![d] = @ \ {k}]
      BY <2>3
      DEF Call, CallerStep, PushStep, PopStep, CleanupStep, CallPush, CallPop,
          CallCleanup, ReadQuerySize, ReadResultSize, Srand, Rand, CheckQueryKey,
          EmplaceQuery, ReturnId, PopResult, ReturnResult, EraseResult,
          ReturnCleanup
    <3> QED
      BY <1>t, <1>2, <3>1
  <2>4. ASSUME NEW d \in Callers, ScanResults(d)
        PROVE  d = c /\ id \in Keys(rque) /\ IsExpired(id)
    <3>1. PICK seen \in SUBSET {k \in Keys(rque) : IsExpired(k)} :
             expired' = [expired EXCEPT ![d] = seen]
      BY <2>4 DEF ScanResults
    <3> QED
      BY <1>t, <1>2, <3>1
  <2> QED
    BY <2>1, <2>2, <2>3, <2>4 DEF Next
<1>3. CASE id \notin expired[c]
  <2>1. id \in Ids /\ Holds(rque, id) /\ IsExpired(id)
    BY <1>2, <1>3 DEF Keys, Holds, TypeOK
  <2>2. PICK p \in Queries : p = rque[id].query
    BY <2>1 DEF Holds, TypeOK, Result
  <2>3. ticket[p] = id /\ ~Choosing(p)
    BY <1>2, <1>3, <2>2 DEF PlacedOK, Ready
  <2> QED
    BY <2>1, <2>2, <2>3 DEF Judged
<1> QED
  BY <1>1, <1>3

\* cleanup_results erases by id what it judged by value: the result it finds
\* is past its lifetime, unless its id was in use twice.
THEOREM CleanedWereExpiredHolds == Spec => CleanedWereExpired
<1> DEFINE WereExpired ==
      \A id \in Ids :
          (Holds(rque, id) /\ rque[id].query \in cleaned' \ cleaned) =>
             \/ clock - rque[id].created >= ResultLifetimeSec
             \/ Collides(rque[id].query)
<1>1. Init => JudgedOK
  BY DEF Init, JudgedOK
<1>2. ASSUME IndInv, JudgedOK, [Next]_vars, NEW id \in Ids,
             Holds(rque, id), rque[id].query \in cleaned' \ cleaned
      PROVE  \/ clock - rque[id].created >= ResultLifetimeSec
             \/ Collides(rque[id].query)
  <2> USE <1>2 DEF IndInv
  <2>1. PICK c \in Callers : EraseResult(c)
    BY DEF Next, Tick, vars, ThreadStep, TakeQuery, Compute, CheckResultKey,
           EmplaceResult, Call, CallerStep, PushStep, PopStep, CleanupStep,
           CallPush, CallPop, CallCleanup, ReadQuerySize, ReadResultSize, Srand,
           Rand, CheckQueryKey, EmplaceQuery, ReturnId, PopResult, ReturnResult,
           ScanResults, ReturnCleanup
  <2>2. PICK k \in expired[c] :
           cleaned' = cleaned \cup
              {q \in Queries : Holds(rque, k) /\ rque[k].query = q}
    BY <2>1 DEF EraseResult
  <2>3. k \in Ids
    BY DEF TypeOK
  <2>4. PICK q \in Queries : q = rque[id].query
    BY DEF Holds, TypeOK, Result
  <2>5. Holds(rque, k) /\ rque[k].query = q
    BY <2>2, <2>4
  <2>6. k \in Keys(rque) /\ id \in Keys(rque)
    BY <2>3, <2>5 DEF Keys, Holds, TypeOK
  <2>7. k = id /\ ticket[q] = id
    BY <2>4, <2>5, <2>6 DEF PlacedOK
  <2>8. Ready(q)
    BY <2>4, <2>6 DEF Ready
  <2>9. PICK p \in Queries :
           /\ ticket[p] = id /\ ~Choosing(p)
           /\ \/ p \in delivered \cup cleaned
              \/ Holds(rque, id) /\ rque[id].query = p /\ IsExpired(id)
    BY <2>7 DEF JudgedOK, Judged
  <2>10. CASE p = q
    BY <2>8, <2>9, <2>10 DEF ComputedOnce, IsExpired
  <2>11. CASE p # q
    BY <2>4, <2>7, <2>9, <2>11 DEF Collides
  <2> QED
    BY <2>10, <2>11
<1>3. IndInv /\ JudgedOK /\ [Next]_vars => [WereExpired]_vars
  BY <1>2
<1>4. IndInv /\ JudgedOK /\ [Next]_vars => JudgedOK'
  BY JudgedStep DEF IndInv
<1> QED
  BY <1>1, <1>3, <1>4, IndInvHolds, PTL DEF Spec, CleanedWereExpired

-----------------------------------------------------------------------------
(* Where a query is in its life *)

Failed(q)  == \E t \in Threads : RunsOn(t, q) /\ tpc[t] = "dead"
Settled(q) == ticket[q] \in Ids /\ ~Choosing(q)

\* A caller returns with an id, or with a refusal.
ReturnOK == \A c \in Callers : pc[c] = "return_id" => ticket[query[c]] # NoId

\* The phase of a query, in the terms of the lemmas below.
LEMMA PhaseIs ==
  ASSUME NEW q \in Queries
  PROVE  LifePhase[q] = IF q \in delivered THEN "collected"
                        ELSE IF q \in cleaned THEN "expired"
                        ELSE IF Ready(q) THEN "ready"
                        ELSE IF Failed(q) THEN "failed"
                        ELSE IF Running(q) THEN "computing"
                        ELSE IF Queued(q) THEN "queued"
                        ELSE IF ticket[q] = Refused THEN "refused"
                        ELSE IF Settled(q) THEN "dropped"
                        ELSE IF Pushing(q) THEN "offered" ELSE "new"
  BY MarksAreNoIds DEF LifePhase, LifeId, Failed, Settled

\* A query about which nothing changes keeps its phase.
LEMMA PhaseStays ==
  ASSUME NEW q \in Queries,
         q \in delivered' <=> q \in delivered, q \in cleaned' <=> q \in cleaned,
         Ready(q)' <=> Ready(q), Failed(q)' <=> Failed(q),
         Running(q)' <=> Running(q), Queued(q)' <=> Queued(q),
         ticket'[q] = Refused <=> ticket[q] = Refused,
         Settled(q)' <=> Settled(q),
         \/ Pushing(q)' <=> Pushing(q)
         \/ ticket[q] = Refused \/ Settled(q)
  PROVE  LifePhase'[q] = LifePhase[q]
<1>1. LifeId'[q] \in Ids <=> LifeId[q] \in Ids
  BY MarksAreNoIds DEF LifeId, Settled
<1>2. ticket[q] = Refused \/ LifeId[q] \in Ids \/ (Pushing(q)' <=> Pushing(q))
  BY DEF LifeId, Settled
<1> QED
  BY <1>1, <1>2 DEF LifePhase, Failed

\* One query moves, the others keep their phases.
LEMMA OneMoves ==
  ASSUME NEW m \in Queries, NEW to, LifePhase'[m] = to,
         \A q \in Queries \ {m} : LifePhase'[q] = LifePhase[q]
  PROVE  LifePhase' = [LifePhase EXCEPT ![m] = to]
<1>1. LifePhase = [q \in Queries |-> LifePhase[q]]
  BY DEF LifePhase
<1>2. LifePhase' = [q \in Queries |-> LifePhase'[q]]
  BY DEF LifePhase
<1> HIDE DEF LifePhase
<1> QED
  BY <1>1, <1>2

\* A step that leaves the tickets, and who chooses, alone keeps the ids.
LEMMA IdsStay ==
  ASSUME \A q \in Queries : ticket'[q] = ticket[q] /\ (Choosing(q)' <=> Choosing(q))
  PROVE  /\ LifeId' = LifeId
         /\ \A q \in Queries : (Settled(q)' <=> Settled(q))
                               /\ (ticket'[q] = Refused <=> ticket[q] = Refused)
  BY DEF LifeId, Settled

\* A step that leaves the queues, the jobs and the histories alone moves only
\* what it settles.
LEMMA PlacesStay ==
  ASSUME UNCHANGED <<qque, rque, tpc, job, delivered, cleaned>>
  PROVE  /\ LifeWorker' = LifeWorker
         /\ \A q \in Queries : /\ q \in delivered' <=> q \in delivered
                               /\ q \in cleaned' <=> q \in cleaned
                               /\ Ready(q)' <=> Ready(q)
                               /\ Failed(q)' <=> Failed(q)
                               /\ Running(q)' <=> Running(q)
                               /\ Queued(q)' <=> Queued(q)
  BY DEF LifeWorker, Ready, Keys, Failed, Running, RunsOn, Queued

\* A query that has no id yet, or still chooses, is nowhere.
LEMMA Nowhere ==
  ASSUME TypeOK, PlacedOK, NEW q \in Queries, ticket[q] \notin Ids \/ Choosing(q)
  PROVE  /\ q \notin delivered /\ q \notin cleaned
         /\ ~Ready(q) /\ ~Failed(q) /\ ~Running(q) /\ ~Queued(q) /\ ~Settled(q)
<1>1. ~Queued(q) /\ ~Running(q) /\ ~Ready(q) /\ q \notin delivered \cup cleaned
  BY NotYetPlaced
<1> QED
  BY <1>1 DEF Failed, Running, Settled

-----------------------------------------------------------------------------
(* The callers *)

\* CallPush is Offer.
LEMMA CallPushOffers ==
  ASSUME IndInv, NEW c \in Callers, NEW m \in Queries, CallPush(c, m)
  PROVE  Life!Offer(m)
<1> USE DEF IndInv
<1>1. /\ ticket[m] = NoId /\ ~Pushing(m)
      /\ query[c] = Absent /\ pc[c] = "idle"
      /\ query' = [query EXCEPT ![c] = m]
      /\ pc' = [pc EXCEPT ![c] = "read_query_size"]
      /\ UNCHANGED <<qque, rque, tpc, job, ticket, delivered, cleaned>>
  BY DEF CallPush, Fresh, Pushing, Goto, threadVars, LocalsOK, PushLabels,
         CheckedQuerySize
<1>2. \A q \in Queries : /\ Choosing(q)' <=> Choosing(q)
                         /\ Pushing(q)' <=> Pushing(q) \/ q = m
  BY <1>1, AbsentAssumption DEF Choosing, Pushing, HasDrawn, TypeOK
<1>3. LifePhase[m] = "new"
  <2>1. ticket[m] \notin Ids /\ ticket[m] # Refused
    BY <1>1, MarksAreNoIds DEF NoId, Refused
  <2> QED
    BY <1>1, <2>1, Nowhere, PhaseIs
<1>4. LifeWorker' = LifeWorker /\ LifeId' = LifeId
  BY <1>1, <1>2, PlacesStay, IdsStay
<1>5. \A q \in Queries \ {m} : LifePhase'[q] = LifePhase[q]
  BY <1>1, <1>2, PlacesStay, IdsStay, PhaseStays
<1>6. LifePhase'[m] = "offered"
  <2>1. /\ m \notin delivered' /\ m \notin cleaned'
        /\ ~Ready(m)' /\ ~Failed(m)' /\ ~Running(m)' /\ ~Queued(m)'
        /\ ticket'[m] = NoId /\ Pushing(m)'
    BY <1>1, <1>2, Nowhere, MarksAreNoIds, PlacesStay
  <2>2. LifeId'[m] = NoId /\ NoId # Refused /\ NoId \notin Ids
    BY <2>1, MarksAreNoIds DEF LifeId, NoId, Refused
  <2> QED
    BY <2>1, <2>2 DEF LifePhase, Failed
<1>7. LifePhase' = [LifePhase EXCEPT ![m] = "offered"]
  BY <1>5, <1>6, OneMoves
<1> QED
  BY <1>3, <1>4, <1>7 DEF Life!Offer, Life!Move

\* Refusing a query is Refuse.
LEMMA RefuseRefuses ==
  ASSUME IndInv, NEW c \in Callers, Refuse(c),
         pc[c] \in {"read_query_size", "read_result_size", "check_query_key"},
         UNCHANGED <<qque, rque, query, tpc, job, delivered, cleaned>>
  PROVE  \E m \in Queries : Life!Refuse(m)
<1> USE DEF IndInv
<1>0. PICK m \in Queries : m = query[c]
  BY DEF TypeOK, LocalsOK, PushLabels, CheckedQuerySize
<1>1. /\ m \in Queries /\ Pushing(m)
      /\ ticket[m] \notin Ids \/ Choosing(m)
      /\ ticket[m] # Refused
  BY <1>0, MarksAreNoIds
  DEF TypeOK, LocalsOK, PushLabels, CheckedQuerySize, HasDrawn, Choosing,
      Pushing, NoId, Refused
<1>2. /\ ticket' = [ticket EXCEPT ![m] = Refused]
      /\ pc' = [pc EXCEPT ![c] = "return_id"]
  BY <1>0 DEF Refuse, Goto
<1>3. /\ ticket'[m] = Refused
      /\ \A q \in Queries \ {m} : ticket'[q] = ticket[q]
  BY <1>1, <1>2 DEF TypeOK
<1>4. \A q \in Queries : Choosing(q)' <=> Choosing(q) /\ q # m
  BY <1>0, <1>2 DEF Choosing, TypeOK, LocalsOK, PushLabels, CheckedQuerySize, HasDrawn
<1>p. \A q \in Queries : Pushing(q)' <=> Pushing(q)
  BY DEF Pushing
<1>5. LifePhase[m] = "offered"
  BY <1>1, Nowhere, PhaseIs
<1>6. ~Settled(m) /\ ~Settled(m)'
  BY <1>1, <1>3, MarksAreNoIds DEF Settled
<1>7. LifePhase'[m] = "refused"
  <2>1. /\ m \notin delivered' /\ m \notin cleaned'
        /\ ~Ready(m)' /\ ~Failed(m)' /\ ~Running(m)' /\ ~Queued(m)'
    BY <1>1, Nowhere, PlacesStay
  <2> QED
    BY <1>1, <1>3, <2>1 DEF LifePhase, Failed
<1>8. \A q \in Queries \ {m} : Settled(q)' <=> Settled(q)
  BY <1>3, <1>4 DEF Settled
<1>9. \A q \in Queries \ {m} : LifePhase'[q] = LifePhase[q]
  BY <1>3, <1>8, <1>p, PlacesStay, PhaseStays
<1>10. LifeId' = LifeId
  BY <1>3, <1>6, <1>8 DEF LifeId, Settled
<1>11. LifePhase' = [LifePhase EXCEPT ![m] = "refused"]
  BY <1>1, <1>7, <1>9, OneMoves
<1>12. LifeWorker' = LifeWorker
  BY PlacesStay
<1> QED
  BY <1>1, <1>5, <1>10, <1>11, <1>12 DEF Life!Refuse, Life!Move

\* Steps that move nobody stutter: until emplace a query has no id, and once
\* it has one, its caller's return changes nothing.
LEMMA Stutter ==
  ASSUME UNCHANGED <<qque, rque, delivered, cleaned>>,
         \A t \in Threads :
            /\ job'[t] = Absent <=> job[t] = Absent
            /\ job'[t].query = job[t].query
            /\ tpc'[t] = "dead" <=> tpc[t] = "dead",
         \A q \in Queries :
            /\ \/ ticket'[q] = ticket[q] /\ (Choosing(q)' <=> Choosing(q))
               \/ /\ ~Settled(q) /\ ~Settled(q)'
                  /\ ticket[q] # Refused /\ ticket'[q] # Refused
            /\ \/ Pushing(q)' <=> Pushing(q)
               \/ ticket[q] = Refused \/ Settled(q)
  PROVE  UNCHANGED Life!lifeVars
<1>1. \A q \in Queries, t \in Threads : RunsOn(t, q)' <=> RunsOn(t, q)
  BY DEF RunsOn
<1>2. ASSUME NEW q \in Queries
      PROVE  /\ Ready(q)' <=> Ready(q)
             /\ Failed(q)' <=> Failed(q)
             /\ Running(q)' <=> Running(q)
             /\ Queued(q)' <=> Queued(q)
  BY <1>1 DEF Ready, Keys, Failed, Running, Queued
<1>3. ASSUME NEW q \in Queries
      PROVE  /\ Settled(q)' <=> Settled(q)
             /\ ticket'[q] = Refused <=> ticket[q] = Refused
             /\ Settled(q) => ticket'[q] = ticket[q]
  BY DEF Settled
<1>4. \A q \in Queries : LifePhase'[q] = LifePhase[q]
  BY <1>2, <1>3, PhaseStays
<1>5. LifePhase' = LifePhase
  BY <1>4 DEF LifePhase
<1>6. LifeId' = LifeId
  BY <1>3 DEF LifeId, Settled
<1>7. LifeWorker' = LifeWorker
  BY DEF LifeWorker
<1> QED
  BY <1>5, <1>6, <1>7 DEF Life!lifeVars

\* Some query in the result queue, or in the query queue, has the id: that is
\* what Shared says of the queries' phases.
LEMMA SharedIsHeld ==
  ASSUME IndInv, NEW m \in Queries, NEW k \in Ids
  PROVE  /\ Life!Shared(m, k, "queued") <=> Holds(qque, k) /\ qque[k] # m
         /\ Life!Shared(m, k, "ready") <=> Holds(rque, k) /\ rque[k].query # m
<1> USE DEF IndInv
<1>1. \A q \in Queries : LifeId[q] = k => ticket[q] = k /\ ~Choosing(q)
  BY MarksAreNoIds DEF LifeId
<1>2. ASSUME Life!Shared(m, k, "queued") PROVE Holds(qque, k) /\ qque[k] # m
  <2>1. PICK p \in Queries \ {m} : LifeId[p] = k /\ LifePhase[p] = "queued"
    BY <1>2 DEF Life!Shared
  <2>2. Queued(p) /\ ticket[p] = k
    BY <1>1, <2>1, PhaseIs
  <2> QED
    BY <2>1, <2>2, AbsentAssumption DEF Queued, PlacedOK, Holds
<1>3. ASSUME Holds(qque, k), qque[k] # m PROVE Life!Shared(m, k, "queued")
  <2>1. PICK p \in Queries \ {m} : p = qque[k]
    BY <1>3 DEF Holds, TypeOK
  <2>2. Queued(p) /\ ticket[p] = k
    BY <2>1 DEF Queued, PlacedOK
  <2>3. /\ ~Choosing(p) /\ ~Running(p) /\ ~Ready(p)
        /\ p \notin delivered /\ p \notin cleaned
    BY <2>2 DEF PlacedOK, ComputedOnce
  <2>4. LifePhase[p] = "queued" /\ LifeId[p] = k
    BY <2>2, <2>3, PhaseIs DEF Failed, Running, LifeId
  <2> QED
    BY <2>4 DEF Life!Shared
<1>4. ASSUME Life!Shared(m, k, "ready") PROVE Holds(rque, k) /\ rque[k].query # m
  <2>1. PICK p \in Queries \ {m} : LifeId[p] = k /\ LifePhase[p] = "ready"
    BY <1>4 DEF Life!Shared
  <2>2. Ready(p) /\ ticket[p] = k
    BY <1>1, <2>1, PhaseIs
  <2>3. k \in Keys(rque) /\ rque[k].query = p
    BY <2>2 DEF Ready, PlacedOK
  <2> QED
    BY <2>3 DEF Keys, Holds
<1>5. ASSUME Holds(rque, k), rque[k].query # m PROVE Life!Shared(m, k, "ready")
  <2>1. PICK p \in Queries \ {m} : p = rque[k].query
    BY <1>5 DEF Holds, TypeOK, Result
  <2>2. Ready(p) /\ ticket[p] = k
    BY <1>5, <2>1 DEF Ready, PlacedOK, Keys, Holds, TypeOK
  <2>3. ~Choosing(p) /\ p \notin delivered /\ p \notin cleaned
    BY <2>2 DEF PlacedOK, ComputedOnce
  <2>4. LifePhase[p] = "ready" /\ LifeId[p] = k
    BY <2>2, <2>3, PhaseIs DEF LifeId
  <2> QED
    BY <2>4 DEF Life!Shared
<1> QED
  BY <1>2, <1>3, <1>4, <1>5

\* emplace is Accept: the query is queued, or dropped for the one that has
\* its id.
LEMMA EmplaceAccepts ==
  ASSUME IndInv, NEW c \in Callers, EmplaceQuery(c)
  PROVE  \E m \in Queries, k \in Ids : Life!Accept(m, k)
<1> USE DEF IndInv
<1>1. pc[c] = "emplace_query"
  BY DEF EmplaceQuery
<1>2. PICK m \in Queries, k \in Ids : m = query[c] /\ k = ticket[m]
  BY <1>1 DEF TypeOK, LocalsOK, PushLabels, CheckedQuerySize, HasDrawn
<1>3. /\ qque' = Emplace(qque, k, m)
      /\ pc' = [pc EXCEPT ![c] = "return_id"]
      /\ UNCHANGED <<rque, tpc, job, query, ticket, delivered, cleaned>>
  BY <1>2 DEF EmplaceQuery, Goto, threadVars
<1>4. Choosing(m) /\ Pushing(m) /\ ticket[m] # Refused
  BY <1>1, <1>2, MarksAreNoIds DEF Choosing, Pushing, HasDrawn
<1>5. /\ m \notin delivered /\ m \notin cleaned /\ ~Settled(m)
      /\ ~Ready(m) /\ ~Failed(m) /\ ~Running(m) /\ ~Queued(m)
  BY <1>4, Nowhere
<1>6. \A q \in Queries : Choosing(q)' <=> Choosing(q) /\ q # m
  BY <1>1, <1>2, <1>3 DEF Choosing, TypeOK, LocalsOK, HasDrawn, PushLabels,
                          CheckedQuerySize
<1>7. /\ Settled(m)' /\ LifeId'[m] = k
      /\ \A q \in Queries \ {m} : (Settled(q)' <=> Settled(q)) /\ LifeId'[q] = LifeId[q]
  BY <1>2, <1>3, <1>6 DEF Settled, LifeId
<1>8. LifeId' = [LifeId EXCEPT ![m] = k]
  BY <1>7 DEF LifeId
<1>9. /\ LifeWorker' = LifeWorker
      /\ \A q \in Queries : /\ Ready(q)' <=> Ready(q)
                            /\ Failed(q)' <=> Failed(q)
                            /\ Running(q)' <=> Running(q)
                            /\ Pushing(q)' <=> Pushing(q)
  BY <1>3 DEF LifeWorker, Ready, Keys, Failed, Running, RunsOn, Pushing
<1>10. \A j \in Ids : qque'[j] = IF j = k /\ ~Holds(qque, k) THEN m ELSE qque[j]
  BY <1>3 DEF Emplace, TypeOK
<1>11. \A q \in Queries \ {m} : Queued(q)' <=> Queued(q)
  BY <1>10, AbsentAssumption DEF Queued, Holds
<1>12. Queued(m)' <=> ~Holds(qque, k)
  BY <1>5, <1>10 DEF Queued
<1>13. \A q \in Queries \ {m} : LifePhase'[q] = LifePhase[q]
  BY <1>3, <1>7, <1>9, <1>11, PhaseStays
<1>14. LifePhase[m] = "offered"
  BY <1>4, <1>5, PhaseIs
<1>15. LifePhase'[m] = IF Holds(qque, k) THEN "dropped" ELSE "queued"
  <2>1. /\ m \notin delivered' /\ m \notin cleaned'
        /\ ~Ready(m)' /\ ~Failed(m)' /\ ~Running(m)' /\ ticket'[m] # Refused
    BY <1>3, <1>4, <1>5, <1>9
  <2> QED
    BY <1>7, <1>12, <2>1 DEF LifePhase, Failed
<1>16. Life!Shared(m, k, "queued") <=> Holds(qque, k)
  <2>1. qque[k] # m
    BY <1>5 DEF Queued
  <2> QED
    BY <2>1, SharedIsHeld
<1>17. CASE Holds(qque, k)
  <2>1. LifePhase' = [LifePhase EXCEPT ![m] = "dropped"]
    BY <1>13, <1>15, <1>17, OneMoves
  <2> QED
    BY <1>8, <1>9, <1>14, <1>16, <1>17, <2>1 DEF Life!Accept, Life!Move
<1>18. CASE ~Holds(qque, k)
  <2>1. LifePhase' = [LifePhase EXCEPT ![m] = "queued"]
    BY <1>13, <1>15, <1>18, OneMoves
  <2> QED
    BY <1>8, <1>9, <1>14, <1>16, <1>18, <2>1 DEF Life!Accept, Life!Move
<1> QED
  BY <1>17, <1>18

\* A result that leaves is collected, or expires.
LEMMA ResultLeaves ==
  ASSUME IndInv, NEW k \in Ids, Holds(rque, k), rque' = Erase(rque, k),
         \/ delivered' = delivered \cup {rque[k].query} /\ UNCHANGED cleaned
         \/ cleaned' = cleaned \cup {rque[k].query} /\ UNCHANGED delivered,
         UNCHANGED <<qque, tpc, job, ticket, query>>,
         \A q \in Queries : Choosing(q)' <=> Choosing(q)
  PROVE  \E m \in Queries : Life!Collect(m) \/ Life!Expire(m)
<1> USE DEF IndInv
<1>1. PICK m \in Queries : m = rque[k].query
  BY DEF Holds, TypeOK, Result
<1>2. k \in Keys(rque) /\ Ready(m) /\ ticket[m] = k
  BY <1>1 DEF Holds, Keys, TypeOK, Ready, PlacedOK
<1>3. /\ m \notin delivered /\ m \notin cleaned
      /\ ~Running(m) /\ ~Failed(m) /\ ~Queued(m)
  BY <1>2 DEF ComputedOnce, Failed, Running
<1>4. \A j \in Ids : rque'[j] = IF j = k THEN Absent ELSE rque[j]
  BY DEF Erase, TypeOK
<1>5. \A q \in Queries : Ready(q)' => Ready(q)
  BY <1>4 DEF Ready, Keys, TypeOK, Erase
<1>6. \A q \in Queries \ {m} : Ready(q) => Ready(q)'
  BY <1>1, <1>4 DEF Ready, Keys, TypeOK, Erase
<1>7. /\ LifeWorker' = LifeWorker /\ LifeId' = LifeId
      /\ \A q \in Queries : /\ Failed(q)' <=> Failed(q)
                            /\ Running(q)' <=> Running(q)
                            /\ Queued(q)' <=> Queued(q)
                            /\ Pushing(q)' <=> Pushing(q)
                            /\ Settled(q)' <=> Settled(q)
  BY IdsStay DEF LifeWorker, Failed, Running, RunsOn, Queued, Pushing
<1>8. \A q \in Queries \ {m} : /\ q \in delivered' <=> q \in delivered
                               /\ q \in cleaned' <=> q \in cleaned
  BY <1>1
<1>9. \A q \in Queries \ {m} : LifePhase'[q] = LifePhase[q]
  <2> SUFFICES ASSUME NEW q \in Queries \ {m} PROVE LifePhase'[q] = LifePhase[q]
    OBVIOUS
  <2>1. q \in delivered' <=> q \in delivered
    BY <1>8
  <2>2. q \in cleaned' <=> q \in cleaned
    BY <1>8
  <2>3. ticket'[q] = ticket[q]
    OBVIOUS
  <2>4. /\ Ready(q)' <=> Ready(q)
        /\ Failed(q)' <=> Failed(q)
        /\ Running(q)' <=> Running(q)
    BY <1>5, <1>6, <1>7
  <2>5. /\ Queued(q)' <=> Queued(q)
        /\ Settled(q)' <=> Settled(q)
        /\ Pushing(q)' <=> Pushing(q)
    BY <1>5, <1>6, <1>7
  <2> QED
    BY <2>1, <2>2, <2>3, <2>4, <2>5, PhaseStays
<1>10. LifePhase[m] = "ready"
  BY <1>2, <1>3, PhaseIs
<1>11. LifePhase'[m] \in {"collected", "expired"}
  BY <1>1 DEF LifePhase
<1>12. PICK to \in {"collected", "expired"} : LifePhase'[m] = to
  BY <1>11
<1>13. LifePhase' = [LifePhase EXCEPT ![m] = to]
  BY <1>9, <1>12, OneMoves
<1>14. Life!Collect(m) \/ Life!Expire(m)
  BY <1>7, <1>10, <1>12, <1>13 DEF Life!Collect, Life!Expire, Life!Move
<1> QED
  BY <1>14

-----------------------------------------------------------------------------
(* The threads *)

\* TakeQuery is Start.
LEMMA TakeStarts ==
  ASSUME IndInv, NEW t \in Threads, TakeQuery(t)
  PROVE  \E m \in Queries : Life!Start(m, t)
<1> USE DEF IndInv
<1>1. PICK k \in Front(qque) :
         /\ job' = [job EXCEPT ![t] =
                      [id |-> k, query |-> qque[k], created |-> clock]]
         /\ qque' = Erase(qque, k)
  BY DEF TakeQuery
<1>2. k \in Ids /\ Holds(qque, k)
  BY DEF Front, Keys, TypeOK, Holds
<1>3. PICK m \in Queries : m = qque[k]
  BY <1>2 DEF Holds, TypeOK
<1>4. /\ Queued(m) /\ ticket[m] = k /\ ~Choosing(m)
      /\ ~Running(m) /\ ~Failed(m) /\ ~Ready(m)
      /\ m \notin delivered /\ m \notin cleaned
  BY <1>2, <1>3 DEF Queued, PlacedOK, ComputedOnce, Failed, Running
<1>5. /\ tpc[t] = "take_query" /\ job[t] = Absent
      /\ tpc' = [tpc EXCEPT ![t] = "compute"]
      /\ UNCHANGED <<rque, ticket, delivered, cleaned, query, pc>>
  BY DEF TakeQuery, LocalsOK, ThreadGoto, callerVars
<1>6. job'[t] # Absent /\ job'[t].query = m
  <2>1. [id |-> k, query |-> m, created |-> clock] \in Job
    BY <1>2 DEF Job, TypeOK
  <2> QED
    BY <1>1, <1>3, <2>1, AbsentAssumption DEF TypeOK
<1>7. \A u \in Threads \ {t} : job'[u] = job[u] /\ tpc'[u] = tpc[u]
  BY <1>1, <1>5 DEF TypeOK
<1>8. tpc'[t] = "compute"
  BY <1>5 DEF TypeOK
<1>9. LifeWorker' = [LifeWorker EXCEPT ![t] = m] /\ LifeWorker[t] = Absent
  BY <1>5, <1>6, <1>7 DEF LifeWorker
<1>10. \A u \in Threads, q \in Queries :
          RunsOn(u, q)' <=> RunsOn(u, q) \/ (u = t /\ q = m)
  BY <1>5, <1>6, <1>7 DEF RunsOn
<1>11. \A q \in Queries : /\ Running(q)' <=> Running(q) \/ q = m
                          /\ Failed(q)' <=> Failed(q)
  BY <1>4, <1>5, <1>7, <1>8, <1>10 DEF Running, Failed
<1>12. \A j \in Ids : qque'[j] = IF j = k THEN Absent ELSE qque[j]
  BY <1>1 DEF Erase, TypeOK
<1>13. \A q \in Queries \ {m} : Queued(q)' <=> Queued(q)
  BY <1>3, <1>12, AbsentAssumption DEF Queued
<1>14. LifeId' = LifeId
       /\ \A q \in Queries : /\ Ready(q)' <=> Ready(q)
                             /\ Pushing(q)' <=> Pushing(q)
                             /\ Settled(q)' <=> Settled(q)
  BY <1>5, IdsStay DEF Ready, Keys, Pushing, Choosing
<1>15. \A q \in Queries \ {m} : LifePhase'[q] = LifePhase[q]
  <2> SUFFICES ASSUME NEW q \in Queries \ {m} PROVE LifePhase'[q] = LifePhase[q]
    OBVIOUS
  <2>1. q \in delivered' <=> q \in delivered
    BY <1>5
  <2>2. q \in cleaned' <=> q \in cleaned
    BY <1>5
  <2>3. ticket'[q] = ticket[q]
    BY <1>5
  <2>4. /\ Ready(q)' <=> Ready(q)
        /\ Failed(q)' <=> Failed(q)
        /\ Running(q)' <=> Running(q)
    BY <1>11, <1>13, <1>14
  <2>5. /\ Queued(q)' <=> Queued(q)
        /\ Settled(q)' <=> Settled(q)
        /\ Pushing(q)' <=> Pushing(q)
    BY <1>11, <1>13, <1>14
  <2> QED
    BY <2>1, <2>2, <2>3, <2>4, <2>5, PhaseStays
<1>16. LifePhase[m] = "queued"
  BY <1>4, PhaseIs
<1>17. LifePhase'[m] = "computing"
  <2>1. /\ m \notin delivered' /\ m \notin cleaned'
        /\ ~Ready(m)' /\ ~Failed(m)' /\ Running(m)'
    BY <1>4, <1>5, <1>11, <1>14
  <2> QED
    BY <2>1 DEF LifePhase, Failed
<1>18. LifePhase' = [LifePhase EXCEPT ![m] = "computing"]
  BY <1>15, <1>17, OneMoves
<1> QED
  BY <1>9, <1>14, <1>16, <1>18 DEF Life!Start, Life!Move

\* What a thread works on is nowhere else, and its id is that of the job.
LEMMA JobIsComputing ==
  ASSUME IndInv, NEW t \in Threads, tpc[t] # "take_query"
  PROVE  /\ job[t] \in Job /\ job[t] # Absent /\ job[t].query \in Queries
         /\ job[t].id \in Ids
         /\ \E m \in Queries :
               /\ m = job[t].query /\ LifeWorker[t] = m /\ RunsOn(t, m)
               /\ Running(m) /\ ~Ready(m) /\ ~Queued(m)
               /\ m \notin delivered /\ m \notin cleaned
               /\ \A u \in Threads \ {t} : ~RunsOn(u, m)
               /\ ticket[m] = job[t].id /\ Settled(m) /\ LifeId[m] = job[t].id
               /\ tpc[t] # "dead" => LifePhase[m] = "computing"
<1> USE DEF IndInv
<1>1. job[t] \in Job /\ job[t] # Absent
  BY DEF TypeOK, LocalsOK
<1>2. PICK m \in Queries : m = job[t].query
  BY <1>1 DEF Job
<1>3. job[t].id \in Ids
  BY <1>1 DEF Job
<1>4. LifeWorker[t] = m /\ RunsOn(t, m) /\ Running(m)
  BY <1>1, <1>2 DEF LifeWorker, RunsOn, Running
<1>5. /\ ~Ready(m) /\ ~Queued(m) /\ m \notin delivered /\ m \notin cleaned
      /\ \A u \in Threads \ {t} : ~RunsOn(u, m)
  BY <1>4 DEF ComputedOnce
<1>6. ticket[m] = job[t].id /\ ~Choosing(m)
  BY <1>4 DEF PlacedOK
<1>7. Settled(m) /\ LifeId[m] = job[t].id
  BY <1>3, <1>6 DEF Settled, LifeId
<1>8. tpc[t] # "dead" => LifePhase[m] = "computing"
  BY <1>4, <1>5, PhaseIs DEF Failed
<1> QED
  BY <1>1, <1>2, <1>3, <1>4, <1>5, <1>6, <1>7, <1>8

\* A thread that ends fails its query.
LEMMA DeathFails ==
  ASSUME IndInv, NEW t \in Threads, tpc[t] \in {"compute", "check_result_key"},
         ThreadGoto(t, "dead"),
         job[t].query \in BadQueries \/ Holds(rque, job[t].id),
         UNCHANGED <<qque, rque, callerVars, job, ticket, delivered, cleaned>>
  PROVE  \E m \in Queries : Life!Fail(m, t)
<1> USE DEF IndInv
<1>1. PICK m \in Queries :
         /\ m = job[t].query /\ LifeWorker[t] = m /\ RunsOn(t, m)
         /\ Running(m) /\ ~Ready(m) /\ ~Queued(m)
         /\ m \notin delivered /\ m \notin cleaned
         /\ \A u \in Threads \ {t} : ~RunsOn(u, m)
         /\ ticket[m] = job[t].id /\ Settled(m) /\ LifeId[m] = job[t].id
         /\ LifePhase[m] = "computing"
  BY JobIsComputing
<1>2. job[t].id \in Ids
  BY JobIsComputing
<1>3. \A u \in Threads : tpc'[u] = IF u = t THEN "dead" ELSE tpc[u]
  BY DEF ThreadGoto, TypeOK
<1>4. /\ LifeWorker' = LifeWorker /\ LifeId' = LifeId
      /\ \A q \in Queries : /\ Ready(q)' <=> Ready(q)
                            /\ Running(q)' <=> Running(q)
                            /\ Queued(q)' <=> Queued(q)
                            /\ Pushing(q)' <=> Pushing(q)
                            /\ Settled(q)' <=> Settled(q)
  BY IdsStay DEF LifeWorker, Ready, Keys, Running, RunsOn, Queued, Pushing,
                 Choosing, callerVars
<1>5. Failed(m)' /\ \A q \in Queries \ {m} : Failed(q)' <=> Failed(q)
  BY <1>1, <1>3 DEF Failed, RunsOn
<1>6. \A q \in Queries \ {m} : LifePhase'[q] = LifePhase[q]
  BY <1>4, <1>5, PhaseStays
<1>7. LifePhase'[m] = "failed"
  BY <1>1, <1>4, <1>5 DEF LifePhase, Failed
<1>8. LifePhase' = [LifePhase EXCEPT ![m] = "failed"]
  BY <1>6, <1>7, OneMoves
<1>9. m \in BadQueries \/ Life!Shared(m, LifeId[m], "ready")
  <2>1. CASE Holds(rque, job[t].id)
    <3>1. rque[job[t].id].query # m
      BY <1>1, <1>2, <2>1 DEF Ready, Keys, Holds, TypeOK
    <3> QED
      BY <1>1, <1>2, <2>1, <3>1, SharedIsHeld
  <2> QED
    BY <1>1, <2>1
<1> QED
  BY <1>1, <1>4, <1>8, <1>9 DEF Life!Fail, Life!Move

\* EmplaceResult is Finish.
LEMMA EmplaceFinishes ==
  ASSUME IndInv, NEW t \in Threads, EmplaceResult(t)
  PROVE  \E m \in Queries : Life!Finish(m, t)
<1> USE DEF IndInv
<1>1. tpc[t] = "emplace_result"
  BY DEF EmplaceResult
<1>2. /\ job[t] \in Job /\ job[t] # Absent /\ job[t].id \in Ids
  BY <1>1, JobIsComputing
<1>3. PICK m \in Queries :
         /\ m = job[t].query /\ LifeWorker[t] = m /\ RunsOn(t, m)
         /\ Running(m) /\ ~Ready(m) /\ ~Queued(m)
         /\ m \notin delivered /\ m \notin cleaned
         /\ \A u \in Threads \ {t} : ~RunsOn(u, m)
         /\ ticket[m] = job[t].id /\ Settled(m) /\ LifeId[m] = job[t].id
         /\ LifePhase[m] = "computing"
  BY <1>1, JobIsComputing
<1>4. PICK k \in Ids : k = job[t].id
  BY <1>2
<1>5. PICK res \in Result :
         res = [query |-> m, created |-> job[t].created]
  BY <1>2 DEF Job, Result
<1>6. res # Absent /\ res.query = m
  BY <1>5, AbsentAssumption
<1>7. /\ rque' = Emplace(rque, k, res)
      /\ job' = [job EXCEPT ![t] = Absent]
      /\ tpc' = [tpc EXCEPT ![t] = "take_query"]
      /\ UNCHANGED <<qque, pc, query, ticket, delivered, cleaned>>
  BY <1>3, <1>4, <1>5 DEF EmplaceResult, ThreadGoto, callerVars
<1>8. \A u \in Threads : /\ job'[u] = IF u = t THEN Absent ELSE job[u]
                         /\ tpc'[u] = IF u = t THEN "take_query" ELSE tpc[u]
  BY <1>7 DEF TypeOK
<1>9. LifeWorker' = [LifeWorker EXCEPT ![t] = Absent]
  BY <1>8 DEF LifeWorker
<1>10. \A q \in Queries : \A u \in Threads :
          RunsOn(u, q)' <=> RunsOn(u, q) /\ u # t
  BY <1>8 DEF RunsOn
<1>11. ~Running(m)' /\ ~Failed(m)'
  BY <1>3, <1>10 DEF Running, Failed
<1>12. \A q \in Queries \ {m} : ~RunsOn(t, q)
  BY <1>3 DEF RunsOn
<1>13. \A q \in Queries \ {m} : /\ Running(q)' <=> Running(q)
                                /\ Failed(q)' <=> Failed(q)
  BY <1>8, <1>10, <1>12 DEF Running, Failed
<1>14. \A j \in Ids : rque'[j] = IF j = k /\ ~Holds(rque, k) THEN res ELSE rque[j]
  BY <1>7 DEF Emplace, TypeOK
<1>k. Keys(rque') \subseteq Ids /\ Keys(rque) \subseteq Ids
  BY <1>7 DEF Keys, TypeOK, Emplace
<1>15. \A q \in Queries \ {m} : Ready(q)' <=> Ready(q)
  <2>1. \A j \in Ids : j \in Keys(rque) <=> Holds(rque, j)
    BY DEF Keys, Holds, TypeOK
  <2>2. \A j \in Ids : j \in Keys(rque') <=> Holds(rque', j)
    BY <1>7 DEF Keys, Holds, TypeOK, Emplace
  <2> QED
    BY <1>6, <1>14, <1>k, <2>1, <2>2 DEF Ready, Holds
<1>16. Ready(m)' <=> ~Holds(rque, k)
  <2>1. ASSUME Holds(rque, k) PROVE ~Ready(m)'
    <3>1. rque' = rque
      BY <1>7, <2>1 DEF Emplace
    <3> QED
      BY <1>3, <3>1 DEF Ready
  <2>2. ASSUME ~Holds(rque, k) PROVE Ready(m)'
    <3>1. rque'[k] = res
      BY <1>14, <2>2
    <3>2. k \in Keys(rque')
      BY <1>6, <1>7, <3>1 DEF Keys, Emplace, TypeOK
    <3> QED
      BY <1>6, <3>1, <3>2 DEF Ready
  <2> QED
    BY <2>1, <2>2
<1>17. /\ LifeId' = LifeId
       /\ \A q \in Queries : /\ Queued(q)' <=> Queued(q)
                             /\ Pushing(q)' <=> Pushing(q)
                             /\ Settled(q)' <=> Settled(q)
  BY <1>7, IdsStay DEF Queued, Pushing, Choosing
<1>18. \A q \in Queries \ {m} : LifePhase'[q] = LifePhase[q]
  <2> SUFFICES ASSUME NEW q \in Queries \ {m} PROVE LifePhase'[q] = LifePhase[q]
    OBVIOUS
  <2>1. q \in delivered' <=> q \in delivered
    BY <1>7
  <2>2. q \in cleaned' <=> q \in cleaned
    BY <1>7
  <2>3. ticket'[q] = ticket[q]
    BY <1>7
  <2>4. /\ Ready(q)' <=> Ready(q)
        /\ Failed(q)' <=> Failed(q)
        /\ Running(q)' <=> Running(q)
    BY <1>13, <1>15, <1>17
  <2>5. /\ Queued(q)' <=> Queued(q)
        /\ Settled(q)' <=> Settled(q)
        /\ Pushing(q)' <=> Pushing(q)
    BY <1>13, <1>15, <1>17
  <2> QED
    BY <2>1, <2>2, <2>3, <2>4, <2>5, PhaseStays
<1>19. LifePhase'[m] = IF Holds(rque, k) THEN "dropped" ELSE "ready"
  <2>1. /\ m \notin delivered' /\ m \notin cleaned' /\ ~Queued(m)'
        /\ ticket'[m] # Refused /\ LifeId'[m] \in Ids
    BY <1>2, <1>3, <1>7, <1>17, MarksAreNoIds
  <2> QED
    BY <1>11, <1>16, <2>1 DEF LifePhase, Failed
<1>20. Life!Shared(m, k, "ready") <=> Holds(rque, k)
  <2>1. Holds(rque, k) => rque[k].query # m
    BY <1>3 DEF Ready, Keys, Holds, TypeOK
  <2> QED
    BY <2>1, SharedIsHeld
<1>21. CASE Holds(rque, k)
  <2>1. LifePhase' = [LifePhase EXCEPT ![m] = "dropped"]
    BY <1>18, <1>19, <1>21, OneMoves
  <2> QED
    BY <1>3, <1>4, <1>9, <1>17, <1>20, <1>21, <2>1 DEF Life!Finish, Life!Move
<1>22. CASE ~Holds(rque, k)
  <2>1. LifePhase' = [LifePhase EXCEPT ![m] = "ready"]
    BY <1>18, <1>19, <1>22, OneMoves
  <2> QED
    BY <1>3, <1>4, <1>9, <1>17, <1>20, <1>22, <2>1 DEF Life!Finish, Life!Move
<1> QED
  BY <1>21, <1>22

-----------------------------------------------------------------------------
(* The refinement *)

\* A caller that moves on without drawing an id or returning one stutters.
LEMMA CallerStutters ==
  ASSUME TypeOK, NEW c \in Callers,
         UNCHANGED <<qque, rque, query, tpc, job, ticket, delivered, cleaned>>,
         \/ UNCHANGED pc
         \/ \E l : /\ pc' = [pc EXCEPT ![c] = l]
                   /\ l \in HasDrawn <=> pc[c] \in HasDrawn
  PROVE  UNCHANGED Life!lifeVars
<1>1. \A q \in Queries : Choosing(q)' <=> Choosing(q)
  BY DEF Choosing, TypeOK
<1>2. \A q \in Queries : Pushing(q)' <=> Pushing(q)
  BY DEF Pushing
<1> QED
  BY <1>1, <1>2, Stutter

\* The draw of an id stutters: it may still be refused.
LEMMA RandStutters ==
  ASSUME IndInv, NEW c \in Callers, Rand(c)
  PROVE  UNCHANGED Life!lifeVars
<1> USE DEF IndInv
<1>1. pc[c] = "rand"
  BY DEF Rand
<1>2. PICK m \in Queries : m = query[c] /\ ticket[m] = NoId
  BY <1>1 DEF TypeOK, LocalsOK, PushLabels, CheckedQuerySize, HasDrawn
<1>3. PICK v \in Ids : ticket' = [ticket EXCEPT ![m] = v]
  BY <1>2, RandIsAnId DEF Rand
<1>4. /\ pc' = [pc EXCEPT ![c] = "check_query_key"]
      /\ UNCHANGED <<qque, rque, query, tpc, job, delivered, cleaned>>
  BY DEF Rand, Goto, threadVars
<1>5. \A q \in Queries : Choosing(q)' <=> Choosing(q) \/ q = m
  BY <1>1, <1>2, <1>4
  DEF Choosing, TypeOK, LocalsOK, PushLabels, CheckedQuerySize, HasDrawn
<1>6. \A q \in Queries : ticket'[q] = IF q = m THEN v ELSE ticket[q]
  BY <1>3 DEF TypeOK
<1>7. /\ ~Settled(m) /\ ~Settled(m)'
      /\ ticket[m] # Refused /\ ticket'[m] # Refused
  <2>1. ticket'[m] # Refused
    BY <1>6, MarksAreNoIds
  <2>2. NoId # Refused
    BY DEF NoId, Refused
  <2> QED
    BY <1>2, <1>5, <2>1, <2>2, MarksAreNoIds DEF Settled
<1>8. \A q \in Queries : Pushing(q)' <=> Pushing(q)
  BY <1>4 DEF Pushing
<1>9. \A q \in Queries \ {m} :
         ticket'[q] = ticket[q] /\ (Choosing(q)' <=> Choosing(q))
  BY <1>5, <1>6
<1>10. UNCHANGED <<qque, rque, tpc, job, delivered, cleaned>>
  BY <1>4
<1> QED
  BY <1>7, <1>8, <1>9, <1>10, Stutter

\* The return stutters: the query has an id, or was refused.
LEMMA ReturnStutters ==
  ASSUME IndInv, ReturnOK, NEW c \in Callers, ReturnId(c)
  PROVE  UNCHANGED Life!lifeVars
<1> USE DEF IndInv
<1>1. /\ pc[c] = "return_id" /\ query' = [query EXCEPT ![c] = Absent]
      /\ pc' = [pc EXCEPT ![c] = "idle"]
      /\ UNCHANGED <<qque, rque, tpc, job, ticket, delivered, cleaned>>
  BY DEF ReturnId, Goto, threadVars
<1>2. PICK m \in Queries : m = query[c]
  BY <1>1 DEF TypeOK, LocalsOK, PushLabels, CheckedQuerySize
<1>3. ~Choosing(m)
  BY <1>1, <1>2, AbsentAssumption DEF Choosing, LocalsOK, HasDrawn
<1>4. ticket[m] = Refused \/ Settled(m)
  BY <1>1, <1>2, <1>3 DEF ReturnOK, Settled, TypeOK
<1>5. \A q \in Queries : Choosing(q)' <=> Choosing(q)
  BY <1>1, AbsentAssumption DEF Choosing, HasDrawn, TypeOK
<1>6. \A q \in Queries \ {m} : Pushing(q)' <=> Pushing(q)
  BY <1>1, <1>2, AbsentAssumption DEF Pushing, TypeOK
<1> QED
  BY <1>1, <1>4, <1>5, <1>6, Stutter

\* Every step of a caller is one of the lifecycle, or stutters.
LEMMA CallerRefines ==
  ASSUME IndInv, ReturnOK, NEW c \in Callers, Call(c) \/ CallerStep(c)
  PROVE  Life!Next \/ UNCHANGED Life!lifeVars
<1> USE DEF IndInv
<1>1. ASSUME NEW q \in Queries, CallPush(c, q) PROVE Life!Next
  BY <1>1, CallPushOffers DEF Life!Next
<1>2. CASE \/ \E id \in Ids \cup {Refused} : CallPop(c, id)
           \/ CallCleanup(c) \/ Srand(c) \/ ReturnResult(c)
           \/ ScanResults(c) \/ ReturnCleanup(c)
  BY <1>2, CallerStutters
  DEF CallPop, CallCleanup, Srand, ReturnResult, ScanResults, ReturnCleanup,
      Goto, HasDrawn, threadVars
<1>3. ASSUME Refuse(c),
             pc[c] \in {"read_query_size", "read_result_size", "check_query_key"},
             UNCHANGED <<qque, rque, query, threadVars, delivered, cleaned>>
      PROVE  Life!Next
  BY <1>3, RefuseRefuses DEF Life!Next, Life!Settle, threadVars
<1>4. CASE ReadQuerySize(c)
  <2>1. CASE HasQueryRoom
    BY <1>4, <2>1, CallerStutters DEF ReadQuerySize, Goto, HasDrawn, threadVars
  <2>2. CASE ~HasQueryRoom
    BY <1>3, <1>4, <2>2 DEF ReadQuerySize
  <2> QED
    BY <2>1, <2>2
<1>5. CASE ReadResultSize(c)
  <2>1. CASE HasResultRoom
    BY <1>5, <2>1, CallerStutters DEF ReadResultSize, Goto, HasDrawn, threadVars
  <2>2. CASE ~HasResultRoom
    BY <1>3, <1>5, <2>2 DEF ReadResultSize
  <2> QED
    BY <2>1, <2>2
<1>6. CASE CheckQueryKey(c)
  <2>1. CASE Refuse(c)
    BY <1>3, <1>6, <2>1 DEF CheckQueryKey
  <2>2. CASE Goto(c, "emplace_query") /\ UNCHANGED ticket
    BY <1>6, <2>2, CallerStutters DEF CheckQueryKey, Goto, HasDrawn, threadVars
  <2> QED
    BY <1>6, <2>1, <2>2 DEF CheckQueryKey
<1>7. CASE EmplaceQuery(c)
  BY <1>7, EmplaceAccepts DEF Life!Next, Life!Settle
<1>8. CASE PopResult(c)
  <2>1. PICK k \in Poppable(rque, asked[c]) :
           /\ delivered' = delivered \cup {rque[k].query}
           /\ rque' = Erase(rque, k)
    BY <1>8 DEF PopResult
  <2>2. k \in Ids /\ Holds(rque, k)
    BY <2>1 DEF Poppable, Keys, Holds, TypeOK
  <2>3. /\ UNCHANGED <<qque, tpc, job, ticket, query, cleaned>>
        /\ pc[c] = "pop_result" /\ pc' = [pc EXCEPT ![c] = "return_result"]
    BY <1>8 DEF PopResult, Goto, threadVars
  <2>4. \A q \in Queries : Choosing(q)' <=> Choosing(q)
    BY <2>3 DEF Choosing, HasDrawn, TypeOK
  <2> QED
    BY <2>1, <2>2, <2>3, <2>4, ResultLeaves DEF Life!Next
<1>9. CASE EraseResult(c)
  <2>1. PICK k \in expired[c] :
           /\ rque' = Erase(rque, k)
           /\ cleaned' = cleaned \cup
                 {q \in Queries : Holds(rque, k) /\ rque[k].query = q}
    BY <1>9 DEF EraseResult
  <2>2. k \in Ids
    BY DEF TypeOK
  <2>3. UNCHANGED <<qque, tpc, job, ticket, query, pc, delivered>>
    BY <1>9 DEF EraseResult, threadVars
  <2>4. \A q \in Queries : Choosing(q)' <=> Choosing(q)
    BY <2>3 DEF Choosing
  <2>5. CASE Holds(rque, k)
    <3>1. rque[k].query \in Queries
      BY <2>2, <2>5 DEF Holds, TypeOK, Result
    <3>2. cleaned' = cleaned \cup {rque[k].query}
      BY <2>1, <2>5, <3>1
    <3> QED
      BY <2>1, <2>2, <2>3, <2>4, <2>5, <3>2, ResultLeaves DEF Life!Next
  <2>6. CASE ~Holds(rque, k)
    <3>1. UNCHANGED <<rque, cleaned>>
      BY <2>1, <2>2, <2>6 DEF Holds, Erase, TypeOK
    <3> QED
      BY <2>3, <3>1, CallerStutters
  <2> QED
    BY <2>5, <2>6
<1> QED
  BY <1>1, <1>2, <1>4, <1>5, <1>6, <1>7, <1>8, <1>9, RandStutters, ReturnStutters
  DEF Call, CallerStep, PushStep, PopStep, CleanupStep

\* So is every step of a calculation thread.
LEMMA ThreadRefines ==
  ASSUME IndInv, NEW t \in Threads, ThreadStep(t)
  PROVE  Life!Next \/ UNCHANGED Life!lifeVars
<1> USE DEF IndInv
<1>0. ASSUME UNCHANGED <<qque, rque, callerVars, ticket, delivered, cleaned>>,
             tpc[t] \in {"compute", "check_result_key"},
             NEW l \in {"check_result_key", "emplace_result"}, ThreadGoto(t, l),
             job'[t].query = job[t].query, job'[t] # Absent,
             \A u \in Threads \ {t} : job'[u] = job[u]
      PROVE  UNCHANGED Life!lifeVars
  <2>1. job[t] # Absent
    BY <1>0 DEF LocalsOK
  <2>2. \A u \in Threads : tpc'[u] = "dead" <=> tpc[u] = "dead"
    BY <1>0 DEF ThreadGoto, TypeOK
  <2>3. \A q \in Queries : /\ Choosing(q)' <=> Choosing(q)
                           /\ Pushing(q)' <=> Pushing(q)
    BY <1>0 DEF Choosing, Pushing, callerVars
  <2> QED
    BY <1>0, <2>1, <2>2, <2>3, Stutter
<1>1. CASE TakeQuery(t)
  BY <1>1, TakeStarts DEF Life!Next, Life!Begin
<1>2. CASE Compute(t)
  <2>1. CASE job[t].query \in BadQueries
    <3>1. \E m \in Queries : Life!Fail(m, t)
      BY <1>2, <2>1, DeathFails DEF Compute
    <3> QED
      BY <3>1 DEF Life!Next, Life!Conclude
  <2>2. CASE job[t].query \notin BadQueries
    <3>1. /\ tpc[t] = "compute" /\ ThreadGoto(t, "check_result_key")
          /\ job' = [job EXCEPT ![t].created = clock]
          /\ UNCHANGED <<qque, rque, callerVars, ticket, delivered, cleaned>>
      BY <1>2, <2>2 DEF Compute
    <3>2. job[t] \in Job
      BY <3>1, JobIsComputing
    <3>3. PICK built \in Job :
             built = [job[t] EXCEPT !.created = clock] /\ built.query = job[t].query
      <4>1. [job[t] EXCEPT !.created = clock] \in Job
        BY <3>2 DEF Job, TypeOK
      <4>2. [job[t] EXCEPT !.created = clock].query = job[t].query
        BY <3>2 DEF Job
      <4> QED
        BY <4>1, <4>2
    <3>4. job' = [job EXCEPT ![t] = built]
      BY <3>1, <3>3
    <3>5. /\ job'[t].query = job[t].query /\ job'[t] # Absent
          /\ \A u \in Threads \ {t} : job'[u] = job[u]
      BY <3>3, <3>4, AbsentAssumption DEF TypeOK
    <3> QED
      BY <1>0, <3>1, <3>5
  <2> QED
    BY <2>1, <2>2
<1>3. CASE CheckResultKey(t)
  <2>1. PICK found \in CountAnswers(rque, job[t].id, ResultMapBusy(t)) :
           ThreadGoto(t, IF found THEN "dead" ELSE "emplace_result")
    BY <1>3 DEF CheckResultKey
  <2>2. /\ tpc[t] = "check_result_key"
        /\ UNCHANGED <<qque, rque, callerVars, job, ticket, delivered, cleaned>>
    BY <1>3 DEF CheckResultKey
  <2>3. CASE found
    <3>1. Holds(rque, job[t].id)
      BY <2>1, <2>3 DEF CountAnswers
    <3>2. \E m \in Queries : Life!Fail(m, t)
      BY <2>1, <2>2, <2>3, <3>1, DeathFails
    <3> QED
      BY <3>2 DEF Life!Next, Life!Conclude
  <2>4. CASE ~found
    <3>1. job[t] # Absent
      BY <2>2, JobIsComputing
    <3> QED
      BY <1>0, <2>1, <2>2, <2>4, <3>1
  <2> QED
    BY <2>3, <2>4
<1>4. CASE EmplaceResult(t)
  <2>1. \E m \in Queries : Life!Finish(m, t)
    BY <1>4, EmplaceFinishes
  <2> QED
    BY <2>1 DEF Life!Next, Life!Conclude
<1> QED
  BY <1>1, <1>2, <1>3, <1>4 DEF ThreadStep

\* Whoever returns has an id or a refusal: the label is reached after one, and
\* no ticket is taken back.
LEMMA ReturnStep ==
  ASSUME TypeOK, LocalsOK, ReturnOK, [Next]_vars
  PROVE  ReturnOK'
<1> SUFFICES ASSUME NEW c \in Callers, pc'[c] = "return_id"
             PROVE  ticket'[query'[c]] # NoId
  BY DEF ReturnOK
<1> USE DEF Goto
<1>t. query[c] # Absent => query[c] \in Queries
  BY DEF TypeOK
<1>1. \A q \in Queries : ticket[q] # NoId => ticket'[q] # NoId
  <2>1. UNCHANGED ticket
        \/ \E d \in Callers : Rand(d) \/ (Refuse(d) /\ UNCHANGED query)
    BY DEF Next, Tick, vars, ThreadStep, TakeQuery, Compute, CheckResultKey,
           EmplaceResult, Call, CallerStep, PushStep, PopStep, CleanupStep,
           CallPush, CallPop, CallCleanup, ReadQuerySize, ReadResultSize, Srand,
           Rand, CheckQueryKey, EmplaceQuery, ReturnId, PopResult, ReturnResult,
           ScanResults, EraseResult, ReturnCleanup
  <2>2. ASSUME NEW d \in Callers, Rand(d)
        PROVE  \E v \in Ids : ticket' = [ticket EXCEPT ![query[d]] = v]
    BY <2>2, RandIsAnId DEF Rand
  <2>3. NoId \notin Ids /\ NoId # Refused
    BY MarksAreNoIds DEF NoId, Refused
  <2> QED
    BY <2>1, <2>2, <2>3 DEF Refuse, TypeOK
<1>2. CASE pc[c] = "return_id" /\ query'[c] = query[c]
  BY <1>1, <1>2, <1>t DEF ReturnOK, LocalsOK, PushLabels
<1>3. ASSUME ~(pc[c] = "return_id" /\ query'[c] = query[c])
      PROVE  /\ query'[c] = query[c] /\ query[c] \in Queries
             /\ ticket'[query[c]] \in Ids \cup {Refused}
  <2>1. ASSUME NEW d \in Callers, Call(d) \/ CallerStep(d)
        PROVE  d = c /\ (EmplaceQuery(c) \/ (Refuse(c) /\ UNCHANGED query
                         /\ pc[c] \in {"read_query_size", "read_result_size",
                                       "check_query_key"}))
    <3>1. CASE \/ \E q \in Queries : CallPush(d, q)
               \/ \E id \in Ids \cup {Refused} : CallPop(d, id)
               \/ CallCleanup(d) \/ PopStep(d) \/ CleanupStep(d)
      BY <1>3, <3>1
      DEF PopStep, CleanupStep, CallPush, CallPop, CallCleanup, PopResult,
          ReturnResult, ScanResults, EraseResult, ReturnCleanup, TypeOK
    <3>2. CASE PushStep(d)
      BY <1>3, <3>2
      DEF PushStep, ReadQuerySize, ReadResultSize, Srand, Rand, CheckQueryKey,
          EmplaceQuery, ReturnId, Refuse, TypeOK
    <3> QED
      BY <2>1, <3>1, <3>2 DEF Call, CallerStep
  <2>2. CASE EmplaceQuery(c)
    BY <2>2 DEF EmplaceQuery, TypeOK, LocalsOK, PushLabels, CheckedQuerySize,
                HasDrawn
  <2>3. CASE Refuse(c) /\ UNCHANGED query
             /\ pc[c] \in {"read_query_size", "read_result_size", "check_query_key"}
    BY <2>3 DEF Refuse, TypeOK, LocalsOK, PushLabels, CheckedQuerySize
  <2>4. ASSUME NEW t \in Threads, ThreadStep(t) PROVE FALSE
    BY <1>3, <2>4 DEF ThreadStep, TakeQuery, Compute, CheckResultKey,
                      EmplaceResult, callerVars
  <2>5. CASE Tick \/ UNCHANGED vars
    BY <1>3, <2>5 DEF Tick, vars, callerVars
  <2> QED
    BY <2>1, <2>2, <2>3, <2>4, <2>5 DEF Next
<1>4. CASE ~(pc[c] = "return_id" /\ query'[c] = query[c])
  BY <1>3, <1>4, MarksAreNoIds DEF NoId, Refused
<1> QED
  BY <1>2, <1>4

\* CalcManager implements QueryLifecycle: no interleaving of callers, cleaner
\* and threads, and no choice of ids, takes a query off its course.
THEOREM KeepsLifecycleHolds == Spec => KeepsLifecycle
<1>1. Init => Life!Init
  <2> SUFFICES ASSUME Init PROVE Life!Init
    OBVIOUS
  <2>1. ASSUME NEW q \in Queries
        PROVE  /\ q \notin delivered /\ q \notin cleaned /\ ~Ready(q)
               /\ ~Running(q) /\ ~Failed(q) /\ ~Queued(q) /\ ~Pushing(q)
    BY AbsentAssumption
    DEF Init, Ready, Keys, EmptyMap, Running, Failed, RunsOn, Queued, Pushing
  <2>2. \A q \in Queries : ticket[q] = NoId
    BY DEF Init
  <2>3. NoId # Refused
    BY DEF NoId, Refused
  <2>4. \A q \in Queries : LifePhase[q] = "new"
    BY <2>1, <2>2, <2>3, MarksAreNoIds, PhaseIs DEF Settled
  <2>5. LifePhase = [q \in Queries |-> "new"]
    BY <2>4 DEF LifePhase
  <2>6. LifeId = [q \in Queries |-> NoId]
    BY <2>2, MarksAreNoIds DEF LifeId
  <2>7. LifeWorker = [t \in Threads |-> Absent]
    BY DEF Init, LifeWorker
  <2> QED
    BY <2>5, <2>6, <2>7 DEF Life!Init
<1>2. Init => ReturnOK
  BY DEF Init, ReturnOK
<1>3. IndInv /\ ReturnOK /\ [Next]_vars => ReturnOK'
  BY ReturnStep DEF IndInv
<1>4. IndInv /\ ReturnOK /\ [Next]_vars => [Life!Next]_(Life!lifeVars)
  <2> SUFFICES ASSUME IndInv, ReturnOK, [Next]_vars
               PROVE  Life!Next \/ UNCHANGED Life!lifeVars
    OBVIOUS
  <2>1. CASE Tick \/ UNCHANGED vars
    <3>1. /\ UNCHANGED <<qque, rque, tpc, job, ticket, delivered, cleaned, query>>
          /\ UNCHANGED pc
      BY <2>1 DEF Tick, vars, callerVars, threadVars
    <3>2. \A q \in Queries : /\ Choosing(q)' <=> Choosing(q)
                             /\ Pushing(q)' <=> Pushing(q)
      BY <3>1 DEF Choosing, Pushing
    <3> QED
      BY <3>1, <3>2, Stutter
  <2> QED
    BY <2>1, CallerRefines, ThreadRefines DEF Next
<1> QED
  BY <1>1, <1>2, <1>3, <1>4, IndInvHolds, PTL DEF Spec, KeepsLifecycle, Life!Spec
=============================================================================
