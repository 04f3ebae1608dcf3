------------------------- MODULE ConcurrentMapQueue -------------------------
(***************************************************************************)
(* The map inside ppcnn_share::ConcurrentMapQueue<Tk, Tv>: a std::map from *)
(* integer keys to values, written here as a total function whose value at *)
(* an absent key is Absent.  The operators are the bodies that the class   *)
(* runs under its mutex; the reads it makes without the mutex (size, count,*)
(* the check in push) are steps of the modules that use the queue.         *)
(***************************************************************************)
EXTENDS Integers, FiniteSets

CONSTANT Absent        \* "no entry under this key"

EmptyMap(K) == [k \in K |-> Absent]

Keys(map) == {k \in DOMAIN map : map[k] # Absent}

Size(map) == Cardinality(Keys(map))

Holds(map, key) == map[key] # Absent

\* Mutant: operator[] instead of emplace.
EmplaceOverwriting(map, key, val) == [map EXCEPT ![key] = val]

\* std::map::emplace leaves an existing entry alone.
Emplace(map, key, val) ==
    IF Holds(map, key) THEN map ELSE [map EXCEPT ![key] = val]

\* Mutant: the value is copied out as by get, the entry stays.
EraseNothing(map, key) == map

Erase(map, key) == [map EXCEPT ![key] = Absent]

\* The keys pop(Tk&, Tv&) may take: begin() of an ordered map, the least key.
Front(map) == {k \in Keys(map) : \A j \in Keys(map) : k <= j}

\* Mutant: the non-const overload is chosen and the front is popped.
PoppableFront(map, key) == Front(map)

\* Mutant: only the front can be popped, if it is the key asked for.
PoppableAtFront(map, key) == Front(map) \cap {key}

\* The keys pop(const Tk&, Tv&) may take: the one it is given, if present.
Poppable(map, key) == Keys(map) \cap {key}

\* Mutant: empty() is asked instead of count(key).
CountAnswersEmpty(map, key, busy) == {Keys(map) # {}}

(***************************************************************************)
(* What an unlocked map_.count(key) can answer.  While another thread is   *)
(* inside emplace or erase the tree is being relinked and the search can   *)
(* miss a key that is present; it cannot find one that is not.             *)
(***************************************************************************)
CountAnswers(map, key, busy) ==
    IF busy /\ Holds(map, key) THEN BOOLEAN ELSE {Holds(map, key)}
=============================================================================
