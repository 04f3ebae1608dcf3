# PP-CNN in TLA+

PP-CNN classifies images on a server that never sees them: the client encrypts a
batch of images under CKKS (Microsoft SEAL), the computation server evaluates a
trained CNN on the ciphertexts, the client decrypts the scores.  The server is a
small concurrent service around a long computation.  This project specifies that
service, the client in front of it, the construction and evaluation of the network
behind it, and the files and buffers they read.  Paths below are relative to `src/`; `P/` stands for
`ppcnn/`.

## 1. Inventory

| Component | State it keeps | Operations | Talks to |
|---|---|---|---|
| `ConcurrentMapQueue` (`P/ppcnn_share/ppcnn_concurrent_mapqueue.hpp`) | a `std::map` and a mutex | `push`, `pop` (front), `pop` (key), `get`, `size`, `count`, `begin`/`end`; only the pops, `get` and the `emplace` of `push` hold the mutex | used by both queues |
| `CalcManager` (`P/ppcnn_server/ppcnn_server_calcmanager.cpp`), `QueryQueue`, `ResultQueue` | query queue, result queue, threads, a key map nobody reads | `start_threads`, `push_query`, `pop_result`, `cleanup_results`, `stop_threads` (logs only), `regist_enckeys` (no caller) | called by the connection handlers, feeds the threads |
| `CalcThread` (`ppcnn_server_calcthread.cpp`) | the query in hand | `exec` loop: pop a query, build the network, predict, push the result | both queues, the network builder, model files |
| `gen_uuid` (`P/ppcnn_share/ppcnn_utility.cpp`) | the C library's `rand` state, shared by the process | `srand(time)` then `rand` | query ids on the server, key ids on the client |
| Server and callbacks (`ppcnn_server.cpp`, `ppcnn_server_callback_function.cpp`, `ppcnn_server_state.cpp`) | connections (stdsc), a state machine that ignores every event | handlers for keys, query, result request | `CalcManager`, `KeyContainer`, sockets |
| Server `KeyContainer` | key id to encryption keys, no mutex, never erased | `register_keys` (first registration wins), `get_keys` (throws) | handlers |
| Client `KeyContainer` (`P/ppcnn_client/ppcnn_client_keycontainer.cpp`) | key ids, files in the working directory | `new_keys`, `delete_keys`, `get`, `get_param`, `data_size` | file system, `gen_uuid` |
| `Client`, `ResultThread` | one connection, callbacks by query id | `connect`, `register_enckeys`, `send_query`, `recv_results`, `set_callback`, `wait` | server over stdsc |
| Network builder (`P/ppcnn_server/cnn/load_model.cpp`, `network.cpp`, `opt_option.cpp`) | four process-wide `next_layer_in_*` globals, an `OptOption` with consumed levels | `BuildNetwork`, one builder per layer class, layer fusion | run by every calculation thread |
| Layers (`P/ppcnn_server/cnn/*.cpp`) | weights, geometry | `forward` | SEAL |
| Wire data (`plaindata`, `basicdata`, `encdata`, `seal_utility`, parameter structs) | – | save/load of framed streams | client and server |
| Config, demo programs | options; the batching loop and its shared callback block | `load_from_file`; `compute`, `callback_func` | client library |
| Not ours or offline: `stdsc` (empty submodule), SEAL, HDF5, `picojson.h`, the MNIST and CIFAR readers, `plaintext_experiment/` | | | |

How a query runs: the handler of connection *c* reads a query and calls
`push_query`; the id it gets (or -1) goes to the client; the client asks for the
result by id, on the same or another connection, and that handler polls
`pop_result` every 100 ms until some calculation thread has put the result in the
result queue.  Handlers and threads share the two queues and nothing else.

What is hard: the unlocked reads of `size`, `count` and the iteration in
`cleanup_results`; the test-then-insert sequence in `push_query`; ids that repeat
within a second; results leaving out of order; exceptions that nothing catches in
the worker loop; polls without an end; key files shared by processes; a result popped
before it is sent; one connection shared by several threads; globals shared by two
network builders; a level counter that must predict what a later pass consumes; one
parameter block shared by all callbacks.  Each is listed with its line under `hazards`
in `PROJECT.json`, with the properties that would catch it going wrong.

What makes each component correct:

* queue engine: a query is computed once and its result handed out once, to whoever
  asked for its id; nothing accepted disappears; the two limits hold, up to a bound
  that can be stated; expiry touches only what is due; work goes on while a thread
  lives;
* server: every request is answered or its connection ends, and a result is gone
  only if it was sent;
* key files: what one id yields belongs to one key pair; deletion deletes;
* client: a reply reaches the request it answers; a callback runs once per query;
* network builder: each layer's shape is computed from its predecessor of the same
  network; the levels consumed never exceed those of the key;
* batching: every image is in exactly one batch and its score lands at its index.

## 2. Modules

| Module | Models |
|---|---|
| `ConcurrentMapQueue` | the map inside the queue class, as operators on functions with an `Absent` value: `Emplace`, `Erase`, `Front`, `Poppable`, `Size`, and what an unlocked `count` may answer |
| `CalcManager` | the query engine: callers (handlers), calculation threads, both queues, the id generator and the clock |
| `QueryLifecycle` | the abstract specification: one query's life, with no queue in it |
| `CalcManagerLife` | the refinement mapping from `CalcManager` to `QueryLifecycle` |
| `CalcManager_proofs` | the theorems about the engine, with the lemmas about the map operations |
| `MCCalcManager` and `CalcManager_*.cfg` | the instances for TLC |
| `KeyFiles`, `KeyFiles_proofs`, `MCKeyFiles` | key pairs from the client's key files to the server's key container |
| `Server`, `MCServer` | `Server::start` and `stop`, the three handlers, the key container and the calculation threads, over connections that break |
| `ServerLife` | the refinement mapping from `Server` to `QueryLifecycle` |
| `ClientSession`, `MCClientSession` | one `Client` and its result threads on their one connection, composed with `Server` (EXTENDS) |
| `ClientSession_proofs` | the theorems about the server and, built on them, about its client |
| `TrainedModels` | the layer sequences of the training programs, the input of the network builder |
| `Windows` | output sizes, padding and range tests of convolution and pooling, in unsigned arithmetic |
| `NetworkLevels`, `NetworkLevels_proofs`, `MCNetworkLevels` | one computation: `BuildNetwork` with its optimizations, then `Network::predict`; levels and factors left out |
| `NetworkShapes` | the shapes that builders hand on through process-wide globals, with two threads that build |
| `LayerForward` | what the parallel loops of each layer compute, with symbolic ciphertexts |
| `Layers_proofs` | the theorems about both |
| `MCLayers` | the instance of `NetworkShapes` and of `LayerForward`: a behaviour starts one or the other |
| `MnistFiles`, `ClientDemo`, `ClientDemo_proofs`, `MCClientDemo` | the demo client: loading images, packing them into queries, callbacks |
| `CifarBatches` | the reader of the CIFAR-10 batches |
| `WireData` | the framing of plain and encrypted parts in one buffer |
| `Sums`, `Sums_proofs` | sums of sequences, of levels and of sizes, and what is proved of them |
| `ConfigFile` | the parser of configuration files |
| `Files_proofs` | the theorems about readers, framing and parser |
| `MCFiles` | the instance of `CifarBatches`, `WireData` and `ConfigFile`: a behaviour starts one of them |

`CalcManager` looks inside the calls of the manager; `Server` takes each of these calls
as one step and looks at what lies around them.  Both are shown to implement
`QueryLifecycle`, which is what makes the abstraction of the one inside the other safe to
read: a query has the same life in both.

### CalcManager, step by step

A caller's `pc` names the point between two places at which another thread can be
seen.  `push_query` is `CallPush`, `ReadQuerySize`, `ReadResultSize` (the two
operands of the `&&`, read in that order with no lock), `Srand` and `Rand`
(`gen_uuid`), `CheckQueryKey` (the `count` before the lock; the exception it leads
to is caught and yields -1), `EmplaceQuery` (the locked `emplace`) and `ReturnId`.
`pop_result` is `CallPop`, `PopResult`, `ReturnResult`; a poll that finds nothing
changes nothing and is no step.  `cleanup_results` is `CallCleanup`, `ScanResults`,
one `EraseResult` per collected id and `ReturnCleanup`; only callers in `Cleaners`
use it.  In the server itself nobody does, which is why most runs have none.
A thread is `TakeQuery`, `Compute`, `CheckResultKey`, `EmplaceResult`, or `dead`.

Variables: `qque` and `rque` are the two maps (`rque` keeps the query a result
belongs to and when it was created), `rng` the generator (seed and number of draws),
`query`, `asked`, `got`, `expired`, `job` the locals of the methods, `ticket` the id
each query drew.  `delivered` and `cleaned` are history: they record whose result
left by a poll and by expiry, and no guard reads them.

What is abstracted: a query is a model value that is pushed at most once; whether
its computation throws is a property of the query (`BadQueries`: an unknown model
name, a model the builder rejects).  `rand` is a table `Rands[seed][draw]`: the same
seed gives the same sequence, which is all the C standard promises; the sequence
itself is a constant of the specification, so the theorems hold for every table.
A search of the `std::map` that races with a rebalancing is undefined in C++; the
outcomes modelled are that it misses a present key, or, in the scan, any subset of
the entries.  A crash of the process is not modelled, there being no persistent
state to come back to.  What stdsc does with an exception that leaves `exec` is not
visible in the repository (the exception slot `te_` it is given is a null pointer);
the model takes the mildest outcome, the end of that thread with its query.

`stop_threads` only logs and `CalcThread::stop` has no caller, so `force_finish`
stays false and is not a variable.  `ConcurrentMapQueue::get` has no caller.

### KeyFiles, step by step

A file of the directory holds the number of the key pair it was written for, or
`Torn` while its writer has it open, `Mixed` once two writers had it open at a time,
`Absent`.  `new_keys` is `NewKeys` (`gen_uuid`, the map entry, the generation of the
pair) and then, for each file in the order of the code, `OpenFile` and `WriteFile`.
`delete_keys` is `CallDelete` and one `RemoveFile` per turn of the loop of
`remove_keyfiles`.  That loop has no normal end: the third kind has no file name, so
what ends the call is always an exception and the id stays in the map.  `get` is one
step that reads a key and the parameters.  `Register` stands for `register_enckeys` with
the handler behind it; `loaded` is what the caller of `get` holds, as in `init_keys` of
the demo client.  A failed `get` changes nothing and is no step.

A read is one step and so never meets a writer half way.  That hides nothing the
properties depend on: a file another process is rewriting is the file of an id drawn
twice, and of such an id they promise only a pair drawn under it, or a mixture.  What a
mixture holds is not said, which covers every outcome of two interleaved writers.  A
client process has one thread, so its `rand` is the first draw after `srand` and
`FirstRand` is the table `Rands` of `CalcManager` at the first draw.

### Server and ClientSession

`Listen` and `StartThreads` are the two halves of `start`: connections are accepted
before the threads exist.  A connection is a record of its state, the requests that
arrived and the replies not yet read.  `Receive` takes a request and dispatches it by
control code; then

| Handler | Steps |
|---|---|
| `CallbackFunctionEncryptionKeys` | `RegisterKeys` |
| `CallbackFunctionQuery` | `LookUpKeys` (throws for unknown keys), `PushQuery`, `SendQueryId` |
| `CallbackFunctionResultRequest` | `PopResult` (waits until the id is there), `SendResult` |

`TakeQuery` and `Conclude` are the calculation threads, `Break` the loss of a connection,
`Stop` the closing of all of them.  `ticket`, `collector`, `delivered` and `firstKeys` are history.

`ClientSession` adds the client on one of the connections: `RegisterEncKeys`,
`SendQuery`, `RecvQueryId`, `SetCallback`, the result threads' `RequestResult`,
`RecvResult` and the invocation of the callback, `wait` and the destructor, which first
disconnects and then joins.  The main thread and the result threads use the connection
for exchanges: write a request, read a reply.

stdsc is an empty submodule, and what is assumed of it is stated here: a connection
carries requests and replies in order; one handler at a time runs for a connection; a
handler that throws may or may not end it; closing a connection wakes who waits on it;
a failed send throws.  Whether an exchange keeps other threads out is left open:
`exclusive` is chosen at the start, and `OwnReplies` says what holds without it.  The
server's key map has no lock either; two handlers that use it at once are a data race,
and each use is taken as one step.  Packets arrive as they were sent: that `RegisterKeys` and
`LookUpKeys` would also throw on a packet they cannot parse is left out.

### The network

`NetworkLevels` follows one query.  A layer object holds the levels at which its builder
encoded constants (`plains`), `consumed_level` when it was built (`at`) and the factors
folded into its weights (`fold`).  A ciphertext is its level and its *debt*: the factors
that optimizations have left out of it so far, leading coefficients of polynomials and
areas of poolings.  `Forward` throws where SEAL rejects operands of different levels, a
rescaling past the last prime or a product with 0.  The last is SEAL's default: it throws when
a result is transparent.  Weights and filters are rounded away from 0 (`roundValue`); the
factor of a pooling is not, and what a normalization multiplies by is trained data and taken to be other
than 0.  Where a layer throws inside a parallel loop the process ends, which the engine's
models take as the end of the thread (see above).  A bias on, or a polynomial of, a ciphertext whose debt
is not settled by the layer's fold makes it `Spoiled`.  `TrainedModels` is translated
from `plaintext_experiment/`, which writes the structure files the server reads.

`NetworkShapes` takes a builder as two steps per layer, sizing the weight buffers from
the globals and constructing the layer, so that another thread can build in between.
`SizeMod` and `IntMod` stand for 2^64 and 2^32: all sizes that occur are smaller, and a
negative difference wraps in either.

In `LayerForward` a ciphertext is the set of products it sums.  Dense layers and
normalizations are run, and no property reads their outputs: each is one product, or one sum over
all inputs, as in its definition.  The iterations of the
OpenMP loop are work items that run in any order, each one atomic: they write
different elements.  `Windows` is shared with `NetworkShapes`.

### The demo client

`ClientDemo` is `main.cpp` of the demo: keys of the configured power, loading, one step
per turn of `compute`, and `callback_func` per query, which reads the bounds from the
shared block at two moments.  The query in between is an answer at any later time, which
is what `ClientSession` allows.  `crashed` stands for undefined behaviour (an image past
the last one, the first of none, a remainder by zero); nothing is said of what follows.
`MnistFiles` says how many items the readers take from a file.  Its size test wraps at 32 bits as the
code's does; the files of the run hold what their headers say, so no count reaches the wrap, and
reading past the end of a file that passed by it is not modelled.

### Files and buffers

`WireData` writes and reads the five packets part by part, on cells that name the part they
belong to; the sender's size computation, the writes and the reader's arithmetic are kept
apart as in the code.  `stream_size` saves a part to a string and takes its length, so one operator
gives the bytes written and the size returned; that SEAL's `save` returns what it writes is assumed.
`ConfigFile` is the loop of `load_from_file` with `split`, over
lines of ordinary characters, delimiters and comment signs.  `CifarBatches` is
`read_dataset_direct`, with batches that are missing or short.

## 3. Properties and runs

Most of them are about interleavings of several actors.  Types are part of the inductive
invariants: `IndInv` of `CalcManager` is checked in `race`, those of the other components
with theorems are proved (section 4), `TypeOK` of `Server` is part of `KeysStay`.

* `QueryCapacity`, `ResultCapacity`: how far the limits can be exceeded, exactly:
  by one less than the number of callers, and for the results by everything that
  may be queued, admitted and running.  `race` reaches the first bound and `cleanup`
  the second, so replacing `<` by `<=` in either test breaks the property.
* `ComputedOnce`, `NothingLost`, `OwnResult`, `DeathHasACause`: where a query is.
  The id collision is not excluded: `Collides(q)` appears in the properties exactly
  where the code loses a query because of it, and nowhere in `ComputedOnce` or
  `OwnResult`, which hold in spite of it.
* `EntriesAreFinal`, `CleanedWereExpired`: what no step may do.
* `KeepsLifecycle`: every step is a step of `QueryLifecycle` or changes no query's
  phase, expiry included.  `LivesOn`: these steps meet the lifecycle's fairness, in which
  some queued query is begun while a worker is idle, whichever it is.
* `QueuedIsComputed`, `PolledIsCollected`: progress.  A poll finds its result wherever it is in
  the map, but a queued query has no such promise: `pop` takes the least id
  (`ppcnn_concurrent_mapqueue.hpp:74`), ids are random, and while queries keep arriving one with
  a large id can be passed for ever.  `QueuedIsComputed` promises a query its turn unless smaller
  ids are in the queue again and again (`Overtaken`).  In `live` arrivals never end; without that
  exception TLC finds the query that waits for ever.
* `OwnKeys`, `Decryptable`: what a key id yields, to its owner and on the server, in
  spite of other processes in the directory; `Repeated` (an id drawn twice) appears
  where the code mixes pairs up, and nowhere else.
* `DeletedPairGone`: what remains true of a deletion that always stops half way.
* `KeysStay`, `KeysComeFirst`, `LostWithItsConnection`: keys and results across handlers;
  a result that is popped and not delivered has lost its connection, and nothing else
  loses one.  `KeepsServing`: each step of the server is a step of `QueryLifecycle` or leaves
  every query's phase alone; `ServesLifecycle` adds the fairness, in a session with a client.
* `OwnReplies`, `CallbacksRun`, `DestroyEnds`: the threads of one client.
* `LevelsAgree`, `DepthIsRequired`: the count of levels the builder makes is the one the
  forward pass follows, and the documented saving.  `ThrowsOnlyOnZero`: a network that could
  be built throws while it predicts in one case, and in that case always: an average
  pooling behind a square activation, with the activation optimized and the pooling not,
  multiplies by 0.0.
* `SafeResultExact`: no factor is lost or folded twice, but for two combinations
  (`FoldsSafely`), which are described below.
* `BuildFailureHasACause`: a chain as long as the prediction needs is long enough for the
  builder; without it `ThrowsOnlyOnZero` could hold because nothing is ever built.
* `AloneIsTrained`: a network built while no other is has the trained shapes, but for one
  kind of layer that takes its size from what an earlier network left.
* `ConvolutionIsTrained`, `PoolingIsTrained`, `HeadingIsTrained`: the loops against Keras'
  definitions, written independently of the code.
* `UndisturbedRowsAreRight`, `CrashHasACause`: batching.
* `SetsAreAPrefix`, `LimitIsReached`, `FillsItsBuffer`, `RoundTrip`, `FirstSettingHolds`: readers
  and writers against what they should yield.

| Run | Instance | Shows |
|---|---|---|
| `race` | 2 callers, 2 threads, 3 queries (one throws), limits 1 and 1, 2 seconds | all safety properties of the queues, 268k states |
| `cleanup` | 2 callers of which one also cleans up, 1 thread, 4 queries, limits 1 and 1, lifetime 1 s, 2 seconds | the result queue filled to its bound of 3; expiry against pushes, polls and stores, 670k states |
| `live` | 1 caller, 2 threads, 3 queries (one throws) that come again once collected, 2 seconds that repeat, fair | a queued query is computed unless it is overtaken without end, a polled result collected; the lifecycle's fairness, 103k states |
| `key_files` | 2 client processes, 2 key pairs, 2 seconds with different ids | the key file properties, 2.8M states |
| `key_delete` | as `key_files` | violation: after `delete_keys` the relinearisation keys and the parameters are still there |
| `server` | 2 connections, 1 thread, 2 key sets under one id, limits 1 and 1, 4 requests (the second throws as a query) | the server's safety properties, `QueryLifecycle` without its fairness, 429k states |
| `client` | 2 queries (one may throw), limit 1, 5 requests, exchanges exclusive or not, fair | each thread reads its own reply, callbacks run, the destructor returns, the server implements `QueryLifecycle`, 28k states |
| `client_refused` | 3 queries, limit 1, fair | violation: after a refused query `send_query` does not return |
| `levels` | 45 model structures, 5 optimizations, 5 activations, 6 modulus chains | all properties of levels and factors, 91k states |
| `layers` | small layers of every class, strides and paddings, all schedules; 2 threads that build 3 networks of 2 structures, 1 thread that builds 3 of any | the forward passes; a network built alone, 1.0M states |
| `demo` | every directory and configuration, up to 7 images, 2 or 4 slots | what a callback scores, and why the program may crash, 627k states |
| `files` | 4 training batches of 2 items, limits 0 to 9; parts of 1 to 3 cells, up to 3 ciphertexts; every file of up to 2 lines of 4 characters | the reader's limit, the framing, the parser, 1.0M states |

`key_delete` checks the comment of `delete_keys`
(`ppcnn_client_keycontainer.hpp:60`); `DeletedPairGone` is what holds instead.
`client_refused` checks the comment of `send_query` (`ppcnn_client.hpp:89`): a refused query
gets a callback as well, whose thread waits for the result -1 for ever and keeps the
connection.

Other places where the code does less than its documents say have no run; the properties
are stated so that each of them appears as a condition or a weaker bound:

* the constructor's comments on the two limits (`ppcnn_server_calcmanager.hpp:43-44`) hold
  up to `QueryCapacity` and `ResultCapacity` only;
* `cleanup_results` has no caller in the server, so a result nobody asks for outlives
  `max_result_lifetime_sec`;
* without `enable_optimize_pooling` the divisor of global average pooling is not applied
  (`load_model.cpp:556`), and with the activation optimization a square activation multiplies
  the next weights by 0 (`load_model.cpp:536`): `FoldsSafely`;
* where the next layer is an average pooling that is not optimized (`OPT_ACTIVATION` alone), that 0
  is not rounded up as weights are (`:281`) but encoded as it is (`:346`): the product
  (`average_pooling2d.cpp:191`) is a transparent ciphertext, which SEAL refuses, so a square
  model with average pooling is built and then throws: `ThrowsOnlyOnZero`;
* a query with a large id may wait for ever while others keep coming: `Overtaken` in
  `QueuedIsComputed`;
* a query that asks for SQUARE on a model of another activation finds no coefficients
  (`activation.cpp:35` and `:193`): `SameActivation`;
* a model whose dense layer is followed by a normalization, as trained with `--full`, cannot
  be built fused (`load_model.cpp:751`): the last case of `BuildFailureHasACause`;
* a channel normalization after a dense layer takes the unit count an earlier network left
  (`load_model.cpp:395`), and two threads that build at once read each other's shapes
  (`:67`): the conditions of `AloneIsTrained`;
* the demo client reads past its images when they fill the slots (`main.cpp:250`,
  `CrashHasACause`), overwrites the bounds of a callback that has not run (`:284`,
  `disturbed`), disconnects after a fixed sleep (`:319`), generates no keys without a
  configured power (`:195`) and reads MNIST files for every dataset (`:342`).

The comment of `resize_training` and of `resize_test` (`P/ppcnn_share/cnn_utils/cifar/cifar10_reader.hpp:41`
and `:55`) is the reverse of their code: "If new_size is less than the current size, this function has
no effect", where both shrink exactly then.  The properties of `CifarBatches` follow the code.

Bounds, and why they are enough.  `MaxClock` seconds: one second boundary separates
ids of equal seed from ids of different seed and makes a result of lifetime 1 due.  In `live`
the clock starts over after its last second, and time passes only where `srand` reads it: the
seeds repeat, and arrivals need no bound.  `MaxDraws` = number of callers: between a caller's own
`srand` and its `rand` each other caller can draw at most once before it reseeds, so
no draw is cut off.  The table `MCRands` starts with the largest id, so the map's order
is not the order of arrival, and it wraps, so ids also repeat across seconds.  Two
callers and two threads are what each race needs; a third query makes one that waits
behind, and one that dies, coexist with one that is served.  `Deadlock` is not
checked: with every query pushed and every result taken, the system waits.

For the key files two pairs are enough for each mix-up: both under one id (one second) or
under two, by one process or by two.  The program may stop there, so the deadlock check
is off as well.

For the server two connections are what an overtaking, a lost result and a collision of
key ids need, and limits of 1 make every queue full at some time.  Four requests are keys,
a query and its result on one connection, with one more in its way, or two on each.  For
the client two queries are one running or queued and one behind it or refused; the third in
`client_refused` is the one that finds the connection taken.  The
levels of `levels` run from chains too short for any model to one long enough for all.
Layers have at most 4 rows and columns and windows of up to 3, which puts a window in
every position relative to both borders.  For the demo's batching 7 images and 2 or 4
slots make one step, a full last step, a part-filled one and more steps than two.  Two
lines of a configuration file are needed for a key that is set twice, and four characters
for two tokens with a delimiter doubled or in front.

Fairness.  `Fairness` of `CalcManager` is weak fairness of `CallerStep(c)` and `ThreadStep(t)`: the
operating system runs every thread that is not waiting, and a poll every 100 ms finds
a condition that stays true.  The calls themselves (`Call`) and `Tick` have none: a
client need not call.  `EndlessSpec` of `MCCalcManager` adds to the steps of `CalcManager` the two that
keep arrivals going, of the model and not of the code: `Forget`, after which a query whose result was
collected stands for a new one, and `StartOver` of the clock.  They have no fairness either.
`EndlessSpec` is for `live` alone; the lives of `QueryLifecycle`, which end, are checked in `cleanup`
and proved.  A thread that polls an empty queue, or a caller that polls for
an absent id, is not enabled and owes nothing.

In `Server` the handlers and the threads run, and `start` goes on; what clients send, breaks,
and `Stop` are not fair.  `FairClientSpec` adds the client's own threads: the main
thread between two calls is the application and owes nothing, inside a call it goes on.  Its
result threads have strong fairness, because the turn to exchange is open and taken again and
again: a thread that waits for a mutex is not overtaken for ever.
Runs of safety properties use specifications without fairness.

Symmetry is used in safety runs only: of callers and of threads in `race`, of queries in
`cleanup`, where none throws, of connections and of key sets in `server`.

## 4. Proofs

Every theorem holds for every value of the constants that meets the assumptions of its
module; each of those is evaluated in a run.  The sets of callers, threads and connections
are finite, the generator is any table, limits are any numbers, and `Absent` is none of
the values it stands in for.  Names of invariants are those of the proof modules.

| Module | Theorem | States |
|---|---|---|
| `CalcManager_proofs` | `TypeCorrect` | `TypeOK` and `LocalsOK` |
| | `ComputedOnceHolds`, `NothingLostHolds`, `OwnResultHolds`, `DeathHasACauseHolds`, `QueryCapacityHolds`, `ResultCapacityHolds`, `EntriesAreFinalHolds` | the properties of those names |
| | `CleanedWereExpiredHolds` | the action property of the cleanup |
| | `KeepsLifecycleHolds` | `CalcManager` implements `QueryLifecycle` |
| `ClientSession_proofs` | `KeysStayHolds`, `LostWithItsConnectionHolds`, `KeysComeFirstHolds` | the server's safety properties |
| | `KeepsServingHolds` | `Server` implements `QueryLifecycle` |
| | `OwnRepliesHolds` | each exchange reads its own reply, unless exchanges overlap |
| | `ExclusiveHolds` | an exclusive connection lets none overlap |
| `KeyFiles_proofs` | `OwnKeysHolds`, `DecryptableHolds`, `DeletedPairGoneHolds` | the key file properties |
| `NetworkLevels_proofs` | `PlanHolds`, `LevelsAgreeHolds`, `DepthIsRequiredHolds`, `BuildFailureHasACauseHolds` | builder and forward pass agree, for any sequence of layers |
| | `ThrowsOnlyOnZeroHolds`, `SafeResultExactHolds` | for models built like the trained ones: a built network throws in the one case above and no other; a result owes no factor, but for the combinations of `FoldsSafely` |
| `Layers_proofs` | `AloneIsTrainedHolds` | a network built while no other is has the trained shapes, for any structures like the trained ones and any number of threads |
| | `ConvolutionIsTrainedHolds`, `PoolingIsTrainedHolds`, `HeadingIsTrainedHolds` | what the loops of a layer yield, for layers of any size and in any order of their iterations |
| `ClientDemo_proofs` | `CrashHasACauseHolds`, `UndisturbedRowsAreRightHolds` | batching in the demo client |
| `Files_proofs` | `FillsItsBufferHolds`, `RoundTripHolds` | packets, for parts of any number and size |
| | `SetsAreAPrefixHolds`, `LimitIsReachedHolds` | image batches, for any number and size of files and any limit |
| | `FirstSettingHoldsHolds` | configuration files, of any lines |

For each component `IndInvHolds`, or `PlanHolds`, `ClientInvHolds`, `ShapesInvHolds`,
`ForwardInvHolds`, `DemoInvHolds`, `WireInvHolds`, `BatchInvHolds` and `ConfigInvHolds`, is the
inductive invariant as a theorem.  None of the properties is inductive alone; what has to
be added is said below, component by component.

### The query engine

`LocalsOK` ties a caller's locals to its
`pc` and says that no two callers push one query.  `PlacedOK` says that whatever is
stored or computed under an id drew that id, and that a query whose caller is still
between `rand` and the end of `emplace` is nowhere yet: without it a step of
`EmplaceQuery` could store a query twice.  `AcceptedOK` is `NothingLost` from the end of
`emplace` on rather than from the return.  With `ComputedOnce` these form the invariant
of lemma `PlacesInvariant`, from which the first group follows; the proofs take each
action in turn, with lemmas for the actions that store, take or draw, and, at the head of
the module, for what the map operations do to keys and sizes.
`AdmissionOK` is the invariant behind the bounds: it charges to a queue every caller
that has passed its size test, and to the result queue also every busy thread and
everything queued; each step then moves a unit from one term to another.  The
conjunction of all of these is `IndInv`, which TLC checks in `race`.

At least one thread is assumed because of `ResultCapacity` alone: with none, one caller
and limits of zero its right-hand side is negative.

`cleanup_results` judges by value and erases by id some steps later.  `JudgedOK` carries the
judgement over these steps: an id collected for erasure was that of a result past its
lifetime, which is still there or has left.  The clock only moves forward, so a judged result
stays past its lifetime; what may be erased in its place is a later result of the same id,
the condition in `CleanedWereExpired`.

For the refinement each action maps to the step of `QueryLifecycle` that moves one query on,
or to no step of any query.  `IndInv` says where a query is, and so what its phase was;
`ReturnOK` says that a caller which returns has drawn an id or been refused.  A query that
loses its entry to a repeated id leaves the course where the abstract specification allows it.

### The server

`OrderOK` says that a connection works off its requests in the order in which they were sent, and
that no request is under way twice; `TicketsOK` that a request has no id before its query
is pushed.  From these, `PlacedOK` follows as in the engine, and with it the refinement.
`KeysHeld` is `KeysStay` with the handlers between `lookup` and `push` included.
`CollectedOK` says of each result that was popped that it is being sent, was sent, or was for a
connection that broke; it is what `LostWithItsConnection` needs, whose handler returns the moment
the connection fails.  `KeysComeFirst` looks at a whole history: `KeysAhead` follows the first
keys that a connection sent for an id until they are registered, as a request ahead of all
later ones, in the hands of the handler, or lost together with the connection.

### The client

`ClientInv` extends the server's invariant by the client's threads.  `RepliesOK` says that replies
are under way in the order of their requests, with the requests still to be answered behind
them, and `SendingOK` that the result a handler is about to send is of the id that was asked
for.  `ExchangesOK` is the part that carries `OwnReplies`: while exchanges do not overlap one
thread waits, and whatever is under way besides keys is its request or the reply to it.  One
overlap ends this for good, since a reply read by the wrong thread leaves another one behind.
`HolderOK` gives `ExclusiveHolds`: where the connection keeps other threads out, `OwnReplies`
holds without its condition.

### The key files

`CopiesOK` is one inductive
part: every copy of a key, in a file, in a process or on the server, is of a pair drawn
under its id; a `Mixed` one occurs only where two pairs were drawn, which needs that no
two processes are writing the same pair.  `Decryptable` then follows, since with one pair
drawn there is nothing else a copy could be.  `GoneOK` is the other part: while an id was
drawn once it has one owner, so nobody writes what another deletes; the public file is
written before the secret one and removed before it, so that the secret file alone exists
only in the middle of a removal.  Without that last part a deletion that finds no public
file could leave a secret one behind.

### The network

The first four theorems of `NetworkLevels_proofs` hold for every set of models: any sequence
of layers, not only the trained ones.  `LevelPlan` is inductive as it stands: it links the
count at which each object was built to that of the next one, and the ciphertext's level to
the count of the layer it is about to enter.  Lemmas give, per builder, the constants it
encodes and what it adds to the count; `BuildFits` compares this with what `forward` uses
and rescales; `SameUses` says that no step changes the flags on which that depends.  The
assumption `SameActivation` is part of the property and needed: see the list in section 3.

`CountInv` is behind `DepthIsRequired` and `BuildFailureHasACause`.  It says that what the builder
has counted, and what the objects built so far rescale, is the sum of the documented costs
of the layers done, where a fused normalization costs nothing and builds nothing.  The
levels at which a ciphertext enters the layers are a trail `g`, a witness that each step
of the builder extends.  Sums are values of a recursive function; in `Sums_proofs`, lemmas `SetInduction`,
`SumsExist`, `SumsOfSteps` and `SumsOfGrow` prove what is needed of them for any length, by
induction on a set of numbers (the library's well-founded induction on sets, with no operator
as a parameter).

Two theorems have hypotheses on the models.  The code builds from whatever structure file it is
given and does not check these, but each training program meets them, and `MCNetworkLevels`
evaluates them for every structure of the run (`TrainedStructures`):

* `EndsBiased`: the last layer is one with a bias.  A pooling or a square as the last layer would be
  built at the end of the chain and then rescale past it, so `ThrowsOnlyOnZero` fails.
* `FoldsInTime`: what an optimization leaves out meets a layer that folds it before one
  that cannot.  `NamedAfterActivation`: a model file is named after its polynomial, by which
  the builder finds the coefficient.

`CompleteInv` compares each object with the last level of the chain: what is left for `Forward` to
throw on is a factor of 0.  `ZeroInv` follows the coefficient from the activation to the layer that
takes it: it is pending behind an optimized activation and never behind a layer with a bias, so that the
poolings built with a factor of 0 are those behind a square, and a prediction gets past none of
them.  `DebtInv` says that what
the builder has left out and not folded yet is what the ciphertext will owe when it gets there,
again with a trail of debts as a witness, and that nothing is owed after a layer with a bias.

### The shapes

`ShapesInv` follows the four globals through the builders.  `Handed` says what they hold when a
network is built alone: up to the heading, the flattening or the global pooling, rows, columns and
channels are what the layers so far make, and the units are those an earlier network left; from the
heading on the units are what the layers make and the rest is nobody's concern.  `HasRead` says what
the builder in progress has taken from them, and `AloneOK` that who started alone meets no other
builder before it is done or is no longer called alone, so that no other thread's step changes the
globals in between.  The units left behind are why `AloneIsTrained` has its condition: a
normalization of channels takes them if they are not 0.  What Keras infers (`Trained`) is a recursive
function over the layers, whose values `ShapesExist` provides by the same induction on a set.

`Sequential` is the hypothesis on the models: the first layer is a convolution with the shape of the
images, exactly one layer is a heading, dense layers come behind it and pooling and
convolutions before it, a normalization follows a layer with weights, and the units of a heading are
fewer than 2^64.  The code checks none of this, each training program writes such
structures, and the `layers` run evaluates it for all of them.  Without it the theorem is
false: a model without a heading leaves its dense layer the units of an earlier network.

### The forward passes

`ForwardInv` says that an output whose iteration has run is what Keras defines, and that the
iterations still to run leave it alone.  The iterations are a set of which any is next, so the
theorems hold for every schedule of the parallel loops.  Their arithmetic is proved in four steps:

* one axis (`AxisOutputs`, `AxisPadding`, `AxisWindow`): the output size is the number of windows
  that fit, the padding is Keras', and a target is in range by the code's unsigned test
  exactly for the taps of the window.  `SmallInts` and `SmallSizes` carry the values through
  `size_t` and `int`, which is where negative targets and the lower bound of a range could go wrong;
* one loop counter for two or three nested loops (`Division`, `Divided`, `TwoDigits`,
  `ThreeDigits`): quotients and remainders are the digits of the counter, so that each combination
  of tap and channel comes exactly once; `FlatPositions` uses the same for the flattened position;
* the loop that sums (`Accumulated`): a loop that assigns only before any product is kept ends
  with all products, or throws, and does not throw where the first product is the assigned one;
* which product is the first one in range, for the counter of the convolution and for the corner
  test of the pooling.  For the second it is not always the assigned one: with padding
  `PoolingIsTrained` leaves the end of the process as the other outcome.

`LayersAssumption` says that there are no empty dimensions, windows or strides, that the size of an
axis and its window together fit an `int`, and that a window without padding is no larger than
its axis, which Keras demands of a model.  A larger one would give an output size that wraps.

### The demo client

`DemoInv` follows main and each callback through the one parameter block they share.  `MainInv`
says whose bounds the block holds at each of main's steps, `PackedInv` that the images of every
step sent are packed in order, and `RowsSoFar` that an undisturbed callback has given each image
of its step that image's scores, up to the label in work.  `OneStepInv` is needed for
`CrashHasACause`: with fewer images than slots there is a single step, so that whatever
bounds a callback finds, disturbed or not, keep within its containers.  The quotients and
remainders of indices are left to the arithmetic of the provers; that a power of two is a positive
number is not known to them and is part of `DemoAssumption`, which TLC evaluates.

### The framing

`Offset(i)` is the place at which part `i` of a packet begins, by the sizes of the parts before
it.  `SenderOK` says that the sender is at the offset of the part it is about to write, that
`PartsWritten` before it are where they belong, and that no cell behind it is blank; `ReceiverOK`
that the receiver is at the offset of the part it is about to read and has all parts before
it.  `Places` and `SumsOfGrow` put the offsets in order, so that writing one part
leaves the others alone and `Found` gives the reader the cells of its part.  The parts are any
sequences of numbers: the theorems do not depend on the sizes of keys and ciphertexts.  The one
assumption is about the model: `Blank` is not a cell of any part.

### The image batches

`BatchInv` compares a set with what the files read so far yield (`First`): the images are how
that starts, all of it or, with a limit, as many as were asked for.  This is what makes the room
left, an unsigned difference, safe to use: without a limit it is 0 or wraps, and must then be no
less than a batch, so `CifarAssumption` says that all training batches together have fewer than
2^64 items.  It also says that the reader knows at least one batch, and that a limit is an
unsigned number.  `FlattenSeq` is a recursive function over the files: `GluedExist` shows by induction on
a set that it has the values its definition asks for, and `BeginningsGrow` that each of them
is how the later ones start.

### The configuration files

`ConfigInv` says that the map has the settings of the lines read so far, and inside `split` that
the tokens cut are those that begin up to some position of the line, with `index` at the next
one.  Tokens are defined by which characters belong to one, without a cursor; `StartAfter` numbers
them.  Lemmas relate `find_first_of` and `find_first_not_of` to that definition, and `substr` to the
token that begins where it cuts.  The assumptions are that delimiter and comment sign differ from
each other and from the other characters; lines and files have any length.

### Model-checked only

Liveness (`QueuedIsComputed`, `PolledIsCollected`, `LivesOn`, `ServesLifecycle`,
`CallbacksRun`, `DestroyEnds`) is outside the prover's reach: it rests on fairness, whose
definition needs ENABLED.  Every other property that a passing run checks is a theorem.

## 5. Extent

Modelled: the queue engine, the server, the client session, the key files, the network
builder with its levels and shapes, the forward passes, the demo client, the framing, the
configuration parser and the readers that have a caller; the theorems above.  With that the
plan is complete.

Not modelled, and why: the arithmetic of SEAL and its noise (numerical); HDF5 and
`picojson` (vendored; their results enter as structures and shapes); the training programs
beyond the structures they write (numerical, offline); option parsing and logging (input and
output only); the variants of the dataset readers, the text operators of the parameter
classes, `ConcurrentMapQueue::get` and `CalcManager::regist_enckeys`, which have no caller;
the state machine of the server, which ignores every event; the inside of stdsc, of which
only the assumptions above are used; and the ownership of memory in `memcpy` of
`Ciphertext` objects (`ppcnn_server_calcthread.cpp:225`), which no model of values can show.
