# TLA+ models of the EIDA mediator web services

These modules model the services in `src/eidangservices`, check them with TLC on
small instances, and prove the central results with TLAPS for every instance.
`PROJECT.json` maps every definition to the lines it stands for.

Paths below are relative to `src/eidangservices/`; *FED* is `federator/server`.

## 1. Inventory

| component | code | state | operations | interacts with |
|---|---|---|---|---|
| resources, schemas | `FED/routes`, `utils/request.py`, `utils/fdsnws.py`, `utils/schema.py` | none | parsing and validation of GET and POST requests | strategies |
| strategies, request handlers | `FED/strategy.py`, `FED/request.py` | routing table, total duration | `route`, `request` | StationLite, retry budget, pool |
| request processors: raw, text, XML, wfcatalog | `FED/process.py` | list of AsyncResults, sizes, thread or process pool, response generator | `_request`, `_wait`, `__iter__`, `_handle_413`, `_handle_error`, `_terminate`, `_call_on_close` | pool (queue and results), context, cache, strategy |
| download tasks | `FED/task.py` | temporary file, size | `__call__` under three decorators, `_run`, `_handle_error`, `_teardown` | endpoint, context, retry budget, pool |
| split-and-align (SAA) tasks | `FED/task.py` | list of stream epochs, last object, file | `split`, recursive `_run` | endpoint, retry budget |
| StationXML network combiner | `FED/task.py` | its own pool, results, element tree | `__call__`, `_run`, merges, `_terminate` | download tasks, context |
| request context | `FED/misc.py`, `FED/__init__.py` | a redis key, a tree of contexts | `acquire`, `release`, `locked`, `teardown` | processor, every task |
| client retry budget | `FED/stats.py`, `FED/mixin.py` | a redis sorted set per endpoint | `append`, `error_ratio`, `gc` | every task of every process, strategies |
| caches | `FED/cache.py`, `FED/mixin.py` | directory and count file, or redis | `get`, `set`, `delete`, `_prune` | station processors of every process |
| StationLite harvester, database | `stationlite/harvest`, `stationlite/engine` | SQL tables with `lastseen` | `RoutingHarvester`, `VNetHarvester`, `clean` | EIDA nodes |
| StationLite query | `stationlite/engine/dbquery.py`, `stationlite/server` | none | stream epochs and routes of a request | database, strategies |
| stream epochs | `utils/sncl.py` | interval trees | `slice`, `merge`, modification | all of the above |
| mediator | `mediator` | none | Python 2 prototype | |

How a federated request runs: a resource parses and validates it; flask acquires the request's
root context (a redis key); the processor asks StationLite for routes, drops endpoints beyond
the retry budget, and the strategy cuts what is left into tasks of a `ThreadPool` (for StationXML a
`Pool` of processes, whose combiners have a thread pool each). The processor polls the AsyncResults in `_wait` until one
holds data. Then a generator, `__iter__`, goes on polling and yields the files of ready results. Every
task looks at the context before and after its download and tears itself down if
it is gone. Raw and wfcatalog processors answer a 413 of an endpoint with an SAA task,
appended to the list that is being iterated. The end of the request
comes in many forms: the generator returns, it raises, the client leaves
at a `yield` (GeneratorExit) or before the first one, `_wait` times out. StationLite answers from a
database that a harvester, run from time to time, brings up to date.

What is hard here, and which property is for it, is the list of hazards in `PROJECT.json`. In short:

- interleavings of processor, workers, the result handler of the pool and the client;
- who removes which temporary file on which way out, on one level of tasks or two;
- the list of results, which is iterated while it grows and shrinks;
- state shared by server processes without locks (cache) or with optimistic ones (redis);
- recursion in the SAA tasks, whose nested results are dropped;
- a timeout that must answer whatever endpoints do, and a retry budget that must not
  shut an endpoint out for ever;
- one time axis through two services: requests, channel epochs, routing epochs and virtual networks, each
  possibly without an end, merged, sliced, demultiplexed and merged again;
- a database that is corrected by delete-and-insert, in which ids are given out again.

## 2. Modules

| module | models | composition |
|---|---|---|
| `FederatedResponse` | what a response promises: parts delivered once, lost or open | abstract specification |
| `Federator` | one raw, text or wfcatalog request with its pool, tasks and context | its text processor implements `FederatedResponse` |
| `FederatorProofs` | theorems about its locks and files, and about what it answers, streams and caches | EXTENDS `Federator` |
| `FederatorResponseProofs` | theorems about the format of its output and the files it leaves; the text processor implements `FederatedResponse` | EXTENDS `FederatorProofs` |
| `StationXml` | one StationXML request: processor, process pool, combiners with their thread pools, context tree | implements `FederatedResponse` |
| `StationXmlProofs` | theorems about it, with the refinement | EXTENDS it |
| `BoundedSeries` | what a response code series promises | abstract specification |
| `ResponseCodeSeries` | the redis transactions, retry budget | implements `BoundedSeries` by an identity mapping |
| `ResponseCodeSeriesProofs` | theorems about it, with the refinement | EXTENDS it |
| `SplitAlign` | the recursion of `WFCatalogSplitAndAlignTask` | detail of the SAA tasks of `Federator` |
| `SplitAlignProofs` | theorems about its epochs, the objects and the list it writes | EXTENDS it |
| `FileSystemCache` | the cache directory and its count file | detail of `cached` in `Federator` |
| `FileSystemCacheProofs` | theorems about the count | EXTENDS it |
| `StreamEpochs` | `utils/sncl.py`: streams, stream epochs, their merging and slicing | |
| `FdsnRequests` | GET and POST requests as the argument parsers and schemas take them | EXTENDS `StreamEpochs` |
| `StationLite` | the routing query, as operators on a database | EXTENDS `FdsnRequests` |
| `RequestStrategy` | a request from the resource to its tasks | EXTENDS `StationLite`: federator and StationLite together |
| `RequestStrategyProofs` | theorems about what its tasks ask for and what it refuses | EXTENDS `RequestStrategy` |
| `Harvest` | runs of the harvester on the database | |
| `HarvestProofs` | theorems about the tables | EXTENDS it |
| `MCStationXml`, `MCHarvest`, `MCRequestStrategy` | values of the constants for TLC | EXTEND their module |

A request passes through `RequestStrategy` first; the tasks it issues are the routes that `Federator`
(granular and bulk strategies) or the networks that `StationXml` (combining and adaptive-bulk)
starts with. `Harvest` writes the tables whose join is a database of `RequestStrategy`: a row of the latter is a
channel epoch with a routing and an endpoint. These are composed by their interfaces, not
in one state space: the services run in processes of their own, and no step of one happens within a
transaction of another.

### FederatedResponse

Parts are routes or networks; `delivered` and `lost` partition those that are decided. It states what neither
implementation says in one place: a part is delivered once, "no data" (204) needs every part to be
lost, a response completes only when every part is decided and one of them was delivered, nothing follows a refusal.

### Federator

Parameters: routes, threads, the kind of processor, `keep_tempfiles`, payload sizes,
stream epochs per route, and which faults occur. Task `r` downloads route `r`, task
`SaaOf(r)` is the SAA task that replaces it after a 413.

| variable | code |
|---|---|
| `lock` | the root context's key in redis |
| `pc`, `cursor` | where the processor's thread is; position in `for result in self._results` |
| `results`, `handled` | every AsyncResult ever held, and those that left `self._results` |
| `sized`, `out` | `sum(self._sizes)` is not 0; what was yielded |
| `pool`, `queue`, `task`, `status` | ThreadPool, its task queue, each task's stage and its Result |
| `files` | temporary files on disk |
| `expired`, `answer`, `cached` | `TIMEOUT_STREAMING`, HTTP status, the response is in the cache |

Each action is what happens between two points at which another thread can be seen: the
look at one AsyncResult, one chunk (files are one chunk), one command to redis, one call
on the pool. `ready` of a pass is merged with `handled`: removing an AsyncResult
at once or at the end of the pass makes no difference to a pass, which visits each
of them once, nor to `_terminate`, which tolerates files that are gone already.
Tasks go through `queued`, `download` (file open), `guard` (before the second look at the
context), `returned` (result not passed on yet) and `ready`. The pool is ordinary
`multiprocessing.pool`: `terminate` drops the queue and the result handler, `join` waits for
workers that are busy.

Faults: `"exc"`, any task may raise (a broken stream, redis out of reach); `"early"`, a response
is closed before its first chunk; `"stream"`, a file cannot be read.

### StationXml

Networks are the tasks of the processor's pool: `Downloads` are requested in bulk,
`Combiners` download the routes of `RouteOrder` that `NetOf` gives them, in threads.

| variable | code |
|---|---|
| `level` | the query parameter; decides which elements documents hold |
| `lock`, `parent` | the root key; which context was appended to which |
| `pc`, `handled`, `sent`, `drained`, `out` | as in `Federator`; a network as `pc` while its file is streamed; `drained` is `ready` of `_terminate` |
| `leaving` | the client is gone; `forced` after the shutdown timeout |
| `stage`, `status`, `files` | of the tasks of both levels; `taken` when a combiner has looked at the result, `killed` by `terminate` of a process pool |
| `inner` | the thread pool of each combiner |
| `tree` | per combiner, what it has merged: elements with the route they came from |

A download succeeds with `"Ok"` or, if the document has no Network element, with `"Empty"`: a 200 whose file has length 0. `Streamed` is
`sum(self._sizes)` not being 0, which is what `__iter__` asks to find out whether it has begun.
The way up through `parent` is `RootOf`, a recursive function. A document is a set of paths `<<network, station, channel>>`. Merging keeps the first of two equal networks
and stations and, at channel level, all channels, as `emerge_*` does. `_terminate`'s missing parameter
`exec_join` makes the timeout of `_wait` a 500, as in the code.

### ResponseCodeSeries

A client is a task at the endpoint whose series is modelled, a download or (`Aligners`) an SAA task. It looks at the error ratio once,
when it begins. A download then makes one request and records one code. An SAA task requests one half of its epoch after the other; for a half that is refused with 413 it
records the code, calls `_run` for the halves of that half, and in the `finally` clause records the 413 again, whether the nested call returned or raised.
`level`, `firsts` and `then` are its stack: the active calls, those at their first half, and what follows once the code is recorded. A code is
recorded in steps WATCH, ZCOUNT, MULTI/EXEC; EXEC is refused
if the key was written since WATCH, and the transaction starts again. Redis may be out of reach at any of them (`Abort`), and the reply to an EXEC that was carried
out may be lost (`ExecLost`), which redis-py reports as a refusal: the code is recorded twice. Ages are counted in
ticks and saturate at `Ttl + 1`; `Tolerated` is the budget in whole errors.
Members are ordered by time of transaction, which presumes that the processes share a clock.

### SplitAlign

The stack holds, for each active call of `_run`, the epochs its loop has left. Time is
integer, and a catalog object spans two units, so that a split may cut it; `MaxDepth` stands
for the room on the Python stack. Endpoints answer as they like, per request. `_dump` reads a
response object by object (`rest` is what it has not read), and the stream may break between any two.

### FileSystemCache

One action per system call that other processes can see: look at a file, remove it, list the
directory, read or store the count file, rename. Content of files is left out except for
whether it has expired. `_prune` lists the directory in any order. Every call may fail, in the way the code takes it (`Failure`): a count that
cannot be read is 0, a count that cannot be stored goes unnoticed, `set` returns False with the file there if `chmod` fails, or without it. A process may
be killed at any step (`Kill`) and starts with counting the files (`Start`, `InitStore`).

### RequestStrategy, StationLite, FdsnRequests, StreamEpochs

Times are small integers, `None` a missing end, `EndOfTime` is `datetime.max`. Latitudes and longitudes are 1 to `MaxDegree`;
a box has four sides, each of which may be missing. Code patterns are abstracted by `Like`, the set of
codes each pattern matches; a code is a pattern that matches itself (`LikeAssumption`). The types `Request`, `Row`, `VirtualEpoch` and `Database` say
what requests and databases may hold. `Loaded` is what the schemas make of a request, `CutRoutes` and
`MergedRoutes` what the query finds, `Lines` what the service writes; `ReadUrl`, `ReadEpoch` and
`ReadEnd` are the federator's parser, line by line, with `urlline`, `block`, `table` its local variables. The
routing request is loaded and validated again by StationLite, up to `Delays` later; it gives a box the sides it lacks (`SidesOf`) and wants them in order
(`Ordered`), which the federator does not look at. A row has the positions of all epochs of its station: the query joins the station, not
the station epoch of the time asked for, so that a station is in the box if it has ever been. `Filter` is the retry budget, and
`Issue` cuts the routes by strategy. Where the
code goes through a dict or a set, `SetToSeq` and `Picked` stand for its order. `FetchFails` is any failure of the routing service, and its 400.

### Harvest

`db` is committed, `work` what the open transaction sees. `Open` is the end of what has none. The types `Document`, `Service`, `VNet`
say what documents and configurations may hold. Merging a document goes through its
channels, and then once per service through the ORM objects that gave; each is a recursive function of how far it has come. A run is one action per route of a node's
configuration, per node's virtual networks, and one for the truncation; commits come at the end of
a node, and a node may fail, or the run may be killed, at every step. Each run of a route chooses among the documents and service elements the node may have by then. `NewId` is SQLite's: the
highest id plus one, so that ids of deleted rows at the end of a table come back. Ghosts in the database: `warned`
(inventory errors that were logged) and `latest` (what was last told about a stream); `cut` is the time of the latest truncation.

## 3. Runs

| run | question | bounds |
|---|---|---|
| `FederatorRaw` | type, no teardown under a live response, files there when needed, honest status, `_wait` answers, the request ends | 2 routes, 2 threads, all faults |
| `FederatorWf` | the same for wfcatalog: epochs once, one JSON list, files removed | 2 routes, 2 threads, non-empty payloads |
| `FederatorText` | one header, only whole responses cached, implements `FederatedResponse` | 3 routes on 2 threads, 2 epochs each |
| `StationXml` | no teardown under a live response, networks whole, one document, graceful shutdown, implements `FederatedResponse`, leaving clients get rid of the request | a combiner of 2 routes, a bulk network, 2 processes, 2 threads, each document with or without networks |
| `Series` | window, atomic appends (refinement), overrun, recovery from an exceeded budget | a download and an SAA task, window 2, ttl 1, budget 0 %, one split and one lost reply per task |
| `SaaNested` | type, epochs tile, objects aligned, complete, list syntax | 6 units, 4 levels |
| `FsCache` | count covers files since they were counted last, pruned in the end | 2 processes, 2 keys, threshold 1, 2 faults |
| `RequestStrategy` | tasks ask for what the database says, once; refusals are true; the answer's parser ends | 4 databases, 75 requests, 4 configurations, times 1 to 5, degrees 1 to 3 |
| `Harvest` | overlaps, routings, completeness, atomicity over runs | 2 nodes, 3 streams, 2 runs |
| `FederatorWfBulk` | violated: epochs of a bulk request are lost on 413 | 2 epochs per route |
| `SaaNestedEnd` | violated: `]]` after a nested last half | 4 units, 2 levels |
| `HarvestOverlap` | violated: an epoch whose end changes is stored twice | as `Harvest` |

Why the bounds are enough. Two routes with their SAA tasks are four tasks; two threads make
each pair of stages possible at once; the text run has more tasks than threads. A pass, a
resubmission within a pass and within a later one all occur. In `StationXml` the two routes of the combined network have a channel in common; one of
them has another channel of that station and another station besides, so that at every level the same and new elements are merged, in
both orders, and a combiner competes with a bulk download; the bulk network can be empty and come first, so that the header is written twice. A window of two is less than
a download and an SAA task may append at once, and with a budget of 0 % one error in it lets the SAA task reach its bound of five, and of six with a lost reply. `MaxSplits` bounds
the 413 one task splits upon (in the code the length of its epoch does), `MaxLost` the replies it loses; the proofs hold for any. Four levels of splitting reach epochs that cannot be
split, and three objects include cut ones on every boundary. Two processes suffice to lose an
increment, two faults (`MaxFaults`) to lose one and to hinder the recount that makes up for it. `MaxCount` saturates the count above the threshold: every greater value leads
to the same decision, and without a cap two processes can raise it for ever. It is not below the
number of keys, so that the saturated count covers them. `MaxDeletes`
bounds `delete`, which the services never call; without it lost increments could make the
count negative without bound. The databases of `RequestStrategy` have adjacent epochs of a channel, gaps, a routing shorter than its
channel, closed epochs between open ones, a network at two endpoints and a virtual network over both; the requests have wildcards, missing
ends, reversed and future times, overlapping lines, and boxes that select one station, one that has moved, or are refused: of one latitude, across the
antimeridian, and beginning at the greatest latitude. Between the two runs of `Harvest` a channel changes its end, its
start, its status, or stops telling it; the second run meets everything the first may have left, and a truncation between or after.

Deadlock is checked except in `Harvest`, `HarvestOverlap` and `RequestStrategy`, whose behaviours end: after `MaxRuns`, and when a request is answered or its
tasks are issued. In the other modules `Idle` and `Done` are the only steps of a finished
request or task, and they need `Quiescent` or a result.

### Fairness

- `Federator`: `FairSpec` demands that the processor's thread and the clock go on, nothing of
  workers. `EventuallyAnswered` holds under it. `RequestEnds` assumes in
  addition `EndpointsEnd`: workers are scheduled and requests end, as the endpoint timeout
  in `settings.py` makes them unless data trickles in. Clients and broken files are never fair.
- `StationXml`: again only the processor's thread and its two timeouts, of streaming and of the shutdown; `LeavingEnds` holds
  even if no task ever ends.
- `ResponseCodeSeries`: only time passes; recovery needs no client.
- `FileSystemCache`: calls that have begun end and processes that are down are started again (weak on `Continue`), and every process goes on caching
  responses (strong on `Set`, which other calls disable for a while). The last is an assumption on the load. Faults are never fair, and there are
  `MaxFaults` of them: a directory that can never be listed is never pruned.
- `RequestStrategy`: the thread goes on; requests to the routing service have a timeout.

## 4. Properties worth a comment

- `NothingTornWhileLive`, `LiveResultHasFile`: the context guard may only ever act when the
  response is over. Proved for every instance of `Federator`. In `StationXml` the same is about the tree of contexts: a
  download of a combiner sees the lock only if its context was appended.
- `EachEpochOnce`: the list of results changes under the iterator; still no epoch is streamed twice, and
  none is missing unless one of its tasks failed.
- `OnlyCrashesLeaveFiles`, `ReadyFilesRemoved`, `GracefulShutdown`: strengths of "no file is
  left": after a complete response, for ready results, and after a client has left.
- `NetworkWhole`: nothing an endpoint delivered is missing from a combined network, and no network or station is there twice.
  Channels may be: the code compares them only within one document.
- `Implements` (twice): both processors refine one abstract response. `lost` is what has left the list without having been
  sent; that a response completes only without open parts and with a delivered one is what `_wait` and `__iter__` together guarantee.
- `OverrunBounded`: `overrun` is a history variable counting what each task has recorded since the budget is exceeded. A download records one code. An SAA task, which validates
  the budget only in `__call__`, records two, and for each 413 it splits upon three more, the 413 a second time and the halves of that half; each lost reply adds one. Its
  splits end only when an epoch cannot be halved, so that the overrun of SAA tasks has no bound but their epochs'.
- `Bounded`: each EXEC is an atomic append, each garbage collection a discard of the oldest, each other step a stutter.
  The docstring of `ResponseCodeTimeSeries` warns that `window_size` cannot be enforced with several processes;
  the WATCH of `_transaction` does enforce it, which is `WindowEnforced`.
- `OneDocument`: head, elements, foot. An answer without Network elements is a 200 of length 0, streamed like any other; since `__iter__` asks
  the sum of sizes whether it has begun (`process.py:708`), it writes the head again with the next. The property says that this is the only way: a second head follows heads only, and there are no
  more of them than empty networks sent, plus one. Such a response is not well-formed XML.
- `CountCovers`: `disturbed` is a history variable: since the files were counted last (by a start or by `_prune`), calls have been under way at a time, or a fault has cost an
  increment. Until then, whatever else fails, expires or is deleted, the count is not less than the files; afterwards it may be, until they are counted again.
- `RefusalIsTrue`: no data only if none is wanted, in the words of the request (`Inside` compares only the sides it names), and a failure only if the routing service has failed or refuses
  the request: it refuses a box with minimum at or above the maximum, sides it lacks being those of the globe, or one across the antimeridian. The federator takes these requests (`StationSchema` has a TODO for the
  check, `FED/schema.py:155`) and answers 500 to what is the client's mistake.
- `PrunedInTheEnd`: processes overwrite each other's count; each round of writes raises its minimum, so that
  it exceeds the threshold again. The mutant that does not count replaced files, a tempting repair of the
  double counting, breaks it.
- `RoutedAsStored`: an end-to-end statement over both services. `Wanted` is read off request and database, one unit of time
  after the other, without merging or slicing anything; `Requested` is what the tasks ask for. At network and station level
  StationLite merges what lies between two epochs, so there only the streams are compared.
- `TasksPartition`: no endpoint is asked twice for a time of a stream, although lines of a POST request overlap and a virtual network
  names streams a second time; no network of a StationXML request is split between tasks.
- `OverlapsShareStart`: what `NoOverlaps` fails to say. Overlapping rows begin together and end apart, so that the
  queries for "identical" rows find one at most (several would raise `MultipleResultsFound`).
- `RoutedAsHarvested`: routings survive the deletion of channel epochs with an inventory error, and ids are given out again; only those of
  warned streams may lead elsewhere.
- `ToldIsStored`: excludes streams with a warning and what a truncation has removed, nothing else.

Disagreements of code and documents, and oddities, that are in the models but have no run:

- a raw SAA task raises on its first request (`hunk_size` is no parameter of `stream_request`, so `TaskOk` excludes it);
- a 413 in mid-stream of the text processor and a
  response closed before its first chunk leave ready files behind (`StreamTooLarge`, `EarlyClose`);
- a client that leaves also leaves the files of tasks that have returned while the pool has not passed their result on;
- after an empty answer an SAA task begins its list again (`EmptyLists`), and a WFCatalog response whose first payload is empty begins with `[` twice (`Lead`), as a
  StationXML response whose first network is empty has two headers (`OpenFile`);
- a box whose sides are not in order is answered with 500 instead of 400 (`RoutingAccepts`, `FetchFails`);
- a box selects stations at StationLite only: `FdsnRequestHandler` drops the geographic parameters, so that an endpoint is asked for the stream epochs without it;
- the cache counts replaced and expired files twice and prunes a directory that is not full; two processes lose increments
  and let it grow past the threshold for a while;
- the timeout of a StationXML request is a 500, from a `TypeError` in `_terminate`;
- `CombinerTask._terminate` ends with a `TypeError` when a download was torn or refused, and leaves the files behind it; a torn combiner keeps its file;
- `_filter_by_client_retry_budget` rebinds a local name: the total duration still counts the filtered routes;
- a GET request without an end counts towards the limits up to `datetime.max`, whereas an end in the future becomes now;
- the parser of the routing answer would never leave an answer that ends with an empty line; StationLite writes none (`RouteEnds`);
- `base_node` is overwritten station by station, so that a station without a status inherits its predecessor's (`BaseStatus`);
- for a channel without a status, the filter for a changed one compares with `!= None` and deletes every epoch of the stream, also those of the same document;
- a route without a station service ends the whole harvest with a `KeyError`, not only its node.

## 5. Proofs

Every theorem holds under `ConstantsAssumption` of its module, those on `RequestStrategy` also under `LikeAssumption`. Some need more, which their statements name:

| hypothesis | theorem | without it |
|---|---|---|
| `Kind = "text"` | `TextImplementsResponse` | raw and wfcatalog processors have more results than parts |
| `EpochsPerRoute = 1` | `GranularEpochsOnce` | `FederatorWfBulk` is a counterexample |
| `NoEmptyPayload` | `OutputWellFormed` | a processor whose sizes sum up to 0 writes its head again |
| `Prompt` | `ReadyFilesAreRemoved` | the text processor's 413, a response closed early and a file that cannot be read leave without `_terminate` |
| `NoEmptyList` | `ListsAreWellFormed` | after `[]` the list is begun again; endpoints have a 204 for no data |
| `SomeService` | `ToldIsKept` | a row that a later epoch of the document has deleted is noticed, and logged, only when a service is merged with it; routes without station service are not harvested |

**FederatorProofs.** `IInv` strengthens `LiveResultHasFile`: besides the type and `NothingTornWhileLive` it says that a
task which is downloading or past it with an `Ok` has its file while the response is live
(`DownloadHasFile`), that only routes are refused with 413 (`TooLargeIsRoute`, or `SaaOf`
would leave `Tasks`), and that the result under the cursor in `chunk` is the ready one being streamed
(`ChunkIsReady`, so that its removal does not take away another's file). `LiveResultHasFile`
alone is not inductive: a task may become `Ok` in any step. One lemma per group of actions (workers, waiting, streaming, closing), in it one step per action and conjunct it can disturb.
`TypeCorrect`, `NothingTorn` and `StreamedFilesExist` follow by PTL.

The second part of the module: on top of `IInv`, `JInv` relates the list, the handled results, the response and the status line: a handled result is
ready and its status is final (`HandledSettled`), the data streamed are those of the handled results that are `Ok`, each at
one position (`HandledStreamed`), an SAA task is in the list exactly if its route was handled as too large
(`SaaReplaces`), and a 200 rests on a result that is ready and `Ok` (`AnswerBacked`), which no later step takes back.
`AnswersAreTrue`, `CacheIsWhole` and `GranularEpochsOnce` follow.

**FederatorResponseProofs.** Three groups on top of `JInv`.
The refinement: `Phase` follows the places of the processor, `Sent` grows by the
result under the cursor and by nothing else, `handled \ Sent` are the failures. Waiting and streaming are one abstract step per action or
a stutter, workers and the closing of the request are stutters: `TextImplementsResponse`.
The format (`OutputWellFormed`): the code asks the sizes whether it has begun, so `FormatInv` says that they tell (`SizedIsStarted`), that payloads
and separators alternate (`ListAlternates`), and that nothing follows the foot (`FootIsLast`).
The files: `FilesInv` says who removes which file, the stream those it has sent (`StreamedGone`), a task its own on an
endpoint's error (`ErrorsGone`); with `NoTeapot`, a complete response leaves but the files of tasks that raised
(`OnlyCrashesLeave`). `LeftInv` adds that no result becomes ready once the request is being left, either because the pool
was terminated or because all had been handled (`NoneToCome`), hence `ReadyFilesAreRemoved`.

**SplitAlignProofs.** That `split` replaces an epoch by its halves keeps the tiling only if it finds the epoch where the loop believes it to be.
The invariant says so: what is being requested is among the epochs (`CurrentFirst`), and so is the second half of every
active call, behind everything inner calls have to do (`SecondsPending`). Without that order a nested split might remove
an epoch an outer loop still goes to. `SplitsTile` holds for every duration and every depth of recursion.
The calls form a chain: what a call has left ends where its caller's epoch does (`SpanChain`). With it the file holds exactly the
objects that begin before what is requested next (`Frontier`), whatever was requested twice, since an object that was cut is the
latest one written (`LastIsLatest`): `ObjectsAligned` and `ResultsAreWhole`. `ListsAreWellFormed` needs that the list is
ended only when all calls that are left end with the task's epoch (`EndsLate`), which is why `]]` may occur and nothing may follow it.

**StationXmlProofs.** `OneDocument` says that a head is first, and a foot last. Both need more to be kept: that a head is written
as soon as anything is sent (`HeadFirst`), that until a network with data is sent there are only heads, one for each empty network sent and one for the present one (`HeadsCounted`), that something is sent or the processor is still before its first
file (`DataAhead`), and that the foot comes only when every network is handled and is followed by nothing
(`FootLast`). For the refinement the HTTP status has to follow the places of the processor
(`AnswerMatches`): with it, `Phase` changes exactly where the abstract response accepts, refuses, completes or breaks. `DocumentIsOne`
and `ImplementsResponse` hold for any networks, routes and pools. Steps of the tasks, of both levels, are
stutters; each step of the processor is one abstract step or a stutter.
`NothingTorn` follows the tree of contexts: no task of a combiner runs before its context is appended (`Attached`), so every
`RootOf` is the root, whose lock is held (`NoneTorn`).
`NetworksAreWhole`: a tree holds elements of routes that were taken (`TreeTaken`), all of them and once
(`MergedWhole`), and a combiner says `Ok` only when all were taken (`StagesMatch`).
`ShutdownIsGraceful`: every file on disk has an owner (`FilesOwned`), what was handled or drained has none left
(`HandledGone`), and a graceful shutdown closes the request only when it has drained all (`AllDrained`).

**ResponseCodeSeriesProofs.** `WindowBound` needs to know that a client about to EXEC with a clean watch has counted the
present length (`CountIsCurrent`) and has a code to record (a part of the type); with that `Appended` keeps the newest `Window - 1` entries. The same invariant maps
`Exec` to `Record`, `Gc` to `Discard`, `Tick` to `Tick` and all else to a stutter: `AppendIsAtomic`.
`OverrunIsBounded` needs an account (`OverrunInv`): what a task has recorded beyond the budget and what it may still record (`Owed`), together, are at most its `Bound`. `Owed` is a measure of the
stack: one for each active call (the half it is at, or the 413 it records again when the call it waits for is over), one more for each that is at its first half, and
three for a split whose 413 is about to be recorded. A split raises `Owed` and
`Bound` alike, any other step lowers it by what it records, and nobody begins while the budget is exceeded. `StackOK` says that the stack is one.

**FileSystemCacheProofs.** `CountCovers` speaks of a cache at rest. `DueCovers` carries it through a call: as long as nothing has disturbed the count, a
process that works alone is about to store a count (`Due`, which depends on how far it is) that covers the files. A fault either costs no increment, and `Due` still covers them, or disturbs (`FailureCovers`); a
process that counts the files while it is alone makes good for whatever was before (`CountedCovers`). What `_prune` will find while it
looks at the directory is bounded by cardinality lemmas about one file coming or going. `CountCoversFiles` holds for any number of processes and keys.

**HarvestProofs.** The tables change by recursive functions over documents, services and sequences of objects. The first part unrolls each of them into its value before and after
one element; what is kept by one element is kept by all, by induction on how far the function has come (`Induction`, from
the least element of a set of naturals, since the library's principle takes an operator). The second part says
what one element keeps:

- `Apart`, for any two rows about the same thing: they begin together and end apart, or do not overlap. Nothing else would do for
  `OverlapsShareStart`, as `_emerge_*` deletes overlaps but lets epochs pass that begin together.
- Deletion gives ids free, and SQLite gives them out again within the same document. An object that is not
  gone has its row (`Backed`), and if a row has the id of one that is gone, a later object of the document owns it (`Owned`). A routing may
  lead to an epoch of another stream meanwhile; either its stream has been warned of, or there is an object still to come whose
  row is gone and with which it will be (`Pending`, `LedOr`).
- `Led`: a routing is no younger than the epoch it leads to, so that a truncation never takes an epoch and leaves its routing.

Committed and uncommitted tables are both `Sound`, and hold rows of the committed nodes, or of these and the present one (`From`).
The formula without `phase # "routes" => work = db` is not inductive: a node whose virtual networks
fail is left without a rollback, and the next may only go on because routes alone leave something uncommitted. `NodesAtomic`, `OverlapsBeginTogether` and `RoutingsLeadHome`
hold for every configuration of nodes, any number of runs and any failures. `ToldIsKept` takes a second invariant (`Stored`) that needs the
first: the epochs last told of a stream are rows seen since then, unless it was warned of or a later truncation reaches back to that run.

**RequestStrategyProofs.** `Inv` says for each phase what has been reached: the request is one the federator takes (`TakenRequest`), `found` is
what StationLite's query gives at some later moment (`FoundFor`), the parser stands before a block of the answer or within
one, and its table holds the routes before (`ParsedTo`), the routes left are those of the answer within the budget (`RS`) and
the tasks divide them (`Divides`, `KeepsNetworks`). With the requirement that refusals are true, it is inductive. What it takes:

- *Requests.* `RoutingTakes`: of what the federator takes, StationLite takes the request derived from it, at the same time or later, if the sides of its box are in
  order, so that a client is told of a failure for no other request of its own. `BoxFilter`: the sides StationLite adds leave no station out.
- *Intervals.* Merging and slicing the trees of a stream cover the times they are made of, and leave intervals apart (`Covers`, `ApartIn`); `CutFound`
  and `WantedServed` say that the query finds exactly what `Wanted` reads off request and database, `AnswerServes` that StationLite's answer does.
- *The wire.* `ReadBack`: the federator reads a line as the epoch it was written for, and no two epochs of an answer as one. An open end comes back
  as no end, and `PostEnds` is what makes this harmless: a POST request has ends, so that an answer to it has none that is open.
- *Tasks.* A list says its elements in some order, once (`Lists`). Each strategy groups, multiplexes and demultiplexes the routes without losing or
  repeating one (`Packs`, one lemma per strategy: `GranularDivides`, `BulkDivides`, `AdaptiveDivides`, `CombiningDivides`), and
  a network is never cut where documents are combined.

`RoutesAreStored`, `TasksArePartition` and `RefusalsAreTrue` hold for any database, request, limits, strategy and any delay
between the two services.

Every invariant that a passing run checks is a theorem. Only model-checked is what needs fairness (`EventuallyAnswered`, `RequestEnds`,
`LeavingEnds`, `Recovers`, `PrunedInTheEnd`, `RouteEnds`): liveness and ENABLED are out of the prover's reach.

## 6. Not modelled

- Mediator: an unfinished Python 2 prototype without state.
- Redis and null caches: one command per call, or none.
- `Context.acquire` happens before `Init`, with a fresh UUID; `Context.teardown` and the iteration over children have no caller in the server
  (`teardown` would remove every other child only, from the list it iterates).
- Parameter schemas of the single services (formats, enumerations), the check for unknown parameters (`utils/strict.py`), version and
  documentation views: stateless, and no property of the project is about them.
- The proxied netloc of the routing request; the GET output stream of StationLite (the federator posts).
- `RawSplitAndAlignTask` beyond the exception it raises on its first request.
- Validation of URLs and XML in the harvester is the failure of a node; `HTTP` calls are their outcomes.
- `app.py`, settings, logging, command lines.
