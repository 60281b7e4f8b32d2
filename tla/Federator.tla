------------------------------- MODULE Federator -------------------------------
(***************************************************************************)
(* One federated request of eida-federator: the request processor          *)
(* (federator/server/process.py), the worker threads of its ThreadPool,    *)
(* the download and split-and-align (SAA) tasks they run                   *)
(* (federator/server/task.py) and the context lock that ties them together *)
(* (federator/server/misc.py).  Init is the state right after              *)
(* RequestProcessor._request(): routing is done and one task per route has *)
(* been submitted.                                                         *)
(***************************************************************************)
EXTENDS Integers, Sequences, FiniteSets, Functions

CONSTANTS
    NumRoutes,        \* number of routes, hence of tasks submitted at first
    NumThreads,       \* num_threads of the resource
    Kind,             \* processor: "raw", "wfcatalog" or "text"
    Keep,             \* KeepTempfiles: "ALL", "ON_ERRORS" or "NONE"
    Sizes,            \* payload sizes told apart: 0 (empty) and 1 (data)
    EpochsPerRoute,   \* stream epochs per route: 1 (granular), more (bulk)
    Faults            \* subset of {"exc", "early", "stream"}, see below

ASSUME ConstantsAssumption ==
    /\ NumRoutes \in Nat \ {0}
    /\ NumThreads \in Nat \ {0}
    /\ Kind \in {"raw", "wfcatalog", "text"}
    /\ Keep \in {"ALL", "ON_ERRORS", "NONE"}
    /\ Sizes \in (SUBSET {0, 1}) \ {{}}
    /\ EpochsPerRoute \in Nat \ {0}
    /\ Faults \subseteq {"exc", "early", "stream"}

Routes   == 1 .. NumRoutes
Tasks    == 1 .. (2 * NumRoutes)
SaaOfNext(r) == NumRoutes + r + 1               \* mutant: off by one
SaaOf(r) == NumRoutes + r         \* the SAA task that replaces route r
SaaTasks == Tasks \ Routes

PoolSize == IF NumRoutes < NumThreads THEN NumRoutes ELSE NumThreads

\* raw and wfcatalog processors answer a 413 with an SAA task, text gives up
Resubmits   == Kind \in {"raw", "wfcatalog"}
\* station processors wrap their generator in cache_stream
Caches      == Kind = "text"
KeepsErrors == Keep \in {"ALL", "ON_ERRORS"}

VARIABLES
    lock,       \* the root context's key exists in redis
    pc,         \* where the processor is
    answer,     \* HTTP status of the response, 0 while there is none
    results,    \* every AsyncResult the processor ever held, by task
    handled,    \* the ones already removed from self._results
    cursor,     \* position of the current pass over self._results
    sized,      \* sum(self._sizes) # 0
    out,        \* what was yielded: <<kind, task>>
    pool,       \* "open", "closed" or "terminated"
    queue,      \* tasks no worker has taken yet
    task,       \* where each task is
    status,     \* what each task returns
    files,      \* tasks whose temporary file exists
    expired,    \* TIMEOUT_STREAMING has passed since the request began
    cached      \* the response has been written to the cache

procVars   == <<pc, answer, results, handled, cursor, sized, out, cached>>
workerVars == <<task, status>>
vars == <<lock, procVars, pool, queue, workerVars, files, expired>>

Results(S)  == {t \in Range(results) : status[t] \in S}
IsReady(t)  == task[t] = "ready"
Active      == {t \in Tasks : task[t] \in {"download", "guard"}}
AllHandled  == Range(results) \subseteq handled
Live        == pc \in {"wait", "headers", "stream", "chunk", "foot"}
Finished    == pc \in {"closed", "failed"}

Init ==
    /\ lock = TRUE
    /\ pc = "wait"
    /\ answer = 0
    /\ results = [i \in Routes |-> i]
    /\ handled = {}
    /\ cursor = 1
    /\ sized = FALSE
    /\ out = <<>>
    /\ pool = IF Resubmits THEN "open" ELSE "closed"
    /\ queue = [i \in Routes |-> i]
    /\ task = [t \in Tasks |-> IF t \in Routes THEN "queued" ELSE "absent"]
    /\ status = [t \in Tasks |-> "none"]
    /\ files = {}
    /\ expired = FALSE
    /\ cached = FALSE

-----------------------------------------------------------------------------
(* The worker threads.  A task is decorated, from the outside to the inside, *)
(* with catch_default_task_exception, with_ctx_guard and                     *)
(* with_client_retry_budget_validation.                                      *)

CanTake ==
    /\ queue # <<>>
    /\ pool # "terminated"
    /\ Cardinality(Active) < PoolSize

Step(t, from, to, code) ==
    /\ task[t] = from
    /\ task' = [task EXCEPT ![t] = to]
    /\ status' = [status EXCEPT ![t] = code]
    /\ UNCHANGED <<lock, procVars, pool, expired>>

\* with_ctx_guard: the context is gone before the task has begun.
TaskRefuse ==
    /\ CanTake
    /\ ~lock
    /\ queue' = Tail(queue)
    /\ Step(Head(queue), "queued", "returned", "Torn")
    /\ UNCHANGED files

\* The error ratio of the endpoint exceeds the client retry budget.
TaskOverBudget ==
    /\ CanTake
    /\ lock
    /\ queue' = Tail(queue)
    /\ Step(Head(queue), "queued", "guard", "OverBudget")
    /\ UNCHANGED files

\* The temporary file is opened and the endpoint is requested.
TaskDownload ==
    /\ CanTake
    /\ lock
    /\ queue' = Tail(queue)
    /\ Step(Head(queue), "queued", "download", "none")
    /\ files' = files \cup {Head(queue)}

\* RawSplitAndAlignTask never gets this far: see TaskCrash.
TaskOk(t) ==
    /\ ~(t \in SaaTasks /\ Kind = "raw")
    /\ Step(t, "download", "guard", "Ok")
    /\ UNCHANGED <<queue, files>>

\* RawDownloadTask._handle_error: 413 or any other endpoint error.
TaskError(t) ==
    /\ t \in Routes
    /\ \E code \in {"TooLarge", "EndpointError"} :
           Step(t, "download", "guard", code)
    /\ files' = IF KeepsErrors THEN files ELSE files \ {t}
    /\ UNCHANGED queue

\* SplitAndAlignTask._handle_error removes the file, then fails reading
\* err.response.data: catch_default_task_exception turns that into a 500.
SaaError(t) ==
    /\ t \in SaaTasks
    /\ Kind = "wfcatalog"
    /\ Step(t, "download", "returned", "TaskError")
    /\ files' = IF KeepsErrors THEN files ELSE files \ {t}
    /\ UNCHANGED queue

\* catch_default_task_exception around anything else that raises: a broken
\* stream that is no RequestsError, redis out of reach ("exc"), and always
\* RawSplitAndAlignTask, which calls stream_request with a keyword that
\* function does not have.
TaskCrash(t) ==
    /\ \/ "exc" \in Faults
       \/ t \in SaaTasks /\ Kind = "raw" /\ task[t] = "download"
    /\ \/ Step(t, "download", "returned", "TaskError")
       \/ Step(t, "guard", "returned", "TaskError")
    /\ UNCHANGED <<queue, files>>

\* Mutant: the teardown also runs under a live context.
GuardExitTeardown(t) ==
    /\ Step(t, "guard", "returned", IF lock THEN status[t] ELSE "Torn")
    /\ files' = IF ~KeepsErrors THEN files \ {t} ELSE files
    /\ UNCHANGED queue

\* with_ctx_guard, second check.  Only tasks with a _request_handler are torn
\* down; SAA tasks run into the AttributeError branch and keep their file.
GuardExit(t) ==
    /\ Step(t, "guard", "returned", IF lock THEN status[t] ELSE "Torn")
    /\ files' = IF ~lock /\ t \in Routes /\ ~KeepsErrors
                  THEN files \ {t} ELSE files
    /\ UNCHANGED queue

\* The pool's result handler makes the AsyncResult ready.
Deliver(t) ==
    /\ pool # "terminated"
    /\ Step(t, "returned", "ready", status[t])
    /\ UNCHANGED <<queue, files>>

-----------------------------------------------------------------------------
(* The processor.  Both _wait and __iter__ make passes over self._results,   *)
(* looking at one AsyncResult at a time while the workers go on; what a pass *)
(* has handled leaves the list.                                              *)

\* Context.release on the root context: its key is deleted from redis.
Release == lock' = FALSE

workersIdle == UNCHANGED <<task, status, queue>>   \* no worker moves

InPass == cursor <= Len(results)
Here   == results[cursor]

\* The result under the cursor is of no interest yet.
Skip ==
    /\ InPass
    /\ Here \in handled \/ ~IsReady(Here)
    /\ cursor' = cursor + 1
    /\ workersIdle
    /\ UNCHANGED <<lock, pc, answer, results, handled, sized, out, pool,
                   files, expired, cached>>

\* A ready result that is still in the list and has one of these codes.
Sees(codes) ==
    /\ InPass
    /\ IsReady(Here)
    /\ Here \notin handled
    /\ status[Here] \in codes

Failures == {"EndpointError", "TaskError", "Torn", "OverBudget"}

\* Mutant: ready.append(result) is forgotten.
DropFailedForgets ==
    /\ Sees(Failures)
    /\ cursor' = cursor + 1
    /\ workersIdle
    /\ UNCHANGED <<lock, pc, answer, results, handled, sized, out, pool, files,
                   expired, cached>>

\* _handle_error: err.data never is the path of the task's file.
DropFailed ==
    /\ Sees(Failures)
    /\ handled' = handled \cup {Here}
    /\ cursor' = cursor + 1
    /\ workersIdle
    /\ UNCHANGED <<lock, pc, answer, results, sized, out, pool, files,
                   expired, cached>>

\* _handle_413 of raw and wfcatalog: an SAA task is appended to the list that
\* is being iterated, so that this very pass will visit it.
Resubmit ==
    /\ Resubmits
    /\ Sees({"TooLarge"})
    /\ LET saa == SaaOf(Here) IN
       /\ results' = Append(results, saa)
       /\ queue' = Append(queue, saa)
       /\ task' = [task EXCEPT ![saa] = "queued"]
    /\ handled' = handled \cup {Here}
    /\ cursor' = cursor + 1
    /\ UNCHANGED <<lock, pc, answer, sized, out, pool, status, files,
                   expired, cached>>

\* An FDSNHTTPError leaves streamed_response.
Fail(code) ==
    /\ pc' = "failed"
    /\ answer' = code
    /\ workersIdle
    /\ UNCHANGED <<lock, results, cursor, handled, sized, out, pool, files,
                   expired, cached>>

\* A pass of _wait.
WaitSkip     == pc = "wait" /\ Skip
WaitFailed   == pc = "wait" /\ DropFailed
WaitResubmit == pc = "wait" /\ Resubmit

WaitTooLarge ==
    /\ pc = "wait"
    /\ ~Resubmits
    /\ Sees({"TooLarge"})
    /\ Fail(413)

\* Mutant: no stream_with_context, the context is popped before streaming.
WaitFoundPops ==
    /\ pc = "wait"
    /\ Sees({"Ok"})
    /\ pc' = "headers"
    /\ answer' = 200
    /\ Release
    /\ workersIdle
    /\ UNCHANGED <<results, handled, cursor, sized, out, pool, files, expired,
                   cached>>

WaitFound ==
    /\ pc = "wait"
    /\ Sees({"Ok"})
    /\ pc' = "headers"
    /\ answer' = 200
    /\ workersIdle
    /\ UNCHANGED <<lock, results, handled, cursor, sized, out, pool, files,
                   expired, cached>>

\* Mutant: gives up after the first pass.
WaitNoDataEarly == pc = "wait" /\ ~InPass /\ Fail(204)

WaitNoData ==
    /\ pc = "wait"
    /\ ~InPass
    /\ AllHandled
    /\ Fail(204)

\* Mutant: the timeout is not looked at.
WaitAgainAlways ==
    /\ pc = "wait"
    /\ ~InPass
    /\ ~AllHandled
    /\ cursor' = 1
    /\ workersIdle
    /\ UNCHANGED <<lock, pc, answer, results, handled, sized, out, pool,
                   files, expired, cached>>

WaitAgain ==
    /\ pc = "wait"
    /\ ~InPass
    /\ ~AllHandled /\ ~expired
    /\ cursor' = 1
    /\ workersIdle
    /\ UNCHANGED <<lock, pc, answer, results, handled, sized, out, pool,
                   files, expired, cached>>

Expire ==
    /\ pc = "wait"
    /\ ~expired
    /\ expired' = TRUE
    /\ workersIdle
    /\ UNCHANGED <<lock, procVars, pool, files>>

\* _terminate begins: the context is released.
WaitTimeout ==
    /\ pc = "wait"
    /\ ~InPass
    /\ ~AllHandled /\ expired
    /\ pc' = "terminating"
    /\ answer' = 413
    /\ Release
    /\ workersIdle
    /\ UNCHANGED <<results, handled, cursor, sized, out, pool, files,
                   expired, cached>>

\* The server asks the response for its first chunk ...
Begin ==
    /\ pc = "headers"
    /\ pc' = "stream"
    /\ cursor' = 1
    /\ workersIdle
    /\ UNCHANGED <<lock, answer, results, handled, sized, out, pool, files,
                   expired, cached>>

\* ... or closes it at once ("early": a HEAD request, a client already gone).
\* The generator has not started: its GeneratorExit clause never runs.
EarlyClose ==
    /\ "early" \in Faults
    /\ pc = "headers"
    /\ pc' = "closing"
    /\ Release
    /\ workersIdle
    /\ UNCHANGED <<answer, results, handled, cursor, sized, out, pool, files,
                   expired, cached>>

\* A pass of __iter__.
StreamSkip     == pc = "stream" /\ Skip
StreamFailed   == pc = "stream" /\ DropFailed
StreamResubmit == pc = "stream" /\ Resubmit

StreamAgain ==
    /\ pc = "stream"
    /\ ~InPass /\ ~AllHandled
    /\ cursor' = 1
    /\ workersIdle
    /\ UNCHANGED <<lock, pc, answer, results, handled, sized, out, pool,
                   files, expired, cached>>

\* Mutant: the separator is missing.
LeadNoSep == IF Kind = "raw" \/ sized THEN <<>> ELSE << <<"head", 0>> >>

\* Mutant: the header is never left out.
LeadAlways == IF Kind = "raw" THEN <<>> ELSE << <<"head", 0>> >>

\* What is yielded before a payload.
Lead == CASE Kind = "raw"                  -> <<>>
          [] Kind = "text" /\ sized        -> <<>>
          [] Kind = "wfcatalog" /\ sized   -> << <<"sep", 0>> >>
          [] OTHER                         -> << <<"head", 0>> >>

OpenFile ==
    /\ pc = "stream"
    /\ Sees({"Ok"})
    /\ pc' = "chunk"
    /\ out' = out \o Lead
    /\ workersIdle
    /\ UNCHANGED <<lock, answer, results, handled, cursor, sized, pool,
                   files, expired, cached>>

\* Mutant: the streamed result stays in the list.
FinishFileAgain(n) ==
    /\ pc = "chunk"
    /\ pc' = "stream"
    /\ out' = Append(out, <<"data", Here>>)
    /\ sized' = IF n = 0 THEN sized ELSE TRUE
    /\ cursor' = cursor + 1
    /\ workersIdle
    /\ UNCHANGED <<lock, answer, results, handled, pool, files, expired, cached>>

\* Mutant: the streamed file is not removed.
FinishFileKeeps(n) ==
    /\ pc = "chunk"
    /\ pc' = "stream"
    /\ out' = Append(out, <<"data", Here>>)
    /\ sized' = IF n = 0 THEN sized ELSE TRUE
    /\ handled' = handled \cup {Here}
    /\ cursor' = cursor + 1
    /\ workersIdle
    /\ UNCHANGED <<lock, answer, results, pool, files, expired, cached>>

\* The payload, of size n, has been yielded to its end.
FinishFile(n) ==
    /\ pc = "chunk"
    /\ pc' = "stream"
    /\ out' = Append(out, <<"data", Here>>)
    /\ sized' = IF n = 0 THEN sized ELSE TRUE
    /\ files' = IF Keep = "ALL" THEN files ELSE files \ {Here}
    /\ handled' = handled \cup {Here}
    /\ cursor' = cursor + 1
    /\ workersIdle
    /\ UNCHANGED <<lock, answer, results, pool, expired, cached>>

\* The generator raises.  stream_with_context pops the request context, whose
\* teardown releases the lock; _terminate is not called.
Break ==
    /\ pc' = "closing"
    /\ Release
    /\ workersIdle
    /\ UNCHANGED <<answer, results, handled, cursor, sized, out, pool, files,
                   expired, cached>>

\* The 413 of the text processor, in the middle of the stream.
StreamTooLarge == ~Resubmits /\ pc = "stream" /\ Sees({"TooLarge"}) /\ Break

\* StreamingError: the file cannot be read ("stream").
StreamFault == "stream" \in Faults /\ pc = "chunk" /\ Break

\* JSON_LIST_END is yielded after the last pass.
StreamFoot ==
    /\ Kind = "wfcatalog"
    /\ pc = "stream"
    /\ ~InPass /\ AllHandled
    /\ pc' = "foot"
    /\ out' = Append(out, <<"foot", 0>>)
    /\ workersIdle
    /\ UNCHANGED <<lock, answer, results, handled, cursor, sized, pool, files,
                   expired, cached>>

\* The generator returns: the pool is closed and joined (every task is done),
\* the request context is popped, and cache_stream stores the response.
StreamEnd ==
    /\ IF Kind = "wfcatalog" THEN pc = "foot"
                             ELSE pc = "stream" /\ ~InPass /\ AllHandled
    /\ Active = {}
    /\ pc' = "closing"
    /\ pool' = "closed"
    /\ Release
    /\ cached' = Caches
    /\ workersIdle
    /\ UNCHANGED <<answer, results, handled, cursor, sized, out, files,
                   expired>>

\* Mutant: cache_stream stores in a finally clause.
ClientCloseCaches ==
    /\ pc \in {"chunk", "foot"}
    /\ pc' = "terminating"
    /\ Release
    /\ cached' = TRUE
    /\ workersIdle
    /\ UNCHANGED <<answer, results, handled, cursor, sized, out, pool, files,
                   expired>>

\* The client goes away at a yield: GeneratorExit, _terminate begins.
ClientClose ==
    /\ pc \in {"chunk", "foot"}
    /\ pc' = "terminating"
    /\ Release
    /\ workersIdle
    /\ UNCHANGED <<answer, results, handled, cursor, sized, out, pool, files,
                   expired, cached>>

\* Mutant: what is ready is not removed.
RemoveNothing == UNCHANGED files

\* _terminate, last part: what ready results hold is removed.
RemoveReady ==
    files' = IF KeepsErrors THEN files
             ELSE files \ {t \in Results({"Ok"}) \ handled : IsReady(t)}

\* _terminate, second part: the pool is terminated; the timeout of _wait does
\* not join it (exec_join=False), removes the files at once and answers.
Terminate ==
    /\ pc = "terminating"
    /\ pool' = "terminated"
    /\ queue' = <<>>
    /\ IF answer = 413 THEN pc' = "failed" /\ RemoveReady
                       ELSE pc' = "draining" /\ UNCHANGED files
    /\ UNCHANGED <<lock, answer, results, handled, cursor, sized, out,
                   workerVars, expired, cached>>

\* The pool has been joined: its workers are done with the tasks they had.
TerminateJoin ==
    /\ pc = "draining"
    /\ Active = {}
    /\ pc' = "closing"
    /\ RemoveReady
    /\ workersIdle
    /\ UNCHANGED <<lock, answer, results, handled, cursor, sized, out, pool,
                   expired, cached>>

\* _call_on_close: terminate and join whatever is left of the pool.
CallOnClose ==
    /\ pc = "closing"
    /\ pc' = "joining"
    /\ pool' = "terminated"
    /\ queue' = <<>>
    /\ UNCHANGED <<lock, answer, results, handled, cursor, sized, out,
                   workerVars, files, expired, cached>>

Closed ==
    /\ pc = "joining"
    /\ Active = {}
    /\ pc' = "closed"
    /\ workersIdle
    /\ UNCHANGED <<lock, answer, results, handled, cursor, sized, out, pool,
                   files, expired, cached>>

\* teardown_request of the flask application, after an error response.
TeardownRequest ==
    /\ pc = "failed"
    /\ lock
    /\ Release
    /\ workersIdle
    /\ UNCHANGED <<procVars, pool, files, expired>>

\* The request is over and no task is left that could still move.
Quiescent ==
    /\ Finished
    /\ ~lock
    /\ Active = {}
    /\ queue = <<>> \/ pool = "terminated"
    /\ pool = "terminated" \/ \A t \in Tasks : task[t] # "returned"

Idle == Quiescent /\ UNCHANGED vars

Worker ==
    \/ TaskRefuse
    \/ TaskOverBudget
    \/ TaskDownload
    \/ \E t \in Tasks :
          \/ TaskOk(t)
          \/ TaskError(t)
          \/ SaaError(t)
          \/ TaskCrash(t)
          \/ GuardExit(t)
          \/ Deliver(t)

Waiting ==
    \/ WaitSkip \/ WaitFailed \/ WaitResubmit \/ WaitTooLarge
    \/ WaitFound \/ WaitNoData \/ WaitAgain \/ WaitTimeout

Streaming ==
    \/ Begin \/ StreamSkip \/ StreamFailed \/ StreamResubmit \/ StreamAgain
    \/ StreamTooLarge \/ OpenFile
    \/ \E n \in Sizes : FinishFile(n)
    \/ StreamFoot \/ StreamEnd

Closing ==
    \/ Terminate \/ TerminateJoin \/ CallOnClose \/ Closed \/ TeardownRequest

Processor == Waiting \/ Streaming \/ Closing

\* What nobody has to do: clients leave, files break.
Environment == EarlyClose \/ ClientClose \/ StreamFault

Next == Worker \/ Processor \/ Expire \/ Environment \/ Idle

Spec == Init /\ [][Next]_vars

\* The processor is a thread of its own, and time passes.
FairSpec == Spec /\ WF_vars(Processor) /\ WF_vars(Expire)

\* Worker threads are scheduled and every endpoint request ends, be it by
\* EIDA_FEDERATOR_ENDPOINT_TIMEOUT.  No part of FairSpec: endpoints that
\* trickle data may keep a request going for ever.
EndpointsEnd ==
    /\ WF_vars(TaskRefuse \/ TaskOverBudget \/ TaskDownload)
    /\ \A t \in Tasks :
          /\ WF_vars(TaskOk(t) \/ TaskError(t) \/ SaaError(t) \/ TaskCrash(t))
          /\ WF_vars(GuardExit(t))
          /\ WF_vars(Deliver(t))

-----------------------------------------------------------------------------
(* Properties. *)

Codes  == {"none", "Ok", "TooLarge"} \cup Failures
Stages == {"absent", "queued", "download", "guard", "returned", "ready"}
Items  == ({"head", "sep", "foot"} \X {0}) \cup ({"data"} \X Tasks)

\* Every variable keeps its type: processor state, AsyncResults and task
\* states of RequestProcessor and its tasks.
TypeOK ==
    /\ lock \in BOOLEAN
    /\ pc \in {"wait", "headers", "stream", "chunk", "foot", "terminating",
              "draining", "closing", "joining", "closed", "failed"}
    /\ answer \in {0, 200, 204, 413}
    /\ results \in Seq(Tasks)
    /\ handled \subseteq Tasks
    /\ cursor \in Nat \ {0}
    /\ sized \in BOOLEAN
    /\ out \in Seq(Items)
    /\ pool \in {"open", "closed", "terminated"}
    /\ queue \in Seq(Tasks)
    /\ task \in [Tasks -> Stages]
    /\ status \in [Tasks -> Codes]
    /\ files \subseteq Tasks
    /\ expired \in BOOLEAN
    /\ cached \in BOOLEAN

\* No download is thrown away under a processor that still needs it: while
\* the response is produced the context stays locked and with_ctx_guard has
\* turned no task into a teapot.
NothingTornWhileLive == Live => lock /\ \A t \in Tasks : status[t] # "Torn"

\* A result that says 200 and is still to be streamed has its file: neither a
\* teardown nor _terminate nor another result's turn has removed it.
LiveResultHasFile ==
    Live => \A t \in Tasks : status[t] = "Ok" /\ t \notin handled => t \in files

\* The response was produced to its end.
Delivered ==
    /\ answer = 200
    /\ AllHandled
    /\ pc \in {"foot", "closing", "joining", "closed"}

\* The stream epochs <<route, number>> a task asks for: the SAA task of a
\* route gets its first stream epoch only.
Epochs(t) == IF t \in Routes THEN {t} \X (1 .. EpochsPerRoute)
                             ELSE {<<t - NumRoutes, 1>>}

\* The positions of the response whose data cover a stream epoch.
Covering(e) == {i \in DOMAIN out : out[i][1] = "data" /\ e \in Epochs(out[i][2])}

FailedTask(t) == t \in handled /\ status[t] \in Failures

\* Every routed stream epoch is in the response at most once, although
\* results are appended and removed while the list is iterated; and it is in
\* there exactly once at the end unless its download or its SAA task failed.
EachEpochOnce ==
    \A r \in Routes : \A e \in {r} \X (1 .. EpochsPerRoute) :
        /\ Cardinality(Covering(e)) <= 1
        /\ Delivered => \/ Covering(e) # {}
                        \/ FailedTask(r) \/ FailedTask(SaaOf(r))

\* What is yielded is a well-formed document at any time: the header of the
\* text format comes first and once, the JSON list of wfcatalog is a list.
WellFormedOut ==
    LET Kinds(i) == out[i][1] IN
    \A i \in DOMAIN out :
        CASE Kind = "raw"       -> Kinds(i) = "data"
          [] Kind = "text"      -> Kinds(i) = "head" <=> i = 1
          [] Kind = "wfcatalog" ->
                /\ Kinds(i) = "head" <=> i = 1
                /\ Kinds(i) = "data" <=> i % 2 = 0
                /\ Kinds(i) = "foot" => i = Len(out) /\ AllHandled

\* The status line tells the truth: "no data" only if no endpoint delivered
\* any and no task was torn down, 200 only if the complete response has data.
AnswerIsTrue ==
    /\ answer = 204 => Results({"none", "Ok", "Torn"}) = {}
    /\ Delivered => \E i \in DOMAIN out : out[i][1] = "data"

\* Once the request is over no file of a result that became ready is left
\* (keep_tempfiles=none): _terminate's "removing temporary files of already
\* successfully returned tasks".
ReadyFilesRemoved ==
    Finished /\ ~KeepsErrors =>
        \A t \in files : ~(IsReady(t) /\ status[t] = "Ok")

\* After a complete response only tasks that raised have left a file behind.
OnlyCrashesLeaveFiles ==
    Quiescent /\ Delivered /\ ~KeepsErrors =>
        \A t \in files : status[t] = "TaskError"

\* cache_stream stores complete responses only, of which no part was lost to
\* a teardown or a closed connection.
CachedOnlyWhole ==
    cached => /\ AllHandled
              /\ Results({"Torn", "TooLarge"}) = {}
              /\ \A t \in Results({"Ok"}) : \E i \in DOMAIN out : out[i] = <<"data", t>>

Sent == {r \in Routes : <<"data", r>> \in Range(out)}

Phase == CASE answer = 0   -> "pending"
           [] answer > 200 -> "refused"
           [] OTHER        -> IF Live THEN "streaming"
                              ELSE IF AllHandled THEN "complete" ELSE "broken"

\* The text processor implements a federated response whose parts are its
\* routes (raw and wfcatalog replace routes by SAA tasks).
Response == INSTANCE FederatedResponse WITH
    Parts     <- Routes,
    phase     <- Phase,
    code      <- answer,
    delivered <- Sent,
    lost      <- handled \ Sent

Implements == Response!Spec

\* _wait gives an answer, data, no data or the timeout, even if no endpoint
\* request ever ends.
EventuallyAnswered == pc = "wait" ~> pc # "wait"

\* With endpoints that end, so does the request, and with it every task of its
\* pool.
RequestEnds == EndpointsEnd => <>[]Quiescent

=============================================================================
