------------------------------- MODULE StationXml -------------------------------
(***************************************************************************)
(* One federated fdsnws-station format=xml request.  Tasks run on two      *)
(* levels: the processor (federator/server/process.py) hands one task per  *)
(* network to a pool of worker processes, either a bulk download or a      *)
(* combiner (federator/server/task.py), which has a thread pool of its own *)
(* that downloads the network's routes, and merges what they return.  The  *)
(* tasks' contexts (federator/server/misc.py) form a tree, below the root  *)
(* context whose redis key is the lock of the request.  Init is the state  *)
(* right after StationXMLRequestProcessor._request().                      *)
(***************************************************************************)
EXTENDS Integers, Sequences, FiniteSets, Functions

CONSTANTS
    Combiners,      \* networks whose routes are combined
    Downloads,      \* networks with one route, requested in bulk
    RouteOrder,     \* sequence of the routes of the combined networks
    NetOf,          \* the combiner of each route
    Doc,            \* what a route's StationXML holds: <<net, sta, cha>>
    Levels,         \* of "network", "station", "channel" ("response" too)
    NumProcesses,   \* min(num_routes, num_threads) of the processor
    NumThreads,     \* pool_size of a combiner
    Keep,           \* KeepTempfiles: "ALL", "ON_ERRORS" or "NONE"
    Faults          \* subset of {"exc", "early"}: tasks raise, clients leave
                    \* before the first byte

Routes  == Range(RouteOrder)
Nets    == Combiners \cup Downloads
Loaders == Routes \cup Downloads
Tasks   == Combiners \cup Loaders

\* Places of the processor; at a network it streams the network's file.
Places == {"wait", "headers", "stream", "foot", "draining", "closing",
           "closed", "failed"}

ASSUME ConstantsAssumption ==
    /\ IsFiniteSet(Tasks)
    /\ Combiners \cap Loaders = {} /\ Routes \cap Downloads = {}
    /\ "root" \notin Tasks /\ Tasks \cap Places = {}
    /\ NetOf \in [Routes -> Combiners]
    /\ \A r \in Routes : Doc[r] # {}
    /\ Levels \subseteq {"network", "station", "channel"}
    /\ NumProcesses \in Nat \ {0} /\ NumThreads \in Nat \ {0}
    /\ Keep \in {"ALL", "ON_ERRORS", "NONE"}
    /\ Faults \subseteq {"exc", "early"}

Before(q, r) == \E i, j \in DOMAIN RouteOrder :
                    i < j /\ RouteOrder[i] = q /\ RouteOrder[j] = r
RoutesOf(c) == {r \in Routes : NetOf[r] = c}
KeepsErrors == Keep \in {"ALL", "ON_ERRORS"}

\* The codes of results with status 200: "Empty" is one of length 0 or, of a
\* route, a document without a network.
Success == {"Ok", "Empty"}

VARIABLES
    level,      \* query parameter, fixed
    lock,       \* the root context's key exists in redis
    parent,     \* the contexts appended to another one, and to which
    pc,         \* where the processor is
    answer,     \* HTTP status of the response, 0 while there is none
    handled,    \* networks whose results have left self._results
    sent,       \* networks whose file has been streamed to its end
    out,        \* what was yielded: "head", "data", "foot"
    leaving,    \* the client has left: "no", "graceful" or "forced"
    drained,    \* networks whose results have left the list in _terminate
    stage,      \* where each task is
    status,     \* what each task returns
    files,      \* tasks whose temporary file exists
    inner,      \* thread pool of each combiner
    tree        \* per combiner the leaves merged: <<route, path>>

procVars == <<pc, answer, handled, sent, out, leaving, drained>>
vars == <<level, lock, parent, procVars, stage, status, files, inner, tree>>

Init ==
    /\ level \in Levels
    /\ lock = TRUE
    /\ parent = [t \in Nets |-> "root"]
    /\ pc = "wait"
    /\ answer = 0
    /\ handled = {} /\ sent = {} /\ drained = {}
    /\ out = <<>>
    /\ leaving = "no"
    /\ stage = [t \in Tasks |-> IF t \in Nets THEN "queued" ELSE "absent"]
    /\ status = [t \in Tasks |-> "none"]
    /\ files = {}
    /\ inner = [c \in Combiners |-> "none"]
    /\ tree = [c \in Combiners |-> {}]

-----------------------------------------------------------------------------
(* Contexts. *)

\* _get_root_ctx: up the chain of parents.
RootOf[ctx \in Tasks \cup {"root"}] ==
    IF ctx \in DOMAIN parent THEN RootOf[parent[ctx]] ELSE ctx

\* Only the root's key is ever set.
Locked(ctx) == RootOf[ctx] = "root" /\ lock

\* Mutant: the sub-context is not appended to the task's.
WithoutContexts(c) == parent

WithContexts(c) ==
    [t \in RoutesOf(c) \cup DOMAIN parent |->
        IF t \in RoutesOf(c) THEN c ELSE parent[t]]

-----------------------------------------------------------------------------
(* Download tasks: RawDownloadTask in a combiner's thread, StationXML-       *)
(* DownloadTask in a process of the processor's pool.                        *)

Running(S) == {t \in S : stage[t] \in {"download", "guard", "combine", "joining"}}

\* A worker of the task's pool is free; pools are first in, first out.
CanTake(t) ==
    /\ stage[t] = "queued"
    /\ IF t \in Nets
         THEN Cardinality(Running(Nets)) < NumProcesses
         ELSE LET queued == {r \in RoutesOf(NetOf[t]) : stage[r] = "queued"} IN
              /\ inner[NetOf[t]] = "closed"
              /\ \A r \in queued : ~Before(r, t)
              /\ Cardinality(Running(RoutesOf(NetOf[t]))) < NumThreads

Move(t, from, to, code) ==
    /\ stage[t] = from
    /\ stage' = [stage EXCEPT ![t] = to]
    /\ status' = [status EXCEPT ![t] = code]
    /\ UNCHANGED <<level, lock, procVars>>

\* with_ctx_guard before the task, and the retry budget of the endpoint.
Refuse(t) ==
    /\ CanTake(t)
    /\ \/ ~Locked(t) /\ Move(t, "queued", "returned", "Torn")
       \/ t \in Loaders /\ Locked(t) /\ Move(t, "queued", "guard", "OverBudget")
    /\ UNCHANGED <<parent, files, inner, tree>>

Download(t) ==
    /\ t \in Loaders
    /\ CanTake(t)
    /\ Locked(t)
    /\ Move(t, "queued", "download", "none")
    /\ files' = files \cup {t}
    /\ UNCHANGED <<parent, inner, tree>>

\* An answer with 200.  Of a bulk download only Network elements are kept, and
\* a document need not have any: the task succeeds with a file of length 0.
DownloadOk(t) ==
    /\ \E code \in Success : Move(t, "download", "guard", code)
    /\ UNCHANGED <<parent, files, inner, tree>>

\* _handle_error removes the file.
DownloadError(t) ==
    /\ \E code \in {"TooLarge", "EndpointError"} :
           Move(t, "download", "guard", code)
    /\ files' = IF KeepsErrors THEN files ELSE files \ {t}
    /\ UNCHANGED <<parent, inner, tree>>

\* catch_default_task_exception, for instance an XML syntax error.
DownloadCrash(t) ==
    /\ "exc" \in Faults
    /\ Move(t, "download", "returned", "TaskError")
    /\ UNCHANGED <<parent, files, inner, tree>>

\* with_ctx_guard after the task.  Combiners have no _request_handler and run
\* into the AttributeError branch: the file of their network stays.
GuardExit(t) ==
    /\ Move(t, "guard", "returned", IF Locked(t) THEN status[t] ELSE "Torn")
    /\ files' = IF ~Locked(t) /\ t \in Loaders /\ ~KeepsErrors
                  THEN files \ {t} ELSE files
    /\ UNCHANGED <<parent, inner, tree>>

\* The pool's result handler makes the AsyncResult ready.
Deliver(t) ==
    /\ t \in Routes => inner[NetOf[t]] = "closed"
    /\ Move(t, "returned", "ready", status[t])
    /\ UNCHANGED <<parent, files, inner, tree>>

-----------------------------------------------------------------------------
(* StationXMLNetworkCombinerTask.  The order in which its passes meet ready  *)
(* results is the order in which downloads end, hence any order.             *)

Combine(c) ==
    /\ CanTake(c)
    /\ Locked(c)
    /\ stage' = [t \in Tasks |-> IF t = c THEN "combine"
                                 ELSE IF t \in RoutesOf(c) THEN "queued"
                                 ELSE stage[t]]
    /\ inner' = [inner EXCEPT ![c] = "closed"]
    /\ parent' = WithContexts(c)
    /\ UNCHANGED <<level, lock, procVars, status, files, tree>>

\* The part of a path that tells elements apart at this level.
Key(path) == CASE level = "network" -> <<path[1]>>
               [] level = "station" -> <<path[1], path[2]>>
               [] OTHER             -> path

\* Mutant: a known station keeps its own channels only.
EmergeFirst(known, r) ==
    LET new == {r} \X {Key(p) : p \in Doc[r]} IN
    known \cup {e \in new : \A k \in known :
                     IF level = "network" THEN k[2] # e[2] ELSE k[2][2] # e[2][2]}

\* _merge_net_element: network and station elements are emerged, the first
\* one with a key stays; channels are appended, never merged.
Emerge(known, r) ==
    LET new == {r} \X {Key(p) : p \in Doc[r]} IN
    known \cup {e \in new : level = "channel" \/ \A k \in known : k[2] # e[2]}

\* A ready result: merged and removed, or only logged.
Merge(c, r) ==
    /\ stage[c] = "combine"
    /\ r \in RoutesOf(c)
    /\ stage[r] = "ready"
    /\ stage' = [stage EXCEPT ![r] = "taken"]
    /\ tree' = IF status[r] = "Ok" THEN [tree EXCEPT ![c] = Emerge(@, r)] ELSE tree
    /\ files' = IF status[r] \in Success /\ ~KeepsErrors THEN files \ {r} ELSE files
    /\ UNCHANGED <<level, lock, parent, procVars, status, inner>>

\* The file cannot be parsed: the exception leaves the combiner, its threads
\* go on.
MergeCrash(c, r) ==
    /\ "exc" \in Faults
    /\ r \in RoutesOf(c)
    /\ stage[r] = "ready" /\ status[r] \in Success
    /\ Move(c, "combine", "returned", "TaskError")
    /\ UNCHANGED <<parent, files, inner, tree>>

AllTaken(c) == \A r \in RoutesOf(c) : stage[r] = "taken"

\* The networks are dumped to a file, which is empty if the documents of all
\* routes were.
Dump(c) ==
    /\ AllTaken(c)
    /\ IF \A r \in RoutesOf(c) : status[r] \notin Success
         THEN Move(c, "combine", "guard", "NoData") /\ UNCHANGED files
         ELSE /\ Move(c, "combine", "guard", IF tree[c] = {} THEN "Empty" ELSE "Ok")
              /\ files' = files \cup {c}
    /\ UNCHANGED <<parent, inner, tree>>

\* The context has gone while results are outstanding: _terminate.
Close(c) ==
    /\ ~AllTaken(c)
    /\ ~Locked(c)
    /\ Move(c, "combine", "joining", "none")
    /\ inner' = [inner EXCEPT ![c] = "terminated"]
    /\ UNCHANGED <<parent, files, tree>>

\* os.remove(result.data) of the ready results, in order.  Data of a failed
\* task is a message, whose OSError is ignored, but data of a torn or refused
\* one is no string: the TypeError ends the loop, and the task.
NoPath == {"Torn", "OverBudget", "TooLarge"}

Joined(c) ==
    /\ Running(RoutesOf(c)) = {}
    /\ LET ready == {r \in RoutesOf(c) : stage[r] = "ready"}
           bad   == {r \in ready : status[r] \in NoPath}
           fails == bad # {} /\ ~KeepsErrors
       IN  /\ Move(c, "joining", "returned", IF fails THEN "TaskError" ELSE "Torn")
           /\ files' = IF KeepsErrors THEN files
                       ELSE files \ {r \in ready : status[r] \in Success /\
                                          \A b \in bad : Before(r, b)}
    /\ UNCHANGED <<parent, inner, tree>>

-----------------------------------------------------------------------------
(* The processor: StationXMLRequestProcessor with _wait of its base class.   *)

tasksIdle == UNCHANGED <<level, parent, stage, status, inner, tree>>

Sees(t, codes) ==
    /\ t \in Nets \ handled
    /\ stage[t] = "ready"
    /\ status[t] \in codes

Failures == {"EndpointError", "TaskError", "Torn", "OverBudget", "NoData"}

\* _handle_error and, while streaming, _handle_teapot.
DropFailed(t) ==
    /\ pc \in {"wait", "stream"}
    /\ Sees(t, Failures)
    /\ handled' = handled \cup {t}
    /\ tasksIdle
    /\ UNCHANGED <<lock, pc, answer, sent, out, leaving, drained, files>>

\* An error leaves streamed_response; the pool stays, closed.
Fail(code) ==
    /\ pc = "wait"
    /\ pc' = "failed"
    /\ answer' = code
    /\ tasksIdle
    /\ UNCHANGED <<lock, handled, sent, out, leaving, drained, files>>

WaitTooLarge(t) == Sees(t, {"TooLarge"}) /\ Fail(413)

\* Mutant: the answer is given after the first result that has no data.
WaitNoDataEarly == handled # {} /\ Fail(204)

WaitNoData == handled = Nets /\ Fail(204)

\* TIMEOUT_STREAMING: self._terminate(exec_join=False), a keyword this class
\* does not take.  The TypeError is answered with 500, nothing is released.
WaitTimeout == handled # Nets /\ Fail(500)

WaitFound(t) ==
    /\ pc = "wait"
    /\ Sees(t, Success)
    /\ pc' = "headers"
    /\ answer' = 200
    /\ tasksIdle
    /\ UNCHANGED <<lock, handled, sent, out, leaving, drained, files>>

Begin ==
    /\ pc = "headers"
    /\ pc' = "stream"
    /\ tasksIdle
    /\ UNCHANGED <<lock, answer, handled, sent, out, leaving, drained, files>>

\* Mutant: any result counts, as in `if not self._sizes`.
OpenFileUnheaded(t) ==
    /\ pc = "stream"
    /\ Sees(t, Success)
    /\ pc' = t
    /\ out' = IF handled = {} THEN Append(out, "head") ELSE out
    /\ tasksIdle
    /\ UNCHANGED <<lock, answer, handled, sent, leaving, drained, files>>

\* The sum of self._sizes is not 0.
Streamed == \E n \in sent : status[n] = "Ok"

\* The file is opened, after a header as long as nothing but empty files has
\* been sent.
OpenFile(t) ==
    /\ pc = "stream"
    /\ Sees(t, Success)
    /\ pc' = t
    /\ out' = IF ~Streamed THEN Append(out, "head") ELSE out
    /\ tasksIdle
    /\ UNCHANGED <<lock, answer, handled, sent, leaving, drained, files>>

FinishFile ==
    /\ pc \in Nets
    /\ pc' = "stream"
    /\ out' = IF status[pc] = "Ok" THEN Append(out, "data") ELSE out
    /\ sent' = sent \cup {pc}
    /\ handled' = handled \cup {pc}
    /\ files' = IF Keep = "ALL" THEN files ELSE files \ {pc}
    /\ tasksIdle
    /\ UNCHANGED <<lock, answer, leaving, drained>>

\* stream_with_context pops the request context: teardown_request releases.
Release == lock' = FALSE

\* FDSNHTTPError of _handle_413 in the middle of the stream.
StreamTooLarge(t) ==
    /\ pc = "stream"
    /\ Sees(t, {"TooLarge"})
    /\ pc' = "closing"
    /\ Release
    /\ tasksIdle
    /\ UNCHANGED <<answer, handled, sent, out, leaving, drained, files>>

StreamFoot ==
    /\ pc = "stream"
    /\ handled = Nets
    /\ pc' = "foot"
    /\ out' = Append(out, "foot")
    /\ tasksIdle
    /\ UNCHANGED <<lock, answer, handled, sent, leaving, drained, files>>

\* The pool is joined: it is closed and its tasks are done.
StreamEnd ==
    /\ pc = "foot"
    /\ pc' = "closing"
    /\ Release
    /\ tasksIdle
    /\ UNCHANGED <<answer, handled, sent, out, leaving, drained, files>>

EarlyClose ==
    /\ "early" \in Faults
    /\ pc = "headers"
    /\ pc' = "closing"
    /\ Release
    /\ tasksIdle
    /\ UNCHANGED <<answer, handled, sent, out, leaving, drained, files>>

\* GeneratorExit at a yield, of the header, a chunk or the footer: _terminate
\* releases the context and, if files are removed, waits for the tasks.
ClientClose ==
    /\ pc \in Nets \cup {"foot"}
    /\ pc \in Nets => status[pc] = "Ok" \/ ~Streamed
    /\ pc' = IF KeepsErrors THEN "closing" ELSE "draining"
    /\ leaving' = "graceful"
    /\ Release
    /\ tasksIdle
    /\ UNCHANGED <<answer, handled, sent, out, drained, files>>

Drain(t) ==
    /\ pc = "draining"
    /\ t \in Nets \ (handled \cup drained)
    /\ stage[t] = "ready"
    /\ drained' = drained \cup {t}
    /\ files' = IF status[t] \in Success THEN files \ {t} ELSE files
    /\ tasksIdle
    /\ UNCHANGED <<lock, pc, answer, handled, sent, out, leaving>>

\* Mutant: the pool is not waited for.
DrainedAtOnce ==
    /\ pc = "draining"
    /\ pc' = "closing"
    /\ tasksIdle
    /\ UNCHANGED <<lock, answer, handled, sent, out, leaving, drained, files>>

Drained ==
    /\ pc = "draining"
    /\ handled \cup drained = Nets
    /\ pc' = "closing"
    /\ tasksIdle
    /\ UNCHANGED <<lock, answer, handled, sent, out, leaving, drained, files>>

\* Mutant: no shutdown timeout.
ShutdownNever == pc = "draining" /\ FALSE /\ UNCHANGED vars

\* TIMEOUT_SHUTDOWN: "Temporary files might remain."
ShutdownTimeout ==
    /\ pc = "draining"
    /\ handled \cup drained # Nets
    /\ pc' = "closing"
    /\ leaving' = "forced"
    /\ tasksIdle
    /\ UNCHANGED <<lock, answer, handled, sent, out, drained, files>>

\* _call_on_close: the worker processes are killed wherever they are.
CallOnClose ==
    /\ pc = "closing"
    /\ pc' = "closed"
    /\ stage' = [t \in Tasks |-> IF stage[t] \in {"absent", "ready", "taken"}
                                   THEN stage[t] ELSE "killed"]
    /\ inner' = [c \in Combiners |-> "terminated"]
    /\ UNCHANGED <<level, lock, parent, answer, handled, sent, out, leaving,
                   drained, status, files, tree>>

TeardownRequest ==
    /\ pc = "failed"
    /\ lock
    /\ Release
    /\ tasksIdle
    /\ UNCHANGED <<procVars, files>>

\* The request is over and nothing can move any more.
Quiescent ==
    /\ pc \in {"closed", "failed"}
    /\ ~lock
    /\ Running(Tasks) = {}
    /\ \A t \in Tasks :
          /\ ~CanTake(t)
          /\ stage[t] = "returned" => t \in Routes /\ inner[NetOf[t]] # "closed"

Idle == Quiescent /\ UNCHANGED vars

Working ==
    \/ \E t \in Tasks :
          \/ Refuse(t) \/ Download(t) \/ DownloadOk(t) \/ DownloadError(t)
          \/ DownloadCrash(t) \/ GuardExit(t) \/ Deliver(t)
    \/ \E c \in Combiners :
          \/ Combine(c) \/ Dump(c) \/ Close(c) \/ Joined(c)
          \/ \E r \in Routes : Merge(c, r) \/ MergeCrash(c, r)

Processing ==
    \/ WaitNoData \/ Begin \/ FinishFile \/ StreamFoot \/ StreamEnd
    \/ Drained \/ CallOnClose \/ TeardownRequest
    \/ \E t \in Nets :
          \/ DropFailed(t) \/ WaitTooLarge(t) \/ WaitFound(t) \/ OpenFile(t)
          \/ StreamTooLarge(t) \/ Drain(t)

Timeouts == WaitTimeout \/ ShutdownTimeout

Next == Working \/ Processing \/ Timeouts \/ EarlyClose \/ ClientClose \/ Idle

Spec == Init /\ [][Next]_vars

\* The processor is a thread of its own, and time passes.
FairSpec == Spec /\ WF_vars(Processing) /\ WF_vars(Timeouts)

-----------------------------------------------------------------------------
(* Properties. *)

Codes  == {"none", "TooLarge"} \cup Success \cup Failures
Stages == {"absent", "queued", "download", "guard", "combine", "joining",
           "returned", "ready", "taken", "killed"}

Elements == {Key(p) : p \in UNION {Doc[r] : r \in Routes}}

\* Every variable keeps its type: the processor, the tasks of both levels and
\* their pools.
TypeOK ==
    /\ level \in Levels /\ lock \in BOOLEAN
    /\ leaving \in {"no", "graceful", "forced"}
    /\ DOMAIN parent \subseteq Tasks
    /\ pc \in Nets \cup Places
    /\ answer \in {0, 200, 204, 413, 500}
    /\ sent \subseteq handled /\ handled \subseteq Nets /\ drained \subseteq Nets
    /\ out \in Seq({"head", "data", "foot"})
    /\ stage \in [Tasks -> Stages]
    /\ status \in [Tasks -> Codes]
    /\ files \subseteq Tasks
    /\ inner \in [Combiners -> {"none", "closed", "terminated"}]
    /\ tree \in [Combiners -> SUBSET (Routes \X Elements)]

\* No task of either level is torn down under a processor that still needs
\* it: contexts of a combiner's downloads see the lock of the request.
NothingTornWhileLive ==
    pc \in Nets \cup {"wait", "headers", "stream", "foot"} =>
        lock /\ \A t \in Tasks : status[t] # "Torn"

\* A network a combiner returns is whole: every element an endpoint delivered
\* is in it, networks and stations once, channels once per endpoint; only
\* routes whose download failed are missing.
NetworkWhole ==
    \A c \in Combiners : status[c] \in Success =>
        /\ \A r \in RoutesOf(c) : status[r] = "Ok" =>
              {Key(p) : p \in Doc[r]} \subseteq {e[2] : e \in tree[c]}
        /\ \A e, f \in tree[c] :
              e # f /\ e[2] = f[2] => level = "channel" /\ e[1] # f[1]

\* Networks that were sent without a byte.
Hollow == {n \in sent : status[n] = "Empty"}

\* The response is one document at any time: header, data, footer.  The header
\* is repeated, never behind data, once for every empty network at most.
OneDocument ==
    /\ out # <<>> => out[1] = "head"
    /\ \A i \in DOMAIN out :
          /\ out[i] = "head" => /\ \A j \in 1 .. i : out[j] = "head"
                               /\ i <= 1 + Cardinality(Hollow)
          /\ out[i] = "foot" => i = Len(out) /\ handled = Nets

\* _terminate lets tasks end ("allowing them a graceful shutdown"): unless the
\* shutdown timeout strikes, a client that leaves in the middle of the stream
\* leaves files only of tasks that raised, and of combiners that were torn
\* down or raised with their downloads.
GracefulShutdown ==
    pc = "closed" /\ leaving = "graceful" /\ ~KeepsErrors =>
        \A t \in files : \/ status[t] = "TaskError"
                         \/ t \in Combiners /\ status[t] = "Torn"
                         \/ t \in Routes /\ status[NetOf[t]] \in {"Torn", "TaskError"}

LastIsFoot == out # <<>> /\ out[Len(out)] = "foot"

Phase == CASE answer = 0   -> "pending"
           [] answer > 200 -> "refused"
           [] OTHER        -> IF LastIsFoot THEN "complete"
                              ELSE IF pc \in Nets \cup {"headers", "stream"}
                                     THEN "streaming" ELSE "broken"

\* A federated response as FederatedResponse promises it: the parts are the
\* networks.
Response == INSTANCE FederatedResponse WITH
    Parts     <- Nets,
    phase     <- Phase,
    code      <- answer,
    delivered <- sent,
    lost      <- handled \ sent

Implements == Response!Spec

\* A client that leaves is rid of the request even if no task ever ends.
LeavingEnds == pc = "draining" ~> pc = "closed"

=============================================================================
