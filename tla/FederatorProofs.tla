---------------------------- MODULE FederatorProofs ----------------------------
(***************************************************************************)
(* Proofs about Federator for every number of routes and threads, every    *)
(* kind of processor and every set of faults: the locks and files of its   *)
(* tasks, and what a request answers, delivers and caches.                 *)
(***************************************************************************)
EXTENDS Federator, FiniteSetTheorems, TLAPS

\* A task that is downloading has its temporary file.
DownloadHasFile == \A t \in Tasks : task[t] = "download" => t \in files

\* Only download tasks end with a 413 that is handed to _handle_413.
TooLargeIsRoute == \A t \in Tasks : status[t] = "TooLarge" => t \in Routes

\* The file being streamed belongs to a ready result of the list.
ChunkIsReady == pc = "chunk" => InPass /\ IsReady(Here)

\* The inductive invariant: LiveResultHasFile survives because a file is
\* removed only by its own failing task, by a teardown (which needs a released
\* lock, hence a processor that is not live), or after it has been streamed.
IInv ==
    /\ TypeOK
    /\ NothingTornWhileLive
    /\ DownloadHasFile
    /\ TooLargeIsRoute
    /\ ChunkIsReady
    /\ LiveResultHasFile

\* What follows from the constants about the task identifiers.
LEMMA TaskIds ==
    /\ Routes \subseteq Tasks
    /\ \A r \in Routes : SaaOf(r) \in Tasks /\ SaaOf(r) \notin Routes
    /\ [i \in Routes |-> i] \in Seq(Tasks)
<1>1. NumRoutes \in Nat \ {0}
  BY ConstantsAssumption
<1>2. Routes \subseteq Tasks
  BY <1>1 DEF Routes, Tasks
<1>3. ASSUME NEW r \in Routes PROVE SaaOf(r) \in Tasks /\ SaaOf(r) \notin Routes
  BY <1>1 DEF Routes, Tasks, SaaOf
<1>4. [i \in Routes |-> i] \in Seq(Tasks)
  BY <1>1, <1>2 DEF Routes
<1>5. QED
  BY <1>2, <1>3, <1>4

\* The result under the cursor of a pass is a task.
LEMMA HereIsTask ==
    ASSUME TypeOK, InPass
    PROVE  Here \in Tasks
BY DEF TypeOK, InPass, Here

\* The head of a queue that is not empty is a task, its tail a queue.
LEMMA HeadIsTask ==
    ASSUME TypeOK, queue # <<>>
    PROVE  Head(queue) \in Tasks /\ Tail(queue) \in Seq(Tasks)
BY DEF TypeOK

\* Two abbreviations of the processor.
USE DEF Release, Caches

\* A request that has just submitted its tasks satisfies the invariant.
LEMMA InitInv == Init => IInv
<1> SUFFICES ASSUME Init PROVE IInv
  OBVIOUS
<1> USE DEF Init
<1>1. TypeOK
  <2>1. results \in Seq(Tasks) /\ queue \in Seq(Tasks)
    BY TaskIds
  <2>2. task \in [Tasks -> Stages]
    BY DEF Stages
  <2>3. status \in [Tasks -> Codes]
    BY DEF Codes
  <2>4. out \in Seq(Items)
    OBVIOUS
  <2>5. pool \in {"open", "closed", "terminated"}
    BY DEF Resubmits
  <2>6. /\ lock \in BOOLEAN /\ sized \in BOOLEAN
        /\ expired \in BOOLEAN /\ cached \in BOOLEAN
    OBVIOUS
  <2>7. cursor \in Nat \ {0} /\ answer \in {0, 200, 204, 413}
    OBVIOUS
  <2>8. QED
    BY <2>1, <2>2, <2>3, <2>4, <2>5, <2>6, <2>7 DEF TypeOK
<1>2. NothingTornWhileLive /\ LiveResultHasFile /\ TooLargeIsRoute
  BY DEF NothingTornWhileLive, LiveResultHasFile, TooLargeIsRoute
<1>3. DownloadHasFile /\ ChunkIsReady
  BY DEF DownloadHasFile, ChunkIsReady
<1>4. QED
  BY <1>1, <1>2, <1>3 DEF IInv

-----------------------------------------------------------------------------
(* Steps of the workers. *)

\* A step of task t keeps the invariant if it removes no other task's file,
\* opens its own before downloading, returns 200 to a live processor only with
\* a file, and does not turn into a teapot under a live processor.
LEMMA WorkerStep ==
    ASSUME IInv,
           NEW t \in Tasks, NEW from \in Stages \ {"ready"},
           NEW to \in Stages, NEW code \in Codes,
           Step(t, from, to, code),
           queue' \in Seq(Tasks),
           files' \subseteq Tasks, files \ {t} \subseteq files',
           to = "download" => t \in files',
           code = "TooLarge" => t \in Routes,
           Live => code # "Torn",
           Live /\ code = "Ok" => t \in files' \/ t \in handled
    PROVE  IInv'
<1> USE DEF IInv, Step, procVars
<1>1. TypeOK'
  BY DEF TypeOK
<1>2. /\ \A u \in Tasks \ {t} : task'[u] = task[u] /\ status'[u] = status[u]
      /\ task'[t] = to /\ status'[t] = code /\ task[t] # "ready"
  BY DEF TypeOK
<1>3. NothingTornWhileLive'
  BY <1>2 DEF NothingTornWhileLive, Live
<1>4. DownloadHasFile'
  BY <1>2 DEF DownloadHasFile
<1>5. TooLargeIsRoute'
  BY <1>2 DEF TooLargeIsRoute
<1>6. ChunkIsReady'
  <2> SUFFICES ASSUME pc = "chunk" PROVE InPass' /\ IsReady(Here)'
    BY DEF ChunkIsReady
  <2>1. InPass /\ IsReady(Here) /\ Here \in Tasks
    BY HereIsTask DEF ChunkIsReady
  <2>2. Here' = Here /\ InPass'
    BY <2>1 DEF Here, InPass
  <2>3. task'[Here] = "ready"
    BY <2>1, <1>2 DEF IsReady
  <2>4. QED
    BY <2>2, <2>3 DEF IsReady
<1>7. LiveResultHasFile'
  BY <1>2 DEF LiveResultHasFile, Live
<1>8. QED
  BY <1>1, <1>3, <1>4, <1>5, <1>6, <1>7

\* No step of a worker thread or the result handler breaks the invariant.
LEMMA WorkerInv == ASSUME IInv, Worker PROVE IInv'
<1> USE DEF Stages, Codes, Failures
<1>1. CASE TaskRefuse
  <2>1. Head(queue) \in Tasks /\ queue' \in Seq(Tasks)
    BY <1>1, HeadIsTask DEF TaskRefuse, CanTake, IInv
  <2>2. ~Live
    BY <1>1 DEF TaskRefuse, IInv, NothingTornWhileLive
  <2>3. QED
    BY <1>1, <2>1, <2>2, WorkerStep DEF TaskRefuse, IInv, TypeOK
<1>2. CASE TaskOverBudget
  <2>1. Head(queue) \in Tasks /\ queue' \in Seq(Tasks)
    BY <1>2, HeadIsTask DEF TaskOverBudget, CanTake, IInv
  <2>2. QED
    BY <1>2, <2>1, WorkerStep DEF TaskOverBudget, IInv, TypeOK
<1>3. CASE TaskDownload
  <2>1. Head(queue) \in Tasks /\ queue' \in Seq(Tasks)
    BY <1>3, HeadIsTask DEF TaskDownload, CanTake, IInv
  <2>2. QED
    BY <1>3, <2>1, WorkerStep DEF TaskDownload, IInv, TypeOK
<1>4. ASSUME NEW t \in Tasks, TaskOk(t) PROVE IInv'
  <2>1. t \in files
    BY <1>4 DEF TaskOk, Step, IInv, DownloadHasFile
  <2>2. QED
    BY <1>4, <2>1, WorkerStep DEF TaskOk, IInv, TypeOK
<1>5. ASSUME NEW t \in Tasks, TaskError(t) PROVE IInv'
  <2>1. PICK code \in {"TooLarge", "EndpointError"} :
            Step(t, "download", "guard", code)
    BY <1>5 DEF TaskError
  <2>2. QED
    BY <1>5, <2>1, WorkerStep DEF TaskError, IInv, TypeOK
<1>6. ASSUME NEW t \in Tasks, SaaError(t) PROVE IInv'
  BY <1>6, WorkerStep DEF SaaError, IInv, TypeOK
<1>7. ASSUME NEW t \in Tasks, TaskCrash(t) PROVE IInv'
  BY <1>7, WorkerStep DEF TaskCrash, IInv, TypeOK
<1>8. ASSUME NEW t \in Tasks, GuardExit(t) PROVE IInv'
  <2>1. status[t] \in Codes
    BY DEF IInv, TypeOK
  <2>2. CASE lock
    <3>1. Live /\ status[t] = "Ok" => t \in files \/ t \in handled
      BY DEF IInv, LiveResultHasFile
    <3>2. Live => status[t] # "Torn"
      BY DEF IInv, NothingTornWhileLive
    <3>3. status[t] = "TooLarge" => t \in Routes
      BY DEF IInv, TooLargeIsRoute
    <3>4. Step(t, "guard", "returned", status[t]) /\ UNCHANGED <<queue, files>>
      BY <1>8, <2>2 DEF GuardExit
    <3>5. QED
      BY <2>1, <3>1, <3>2, <3>3, <3>4, WorkerStep DEF IInv, TypeOK
  <2>3. CASE ~lock
    <3>1. ~Live
      BY <2>3 DEF IInv, NothingTornWhileLive
    <3>2. Step(t, "guard", "returned", "Torn") /\ queue' = queue
      BY <1>8, <2>3 DEF GuardExit
    <3>3. files' \subseteq files /\ files \ {t} \subseteq files'
      BY <1>8 DEF GuardExit
    <3>4. QED
      BY <3>1, <3>2, <3>3, WorkerStep DEF IInv, TypeOK
  <2>4. QED
    BY <2>2, <2>3
<1>9. ASSUME NEW t \in Tasks, Deliver(t) PROVE IInv'
  <2>1. Live /\ status[t] = "Ok" => t \in files \/ t \in handled
    BY DEF IInv, LiveResultHasFile
  <2>2. Live => status[t] # "Torn"
    BY DEF IInv, NothingTornWhileLive
  <2>3. status[t] = "TooLarge" => t \in Routes
    BY DEF IInv, TooLargeIsRoute
  <2>4. status[t] \in Codes
    BY DEF IInv, TypeOK
  <2>5. Step(t, "returned", "ready", status[t]) /\ UNCHANGED <<queue, files>>
    BY <1>9 DEF Deliver
  <2>6. QED
    BY <2>1, <2>2, <2>3, <2>4, <2>5, WorkerStep DEF IInv, TypeOK
<1>10. QED
  BY <1>1, <1>2, <1>3, <1>4, <1>5, <1>6, <1>7, <1>8, <1>9 DEF Worker

-----------------------------------------------------------------------------
(* Steps of the processor, the clock and the clients. *)

\* A step that moves no worker keeps the invariant if a live processor stays
\* live under its lock and loses only files of results it has handled.
LEMMA ProcessorStep ==
    ASSUME IInv,
           TypeOK',
           status' = status,
           \A t \in Tasks : task'[t] = "download" => task[t] = "download",
           \A t \in Tasks : task[t] = "download" /\ t \in files => t \in files',
           handled \subseteq handled',
           Live' => Live /\ lock',
           Live' => \A t \in files : t \in files' \/ t \in handled',
           ChunkIsReady'
    PROVE  IInv'
<1>1. NothingTornWhileLive'
  BY DEF IInv, NothingTornWhileLive
<1>2. DownloadHasFile'
  BY DEF IInv, DownloadHasFile
<1>3. TooLargeIsRoute'
  BY DEF IInv, TooLargeIsRoute
<1>4. LiveResultHasFile'
  BY DEF IInv, LiveResultHasFile
<1>5. QED
  BY <1>1, <1>2, <1>3, <1>4 DEF IInv

\* The common case: neither files nor tasks change and no chunk is opened.
LEMMA PlainStep ==
    ASSUME IInv,
           TypeOK',
           UNCHANGED <<task, status, files>>,
           handled \subseteq handled',
           Live' => Live /\ lock',
           pc' # "chunk"
    PROVE  IInv'
<1>1. ChunkIsReady'
  BY DEF ChunkIsReady
<1>2. QED
  BY <1>1, ProcessorStep

\* One result of a pass is skipped, dropped or resubmitted.
LEMMA PassInv ==
    ASSUME IInv, pc \in {"wait", "stream"}, Skip \/ DropFailed \/ Resubmit
    PROVE  IInv'
<1> USE DEF workersIdle
<1>0. TypeOK /\ lock /\ Live
  BY DEF IInv, NothingTornWhileLive, Live
<1>1. CASE Skip
  <2>1. TypeOK'
    BY <1>0, <1>1 DEF Skip, TypeOK
  <2>2. QED
    BY <1>0, <1>1, <2>1, PlainStep DEF Skip, Live
<1>2. CASE DropFailed
  <2>1. TypeOK'
    BY <1>0, <1>2, HereIsTask DEF DropFailed, Sees, TypeOK
  <2>2. QED
    BY <1>0, <1>2, <2>1, PlainStep DEF DropFailed, Live
<1>3. CASE Resubmit
  <2>1. Here \in Routes
    BY <1>0, <1>3, HereIsTask DEF Resubmit, Sees, IInv, TooLargeIsRoute
  <2>2. SaaOf(Here) \in Tasks /\ Here \in Tasks
    BY <2>1, TaskIds
  <2>3. task' = [task EXCEPT ![SaaOf(Here)] = "queued"]
    BY <1>3 DEF Resubmit
  <2>4. TypeOK'
    <3>1. results' \in Seq(Tasks) /\ queue' \in Seq(Tasks)
      BY <1>0, <1>3, <2>2 DEF Resubmit, TypeOK
    <3>2. task' \in [Tasks -> Stages]
      <4>1. task \in [Tasks -> Stages] /\ "queued" \in Stages
        BY <1>0 DEF TypeOK, Stages
      <4> HIDE DEF Stages
      <4>2. QED
        BY <2>3, <4>1
    <3>3. handled' \subseteq Tasks /\ cursor' \in Nat \ {0}
      BY <1>0, <1>3, <2>2 DEF Resubmit, TypeOK
    <3>4. QED
      BY <1>0, <1>3, <3>1, <3>2, <3>3 DEF Resubmit, TypeOK
  <2>5. \A t \in Tasks : task'[t] = "download" => task[t] = "download"
    BY <1>0, <2>3 DEF TypeOK
  <2>6. UNCHANGED <<lock, pc, status, files>> /\ handled \subseteq handled'
    BY <1>3 DEF Resubmit
  <2>7. ChunkIsReady'
    BY <2>6 DEF ChunkIsReady
  <2>8. QED
    BY <1>0, <2>4, <2>5, <2>6, <2>7, ProcessorStep DEF Live
<1>4. QED
  BY <1>1, <1>2, <1>3

\* Nor does a step of _wait, a pass over the results or its outcome.
LEMMA WaitingInv == ASSUME IInv, Waiting PROVE IInv'
<1> USE DEF workersIdle, Fail
<1>0. TypeOK
  BY DEF IInv
<1>1. CASE WaitSkip \/ WaitFailed \/ WaitResubmit
  BY <1>1, PassInv DEF WaitSkip, WaitFailed, WaitResubmit
<1>2. CASE WaitTooLarge \/ WaitNoData
  <2>1. TypeOK'
    BY <1>0, <1>2 DEF WaitTooLarge, WaitNoData, TypeOK
  <2>2. QED
    BY <1>2, <2>1, PlainStep DEF WaitTooLarge, WaitNoData, Live
<1>3. CASE WaitFound
  <2>1. TypeOK'
    BY <1>0, <1>3 DEF WaitFound, TypeOK
  <2>2. QED
    BY <1>3, <2>1, PlainStep DEF WaitFound, Live, IInv, NothingTornWhileLive
<1>4. CASE WaitAgain
  <2>1. TypeOK'
    BY <1>0, <1>4 DEF WaitAgain, TypeOK
  <2>2. QED
    BY <1>4, <2>1, PlainStep DEF WaitAgain, Live, IInv, NothingTornWhileLive
<1>5. CASE WaitTimeout
  <2>1. TypeOK'
    BY <1>0, <1>5 DEF WaitTimeout, TypeOK
  <2>2. QED
    BY <1>5, <2>1, PlainStep DEF WaitTimeout, Live
<1>6. QED
  BY <1>1, <1>2, <1>3, <1>4, <1>5 DEF Waiting

\* A generator that raises releases the context and is no longer live.
LEMMA BreakInv == ASSUME IInv, Break PROVE IInv'
<1>1. TypeOK'
  BY DEF IInv, Break, workersIdle, TypeOK
<1>2. QED
  BY <1>1, PlainStep DEF Break, workersIdle, Live

\* The file just streamed is removed, and its result handled with it.
LEMMA FinishFileInv == ASSUME IInv, NEW n \in Sizes, FinishFile(n) PROVE IInv'
<1> USE DEF workersIdle
<1>1. TypeOK /\ Live /\ lock /\ Here \in Tasks /\ IsReady(Here)
  BY HereIsTask DEF IInv, FinishFile, NothingTornWhileLive, Live, ChunkIsReady
<1>2. sized' \in BOOLEAN
  BY <1>1 DEF FinishFile, TypeOK
<1>3. out' \in Seq(Items)
  BY <1>1 DEF FinishFile, TypeOK, Items
<1>4. handled' \subseteq Tasks /\ files' \subseteq Tasks /\ cursor' \in Nat \ {0}
  BY <1>1 DEF FinishFile, TypeOK
<1>5. TypeOK'
  BY <1>1, <1>2, <1>3, <1>4 DEF FinishFile, TypeOK
<1>6. \A t \in files : t \in files' \/ t = Here
  BY DEF FinishFile
<1>7. task[Here] # "download" /\ Here \in handled'
  BY <1>1 DEF IsReady, FinishFile
<1>8. UNCHANGED <<task, status, lock>> /\ handled \subseteq handled'
      /\ pc' = "stream"
  BY DEF FinishFile
<1>9. ChunkIsReady'
  BY <1>8 DEF ChunkIsReady
<1>10. QED
  BY <1>1, <1>5, <1>6, <1>7, <1>8, <1>9, ProcessorStep

\* No step of __iter__ breaks the invariant.
LEMMA StreamingInv == ASSUME IInv, Streaming PROVE IInv'
<1> USE DEF workersIdle
<1>0. TypeOK
  BY DEF IInv
<1>1. CASE Begin
  <2>1. TypeOK'
    BY <1>0, <1>1 DEF Begin, TypeOK
  <2>2. QED
    BY <1>1, <2>1, PlainStep DEF Begin, Live, IInv, NothingTornWhileLive
<1>2. CASE StreamSkip \/ StreamFailed \/ StreamResubmit
  BY <1>2, PassInv DEF StreamSkip, StreamFailed, StreamResubmit
<1>3. CASE StreamAgain
  <2>1. TypeOK'
    BY <1>0, <1>3 DEF StreamAgain, TypeOK
  <2>2. QED
    BY <1>3, <2>1, PlainStep DEF StreamAgain, Live, IInv, NothingTornWhileLive
<1>4. CASE StreamTooLarge
  BY <1>4, BreakInv DEF StreamTooLarge
<1>5. CASE OpenFile
  <2>1. Lead \in Seq(Items)
    BY DEF Lead, Items
  <2>2. TypeOK'
    BY <1>0, <1>5, <2>1 DEF OpenFile, TypeOK
  <2>3. ChunkIsReady'
    BY <1>5 DEF OpenFile, ChunkIsReady, Sees, InPass, IsReady, Here
  <2>4. QED
    BY <1>5, <2>2, <2>3, ProcessorStep
       DEF OpenFile, Live, IInv, NothingTornWhileLive
<1>6. ASSUME NEW n \in Sizes, FinishFile(n) PROVE IInv'
  BY <1>6, FinishFileInv
<1>7. CASE StreamFoot
  <2>1. out' \in Seq(Items)
    BY <1>0, <1>7 DEF StreamFoot, TypeOK, Items
  <2>2. TypeOK'
    BY <1>0, <1>7, <2>1 DEF StreamFoot, TypeOK
  <2>3. QED
    BY <1>7, <2>2, PlainStep DEF StreamFoot, Live, IInv, NothingTornWhileLive
<1>8. CASE StreamEnd
  <2>1. TypeOK'
    BY <1>0, <1>8 DEF StreamEnd, TypeOK
  <2>2. QED
    BY <1>8, <2>1, PlainStep DEF StreamEnd, Live
<1>9. QED
  BY <1>1, <1>2, <1>3, <1>4, <1>5, <1>6, <1>7, <1>8 DEF Streaming

\* _terminate removes files of ready results only: no download loses its file.
LEMMA RemovalInv == ASSUME IInv, Terminate \/ TerminateJoin PROVE IInv'
<1> USE DEF workersIdle, workerVars
<1>0. TypeOK
  BY DEF IInv
<1>1. UNCHANGED <<task, status, handled>> /\ pc' \in {"failed", "draining", "closing"}
  BY DEF Terminate, TerminateJoin
<1>2. /\ files' \subseteq files
      /\ \A t \in files : t \in files' \/ IsReady(t)
  BY DEF Terminate, TerminateJoin, RemoveReady
<1>3. TypeOK'
  <2>1. CASE Terminate
    BY <1>0, <1>1, <1>2, <2>1 DEF Terminate, TypeOK
  <2>2. CASE TerminateJoin
    BY <1>0, <1>1, <1>2, <2>2 DEF TerminateJoin, TypeOK
  <2>3. QED
    BY <2>1, <2>2
<1>4. ~Live' /\ ChunkIsReady'
  BY <1>1 DEF Live, ChunkIsReady
<1>5. QED
  BY <1>1, <1>2, <1>3, <1>4, ProcessorStep DEF IsReady

\* No way out of a request breaks the invariant.
LEMMA ClosingInv == ASSUME IInv, Closing PROVE IInv'
<1> USE DEF workersIdle, workerVars, procVars
<1>0. TypeOK
  BY DEF IInv
<1>1. CASE Terminate \/ TerminateJoin
  BY <1>1, RemovalInv
<1>2. CASE CallOnClose
  <2>1. TypeOK'
    BY <1>0, <1>2 DEF CallOnClose, TypeOK
  <2>2. QED
    BY <1>2, <2>1, PlainStep DEF CallOnClose, Live
<1>3. CASE Closed
  <2>1. TypeOK'
    BY <1>0, <1>3 DEF Closed, TypeOK
  <2>2. QED
    BY <1>3, <2>1, PlainStep DEF Closed, Live
<1>4. CASE TeardownRequest
  <2>1. TypeOK'
    BY <1>0, <1>4 DEF TeardownRequest, TypeOK
  <2>2. QED
    BY <1>4, <2>1, PlainStep DEF TeardownRequest, Live
<1>5. QED
  BY <1>1, <1>2, <1>3, <1>4 DEF Closing

\* Clients that leave, files that break and time do not, either.
LEMMA EnvironmentInv == ASSUME IInv, Environment \/ Expire PROVE IInv'
<1> USE DEF workersIdle, procVars
<1>0. TypeOK
  BY DEF IInv
<1>1. CASE Expire
  <2>1. TypeOK'
    BY <1>0, <1>1 DEF Expire, TypeOK
  <2>2. QED
    BY <1>1, <2>1, PlainStep DEF Expire, Live, IInv, NothingTornWhileLive
<1>2. CASE EarlyClose
  <2>1. TypeOK'
    BY <1>0, <1>2 DEF EarlyClose, TypeOK
  <2>2. QED
    BY <1>2, <2>1, PlainStep DEF EarlyClose, Live
<1>3. CASE ClientClose
  <2>1. TypeOK'
    BY <1>0, <1>3 DEF ClientClose, TypeOK
  <2>2. QED
    BY <1>3, <2>1, PlainStep DEF ClientClose, Live
<1>4. CASE StreamFault
  BY <1>4, BreakInv DEF StreamFault
<1>5. QED
  BY <1>1, <1>2, <1>3, <1>4 DEF Environment

\* Steps of other requests.
LEMMA StutterInv == ASSUME IInv, UNCHANGED vars PROVE IInv'
<1> USE DEF vars, procVars, workerVars
<1>1. TypeOK'
  BY DEF IInv, TypeOK
<1>2. NothingTornWhileLive' /\ DownloadHasFile' /\ TooLargeIsRoute'
  BY DEF IInv, NothingTornWhileLive, DownloadHasFile, TooLargeIsRoute, Live
<1>3. ChunkIsReady' /\ LiveResultHasFile'
  BY DEF IInv, ChunkIsReady, LiveResultHasFile, Live, InPass, Here, IsReady
<1>4. QED
  BY <1>1, <1>2, <1>3 DEF IInv

\* The invariant is inductive.
LEMMA NextInv == ASSUME IInv, [Next]_vars PROVE IInv'
BY WorkerInv, WaitingInv, StreamingInv, ClosingInv, EnvironmentInv, StutterInv
   DEF Next, Processor, Idle

\* The invariant holds for every federated request.
LEMMA SpecInv == Spec => []IInv
BY InitInv, NextInv, PTL DEF Spec

-----------------------------------------------------------------------------
(* Theorems. *)

\* Type correctness of the processor, its AsyncResults and its tasks.
THEOREM TypeCorrect == Spec => []TypeOK
BY SpecInv, PTL DEF IInv

\* The context lock protects every download of a request in progress.
THEOREM NothingTorn == Spec => []NothingTornWhileLive
BY SpecInv, PTL DEF IInv

\* The processor never opens a file that a teardown, _terminate or an error
\* handler has removed.
THEOREM StreamedFilesExist == Spec => []LiveResultHasFile
BY SpecInv, PTL DEF IInv

-----------------------------------------------------------------------------
(* The status line, what is delivered and what is cached. *)

Dropped == Failures \cup {"TooLarge"}

\* What has left the list was ready, and was streamed, dropped or resubmitted;
\* text gives up instead of resubmitting.
HandledSettled ==
    /\ handled \subseteq Range(results)
    /\ \A t \in handled : IsReady(t) /\ status[t] \in Dropped \cup {"Ok"}
    /\ ~Resubmits => \A t \in handled : status[t] # "TooLarge"

\* The data in the response are those of the results handled with a 200, each
\* once.
HandledStreamed ==
    /\ \A t \in handled : status[t] = "Ok" =>
           \E i \in DOMAIN out : out[i] = <<"data", t>>
    /\ \A i \in DOMAIN out : out[i][1] = "data" =>
           out[i][2] \in handled /\ status[out[i][2]] = "Ok"
    /\ \A i, j \in DOMAIN out : out[i][1] = "data" /\ out[j] = out[i] => i = j

\* The list holds all routes, and an SAA task for those refused with a 413.
SaaReplaces ==
    /\ Routes \subseteq Range(results)
    /\ \A r \in Routes : SaaOf(r) \in Range(results) <=>
                             r \in handled /\ status[r] = "TooLarge"
    /\ \A t \in Range(results) : t \in Routes \/ \E r \in Routes : t = SaaOf(r)

\* The status line is decided once, on results that will not change any more.
AnswerBacked ==
    /\ pc = "wait" <=> answer = 0
    /\ pc = "failed" => answer > 200
    /\ answer > 200 => pc \in {"terminating", "failed"} /\ out = <<>>
    /\ pc \in {"wait", "headers"} => out = <<>>
    /\ answer = 204 => pc = "failed" /\ AllHandled /\ out = <<>> /\ Results({"Torn"}) = {}
    /\ answer = 200 => \E t \in Range(results) : IsReady(t) /\ status[t] = "Ok"

\* The result being streamed is an Ok of the list.
ChunkIsOpen == pc = "chunk" => Here \notin handled /\ status[Here] = "Ok"

\* The cache is written when the stream has ended, which nothing follows.
CachedAtEnd ==
    cached => ~Live /\ ~Resubmits /\ AllHandled /\ Results({"Torn"}) = {}

JInv ==
    /\ HandledSettled
    /\ HandledStreamed
    /\ SaaReplaces
    /\ AnswerBacked
    /\ ChunkIsOpen
    /\ CachedAtEnd

\* Results and handled results are tasks; so is what is under the cursor.
LEMMA ResultsAreTasks ==
    ASSUME IInv
    PROVE  /\ Range(results) \subseteq Tasks /\ handled \subseteq Tasks
           /\ InPass => Here \in Range(results) /\ Here \in Tasks
<1>1. results \in Seq(Tasks) /\ handled \subseteq Tasks /\ cursor \in Nat \ {0}
  BY DEF IInv, TypeOK
<1>2. Range(results) \subseteq Tasks
  BY <1>1 DEF Range
<1>3. InPass => Here \in Range(results)
  BY <1>1 DEF InPass, Here, Range
<1>4. QED
  BY <1>1, <1>2, <1>3

\* Appending adds one element to a sequence's range.
LEMMA RangeOfAppend ==
    ASSUME NEW S, NEW s \in Seq(S), NEW e \in S
    PROVE  Range(Append(s, e)) = Range(s) \cup {e}
<1>1. DOMAIN Append(s, e) = DOMAIN s \cup {Len(s) + 1}
  OBVIOUS
<1>2. \A i \in DOMAIN s : Append(s, e)[i] = s[i]
  OBVIOUS
<1>3. Append(s, e)[Len(s) + 1] = e
  OBVIOUS
<1>4. QED
  BY <1>1, <1>2, <1>3 DEF Range

\* Routes and their SAA tasks are told apart.
LEMMA SaaIsOther ==
    /\ \A r \in Routes : SaaOf(r) \notin Routes
    /\ \A r, q \in Routes : SaaOf(r) = SaaOf(q) => r = q
BY ConstantsAssumption DEF Routes, SaaOf

\* Right after _request.
LEMMA AnswerInit == Init => JInv
<1> SUFFICES ASSUME Init PROVE JInv
  OBVIOUS
<1> USE DEF Init
<1>1. Range(results) = Routes
  BY DEF Range, Routes
<1>2. HandledSettled /\ HandledStreamed /\ ChunkIsOpen /\ CachedAtEnd
  BY DEF HandledSettled, HandledStreamed, ChunkIsOpen, CachedAtEnd
<1>3. SaaReplaces
  BY <1>1, SaaIsOther DEF SaaReplaces
<1>4. AnswerBacked
  BY DEF AnswerBacked
<1>5. QED
  BY <1>2, <1>3, <1>4 DEF JInv

\* A step that handles no result keeps the invariant if results that are ready
\* stay as they are and the processor does not go back.
LEMMA QuietStep ==
    ASSUME IInv, JInv,
           UNCHANGED <<answer, results, handled, out, cached>>,
           \A t \in Tasks : IsReady(t) => IsReady(t)' /\ status'[t] = status[t],
           pc' = "wait" <=> pc = "wait",
           pc' = "headers" => pc = "headers",
           pc' = "failed" => answer > 200,
           pc = "failed" => pc' = "failed",
           answer > 200 => pc' \in {"terminating", "failed"},
           Live' => Live,
           pc' = "chunk" => Here' \notin handled /\ status'[Here'] = "Ok"
    PROVE  JInv'
<1>0. Range(results)' = Range(results)
  OBVIOUS
<1>1. \A t \in handled : t \in Tasks /\ IsReady(t)' /\ status'[t] = status[t]
  BY ResultsAreTasks DEF JInv, HandledSettled
<1>2. HandledSettled'
  BY <1>0, <1>1 DEF JInv, HandledSettled
<1>3. HandledStreamed'
  BY <1>1 DEF JInv, HandledStreamed
<1>4. SaaReplaces'
  BY <1>0, <1>1 DEF JInv, SaaReplaces
<1>5. AllHandled => AllHandled' /\ Results({"Torn"})' = Results({"Torn"})
  BY <1>0, <1>1 DEF AllHandled, Results
<1>6. AnswerBacked'
  <2>1. answer = 200 => \E t \in Range(results) : IsReady(t)' /\ status'[t] = "Ok"
    BY ResultsAreTasks DEF JInv, AnswerBacked
  <2>2. QED
    BY <1>0, <1>5, <2>1 DEF JInv, AnswerBacked
<1>7. ChunkIsOpen'
  BY DEF ChunkIsOpen
<1>8. CachedAtEnd'
  BY <1>5 DEF JInv, CachedAtEnd
<1>9. QED
  BY <1>2, <1>3, <1>4, <1>6, <1>7, <1>8 DEF JInv

\* Workers do not touch results that are ready.
LEMMA WorkerQuiet ==
    ASSUME IInv, Worker
    PROVE  /\ UNCHANGED <<procVars, lock>>
           /\ \A t \in Tasks : IsReady(t) => IsReady(t)' /\ status'[t] = status[t]
<1>1. \A t : \A from \in Stages \ {"ready"} : \A to, code :
          Step(t, from, to, code) =>
              /\ UNCHANGED <<procVars, lock>>
              /\ \A u \in Tasks : IsReady(u) => IsReady(u)' /\ status'[u] = status[u]
  BY DEF Step, IInv, TypeOK, IsReady
<1>2. PICK t, to, code : \E from \in Stages \ {"ready"} : Step(t, from, to, code)
  BY DEF Worker, TaskRefuse, TaskOverBudget, TaskDownload, TaskOk, TaskError,
         SaaError, TaskCrash, GuardExit, Deliver, Stages
<1>3. QED
  BY <1>1, <1>2

\* Workers do not change the answer.
LEMMA AnswerWorker == ASSUME IInv, JInv, Worker PROVE JInv'
<1>1. UNCHANGED <<pc, answer, results, handled, cursor, out, cached>>
  BY WorkerQuiet DEF procVars
<1>2. Here' = Here
  BY <1>1 DEF Here
<1>3. pc = "chunk" => Here \in Tasks /\ Here \notin handled /\ status[Here] = "Ok"
                      /\ IsReady(Here)
  BY ResultsAreTasks DEF IInv, ChunkIsReady, JInv, ChunkIsOpen
<1>4. pc' = "chunk" => Here' \notin handled /\ status'[Here'] = "Ok"
  BY <1>1, <1>2, <1>3, WorkerQuiet
<1>5. pc = "failed" => answer > 200
  BY DEF JInv, AnswerBacked
<1>6. answer > 200 => pc \in {"terminating", "failed"}
  BY DEF JInv, AnswerBacked
<1>7. QED
  BY <1>1, <1>4, <1>5, <1>6, WorkerQuiet, QuietStep DEF Live

\* What is known at a place where the list is walked.
LEMMA Walking ==
    ASSUME IInv, JInv, pc \in {"wait", "stream"}
    PROVE  /\ Live /\ lock /\ ~cached /\ answer \in {0, 200}
           /\ pc = "wait" <=> answer = 0
           /\ \A t \in Tasks : status[t] # "Torn"
<1>1. Live /\ ~cached
  BY DEF Live, JInv, CachedAtEnd
<1>2. answer \in {0, 200, 204, 413}
  BY DEF IInv, TypeOK
<1>3. QED
  BY <1>1, <1>2 DEF IInv, NothingTornWhileLive, JInv, AnswerBacked

\* A failed result leaves the list.
LEMMA AnswerDrop ==
    ASSUME IInv, JInv, pc \in {"wait", "stream"}, DropFailed
    PROVE  JInv'
<1> USE DEF workersIdle
<1>1. /\ Here \in Range(results) /\ Here \notin handled /\ IsReady(Here)
      /\ status[Here] \in Failures /\ handled' = handled \cup {Here}
      /\ UNCHANGED <<pc, answer, results, out, cached, task, status>>
  BY ResultsAreTasks DEF DropFailed, Sees
<1>2. Range(results)' = Range(results)
  BY <1>1
<1>3. HandledSettled'
  BY <1>1, <1>2 DEF JInv, HandledSettled, IsReady, Dropped, Failures
<1>4. HandledStreamed'
  BY <1>1 DEF JInv, HandledStreamed, Failures
<1>5. SaaReplaces'
  BY <1>1, <1>2 DEF JInv, SaaReplaces, Failures
<1>6. AnswerBacked'
  BY <1>1, <1>2, Walking DEF JInv, AnswerBacked, IsReady
<1>7. ChunkIsOpen' /\ CachedAtEnd'
  BY <1>1, Walking DEF ChunkIsOpen, CachedAtEnd
<1>8. QED
  BY <1>3, <1>4, <1>5, <1>6, <1>7 DEF JInv

\* A 413 leaves the list for an SAA task.
LEMMA AnswerResubmit ==
    ASSUME IInv, JInv, pc \in {"wait", "stream"}, Resubmit
    PROVE  JInv'
<1>1. /\ Resubmits /\ InPass /\ Here \in Range(results) /\ Here \notin handled
      /\ IsReady(Here) /\ status[Here] = "TooLarge" /\ handled' = handled \cup {Here}
      /\ results' = Append(results, SaaOf(Here))
      /\ task' = [task EXCEPT ![SaaOf(Here)] = "queued"]
      /\ UNCHANGED <<pc, answer, out, cached, status>>
  BY ResultsAreTasks DEF Resubmit, Sees
<1>2. Here \in Routes /\ SaaOf(Here) \in Tasks
  BY <1>1, ResultsAreTasks, TaskIds DEF IInv, TooLargeIsRoute
<1>3. Range(results') = Range(results) \cup {SaaOf(Here)}
  BY <1>1, <1>2, RangeOfAppend DEF IInv, TypeOK
<1>4. SaaOf(Here) \notin Range(results)
  BY <1>1, <1>2 DEF JInv, SaaReplaces
<1>5. \A t \in Range(results) : task'[t] = task[t]
  BY <1>1, <1>4, ResultsAreTasks DEF IInv, TypeOK
<1>6. HandledSettled'
  <2>1. \A t \in handled \cup {Here} : task'[t] = "ready"
    BY <1>1, <1>5 DEF JInv, HandledSettled, IsReady
  <2>2. QED
    BY <1>1, <1>3, <2>1 DEF JInv, HandledSettled, IsReady, Dropped, Resubmits
<1>7. HandledStreamed'
  BY <1>1 DEF JInv, HandledStreamed
<1>8. SaaReplaces'
  <2>1. \A r \in Routes : SaaOf(r) \in Range(results') <=>
                              r \in handled' /\ status'[r] = "TooLarge"
    <3> SUFFICES ASSUME NEW r \in Routes
                 PROVE  SaaOf(r) \in Range(results') <=>
                            r \in handled' /\ status'[r] = "TooLarge"
      OBVIOUS
    <3>1. SaaOf(r) = SaaOf(Here) <=> r = Here
      BY <1>2, SaaIsOther
    <3>2. QED
      BY <1>1, <1>3, <3>1 DEF JInv, SaaReplaces
  <2>2. \A t \in Range(results') : t \in Routes \/ \E r \in Routes : t = SaaOf(r)
    BY <1>2, <1>3 DEF JInv, SaaReplaces
  <2>3. Routes \subseteq Range(results')
    BY <1>3 DEF JInv, SaaReplaces
  <2>4. QED
    BY <2>1, <2>2, <2>3 DEF SaaReplaces
<1>9. AnswerBacked'
  <2>1. answer = 200 => \E t \in Range(results') : task'[t] = "ready" /\ status'[t] = "Ok"
    BY <1>1, <1>3, <1>5 DEF JInv, AnswerBacked, IsReady
  <2>2. QED
    BY <1>1, <2>1, Walking DEF JInv, AnswerBacked, IsReady
<1>10. ChunkIsOpen' /\ CachedAtEnd'
  BY <1>1, Walking DEF ChunkIsOpen, CachedAtEnd
<1>11. QED
  BY <1>6, <1>7, <1>8, <1>9, <1>10 DEF JInv

\* One result of a pass.
LEMMA AnswerPass ==
    ASSUME IInv, JInv, pc \in {"wait", "stream"}, Skip \/ DropFailed \/ Resubmit
    PROVE  JInv'
<1>1. CASE Skip
  BY <1>1, Walking, QuietStep DEF Skip, workersIdle, IsReady, Live
<1>2. QED
  BY <1>1, AnswerDrop, AnswerResubmit

\* The outcomes of _wait.  Nothing has been streamed, so that what is handled
\* without data has failed.
LEMMA AnswerFail ==
    ASSUME IInv, JInv, pc = "wait", NEW code \in {204, 413}, Fail(code),
           code = 204 => AllHandled
    PROVE  JInv'
<1> USE DEF workersIdle
<1>1. /\ pc' = "failed" /\ answer' = code
      /\ UNCHANGED <<results, handled, out, cached, task, status>>
  BY DEF Fail
<1>2. Range(results)' = Range(results) /\ Results({"Torn"})' = Results({"Torn"})
      /\ (AllHandled' <=> AllHandled)
  BY <1>1 DEF Results, AllHandled
<1>3. Results({"Torn"}) = {}
  BY Walking, ResultsAreTasks DEF Results
<1>4. HandledSettled' /\ HandledStreamed' /\ SaaReplaces'
  BY <1>1, <1>2 DEF JInv, HandledSettled, HandledStreamed, SaaReplaces, IsReady
<1>5. AnswerBacked'
  BY <1>1, <1>2, <1>3, Walking DEF JInv, AnswerBacked
<1>6. ChunkIsOpen' /\ CachedAtEnd'
  BY <1>1, Walking DEF ChunkIsOpen, CachedAtEnd
<1>7. QED
  BY <1>4, <1>5, <1>6 DEF JInv

\* The first data: the response is accepted before any of it is handled.
LEMMA AnswerFound == ASSUME IInv, JInv, WaitFound PROVE JInv'
<1> USE DEF workersIdle
<1>1. /\ pc = "wait" /\ pc' = "headers" /\ answer' = 200
      /\ UNCHANGED <<results, handled, out, cached, task, status>>
      /\ Here \in Range(results) /\ IsReady(Here) /\ status[Here] = "Ok"
  BY ResultsAreTasks DEF WaitFound, Sees
<1>2. Range(results)' = Range(results)
  BY <1>1
<1>3. HandledSettled' /\ HandledStreamed' /\ SaaReplaces'
  BY <1>1, <1>2 DEF JInv, HandledSettled, HandledStreamed, SaaReplaces, IsReady
<1>4. AnswerBacked'
  BY <1>1, <1>2 DEF JInv, AnswerBacked, IsReady
<1>5. ChunkIsOpen' /\ CachedAtEnd'
  BY <1>1, Walking DEF ChunkIsOpen, CachedAtEnd
<1>6. QED
  BY <1>3, <1>4, <1>5 DEF JInv

\* The timeout of _wait answers without data.
LEMMA AnswerTimeout == ASSUME IInv, JInv, WaitTimeout PROVE JInv'
<1> USE DEF workersIdle
<1>1. /\ pc = "wait" /\ pc' = "terminating" /\ answer' = 413
      /\ UNCHANGED <<results, handled, out, cached, task, status>>
  BY DEF WaitTimeout
<1>2. Range(results)' = Range(results)
  BY <1>1
<1>3. HandledSettled' /\ HandledStreamed' /\ SaaReplaces'
  BY <1>1, <1>2 DEF JInv, HandledSettled, HandledStreamed, SaaReplaces, IsReady
<1>4. AnswerBacked'
  BY <1>1 DEF JInv, AnswerBacked
<1>5. ChunkIsOpen' /\ CachedAtEnd'
  BY <1>1, Walking DEF ChunkIsOpen, CachedAtEnd
<1>6. QED
  BY <1>3, <1>4, <1>5 DEF JInv

\* No step of _wait breaks the invariant.
LEMMA AnswerWaiting == ASSUME IInv, JInv, Waiting PROVE JInv'
<1>1. CASE WaitSkip \/ WaitFailed \/ WaitResubmit
  BY <1>1, AnswerPass DEF WaitSkip, WaitFailed, WaitResubmit
<1>2. CASE WaitTooLarge \/ WaitNoData
  BY <1>2, AnswerFail DEF WaitTooLarge, WaitNoData
<1>3. CASE WaitAgain
  BY <1>3, Walking, QuietStep DEF WaitAgain, workersIdle, IsReady, Live
<1>4. QED
  BY <1>1, <1>2, <1>3, AnswerFound, AnswerTimeout DEF Waiting

\* Headers, separators and footers are no data.
LEMMA NoDataAdded ==
    ASSUME JInv, UNCHANGED <<handled, status>>,
           \A i \in DOMAIN out : i \in DOMAIN out' /\ out'[i] = out[i],
           \A i \in DOMAIN out' \ DOMAIN out : out'[i][1] # "data"
    PROVE  HandledStreamed'
BY DEF JInv, HandledStreamed

\* What precedes a payload is no data.
LEMMA AnswerOpenFile == ASSUME IInv, JInv, OpenFile PROVE JInv'
<1> USE DEF workersIdle
<1>1. /\ pc = "stream" /\ pc' = "chunk" /\ out' = out \o Lead
      /\ UNCHANGED <<answer, results, handled, cursor, cached, task, status>>
      /\ Here \notin handled /\ status[Here] = "Ok"
  BY DEF OpenFile, Sees
<1>2. \/ Lead = <<>>
      \/ \E c \in {"sep", "head"} : Lead = << <<c, 0>> >>
  BY DEF Lead
<1>3. HandledStreamed'
  <2>1. out \in Seq(Items)
    BY DEF IInv, TypeOK
  <2>2. \A i \in DOMAIN out : i \in DOMAIN out' /\ out'[i] = out[i]
    BY <1>1, <1>2, <2>1
  <2>3. \A i \in DOMAIN out' \ DOMAIN out : out'[i][1] # "data"
    BY <1>1, <1>2, <2>1
  <2>4. QED
    BY <1>1, <2>2, <2>3, NoDataAdded
<1>4. HandledSettled' /\ SaaReplaces'
  BY <1>1 DEF JInv, HandledSettled, SaaReplaces, IsReady
<1>5. AnswerBacked'
  BY <1>1, Walking DEF JInv, AnswerBacked, IsReady
<1>6. ChunkIsOpen' /\ CachedAtEnd'
  BY <1>1, Walking DEF ChunkIsOpen, CachedAtEnd, Here
<1>7. QED
  BY <1>3, <1>4, <1>5, <1>6 DEF JInv

\* A file is streamed: no position of the response has its data yet.
LEMMA AnswerFinish ==
    ASSUME IInv, JInv, NEW n \in Sizes, FinishFile(n)
    PROVE  JInv'
<1> USE DEF workersIdle
<1>1. /\ pc = "chunk" /\ pc' = "stream" /\ out' = Append(out, <<"data", Here>>)
      /\ handled' = handled \cup {Here}
      /\ UNCHANGED <<answer, results, cached, task, status>>
  BY DEF FinishFile
<1>2. /\ Here \in Range(results) /\ Here \in Tasks /\ IsReady(Here)
      /\ Here \notin handled /\ status[Here] = "Ok"
  BY <1>1, ResultsAreTasks DEF IInv, ChunkIsReady, JInv, ChunkIsOpen
<1>3. HandledSettled'
  BY <1>1, <1>2 DEF JInv, HandledSettled, IsReady
<1>4. HandledStreamed'
  <2>1. /\ DOMAIN out' = DOMAIN out \cup {Len(out) + 1}
        /\ Len(out) + 1 \notin DOMAIN out
        /\ \A i \in DOMAIN out : out'[i] = out[i]
        /\ out'[Len(out) + 1] = <<"data", Here>>
    BY <1>1, <1>2 DEF IInv, TypeOK, Items
  <2>2. \A i \in DOMAIN out : out[i] # <<"data", Here>>
    BY <1>2 DEF JInv, HandledStreamed
  <2>3. \A i, j \in DOMAIN out' : out'[i][1] = "data" /\ out'[j] = out'[i] => i = j
    BY <2>1, <2>2 DEF JInv, HandledStreamed
  <2>4. \A i \in DOMAIN out' : out'[i][1] = "data" =>
            out'[i][2] \in handled' /\ status[out'[i][2]] = "Ok"
    BY <1>1, <1>2, <2>1 DEF JInv, HandledStreamed
  <2>5. \A t \in handled' : status[t] = "Ok" =>
            \E i \in DOMAIN out' : out'[i] = <<"data", t>>
    BY <1>1, <2>1 DEF JInv, HandledStreamed
  <2>6. QED
    BY <1>1, <2>3, <2>4, <2>5 DEF HandledStreamed
<1>5. SaaReplaces'
  BY <1>1, <1>2 DEF JInv, SaaReplaces
<1>6. answer \notin {0, 204, 413}
  BY <1>1 DEF JInv, AnswerBacked
<1>7. AnswerBacked'
  BY <1>1, <1>6 DEF JInv, AnswerBacked, IsReady, IInv, TypeOK
<1>8. ChunkIsOpen' /\ CachedAtEnd'
  BY <1>1 DEF ChunkIsOpen, JInv, CachedAtEnd, Live
<1>9. QED
  BY <1>3, <1>4, <1>5, <1>7, <1>8 DEF JInv

\* Nor is the end of the JSON list.
LEMMA AnswerFoot == ASSUME IInv, JInv, StreamFoot PROVE JInv'
<1> USE DEF workersIdle
<1>1. /\ pc = "stream" /\ pc' = "foot" /\ out' = Append(out, <<"foot", 0>>)
      /\ UNCHANGED <<answer, results, handled, cached, task, status>>
  BY DEF StreamFoot
<1>2. HandledStreamed'
  <2>1. out \in Seq(Items)
    BY DEF IInv, TypeOK
  <2>2. /\ \A i \in DOMAIN out : i \in DOMAIN out' /\ out'[i] = out[i]
        /\ \A i \in DOMAIN out' \ DOMAIN out : out'[i] = <<"foot", 0>>
    BY <1>1, <2>1
  <2>3. QED
    BY <1>1, <2>2, NoDataAdded
<1>3. HandledSettled' /\ SaaReplaces'
  BY <1>1 DEF JInv, HandledSettled, SaaReplaces, IsReady
<1>4. AnswerBacked'
  BY <1>1, Walking DEF JInv, AnswerBacked, IsReady
<1>5. ChunkIsOpen' /\ CachedAtEnd'
  BY <1>1, Walking DEF ChunkIsOpen, CachedAtEnd
<1>6. QED
  BY <1>2, <1>3, <1>4, <1>5 DEF JInv

\* The end of the stream, with which the response is cached.
LEMMA AnswerEnd == ASSUME IInv, JInv, StreamEnd PROVE JInv'
<1> USE DEF workersIdle
<1>1. /\ pc \in {"stream", "foot"} /\ pc' = "closing"
      /\ cached' = Caches /\ (Caches => pc = "stream" /\ AllHandled)
      /\ UNCHANGED <<answer, results, handled, out, task, status>>
  BY DEF StreamEnd, Caches
<1>2. HandledSettled' /\ HandledStreamed' /\ SaaReplaces'
  BY <1>1 DEF JInv, HandledSettled, HandledStreamed, SaaReplaces, IsReady
<1>3. AnswerBacked'
  BY <1>1 DEF JInv, AnswerBacked, IsReady, IInv, TypeOK
<1>4. Caches => ~Resubmits /\ Results({"Torn"}) = {}
  BY <1>1, Walking, ResultsAreTasks DEF Caches, Resubmits, Results
<1>5. CachedAtEnd'
  BY <1>1, <1>4 DEF CachedAtEnd, Live, AllHandled, Results
<1>6. ChunkIsOpen'
  BY <1>1 DEF ChunkIsOpen
<1>7. QED
  BY <1>2, <1>3, <1>5, <1>6 DEF JInv

\* No step of __iter__ breaks the invariant.
LEMMA AnswerStreaming == ASSUME IInv, JInv, Streaming PROVE JInv'
<1>1. CASE Begin
  <2>1. answer \notin {204, 413}
    BY <1>1 DEF Begin, JInv, AnswerBacked
  <2>2. QED
    BY <1>1, <2>1, QuietStep DEF Begin, workersIdle, IsReady, Live, IInv, TypeOK
<1>2. CASE StreamSkip \/ StreamFailed \/ StreamResubmit
  BY <1>2, AnswerPass DEF StreamSkip, StreamFailed, StreamResubmit
<1>3. CASE StreamAgain
  BY <1>3, Walking, QuietStep DEF StreamAgain, workersIdle, IsReady, Live
<1>4. CASE StreamTooLarge
  BY <1>4, Walking, QuietStep DEF StreamTooLarge, Break, workersIdle, IsReady, Live
<1>5. ASSUME NEW n \in Sizes, FinishFile(n) PROVE JInv'
  BY <1>5, AnswerFinish
<1>6. QED
  BY <1>1, <1>2, <1>3, <1>4, <1>5, AnswerOpenFile, AnswerFoot, AnswerEnd DEF Streaming

\* After the response nothing of it changes.
LEMMA AnswerClosing ==
    ASSUME IInv, JInv, Closing \/ Environment \/ Expire \/ UNCHANGED vars
    PROVE  JInv'
<1>1. UNCHANGED <<answer, results, handled, out, cached, task, status>>
  BY DEF Closing, Terminate, TerminateJoin, CallOnClose, Closed, TeardownRequest,
         Environment, EarlyClose, ClientClose, StreamFault, Break, Expire, vars,
         procVars, workerVars, workersIdle
<1>2. answer > 200 => pc \in {"terminating", "failed"}
  BY DEF JInv, AnswerBacked
<1>3. pc = "failed" => answer > 200
  BY DEF JInv, AnswerBacked
<1>4. CASE Closing
  <2>1. /\ ~Live /\ ~Live'
        /\ pc' = "failed" => answer > 200
        /\ pc = "failed" => pc' = "failed"
        /\ answer > 200 => pc' \in {"terminating", "failed"}
        /\ pc # "wait" /\ pc' \notin {"wait", "headers", "chunk"}
    <3> USE DEF Live
    <3>1. CASE Terminate
      BY <3>1 DEF Terminate, IInv, TypeOK, JInv, AnswerBacked
    <3>2. CASE TerminateJoin \/ CallOnClose \/ Closed
      BY <1>2, <3>2 DEF TerminateJoin, CallOnClose, Closed
    <3>3. CASE TeardownRequest
      BY <1>2, <1>3, <3>3 DEF TeardownRequest, procVars
    <3>4. QED
      BY <1>4, <3>1, <3>2, <3>3 DEF Closing
  <2>2. QED
    BY <1>1, <2>1, QuietStep DEF IsReady
<1>5. CASE Environment
  BY <1>1, <1>2, <1>5, QuietStep
     DEF Environment, EarlyClose, ClientClose, StreamFault, Break, IsReady, Live
<1>6. CASE Expire \/ UNCHANGED vars
  <2>1. UNCHANGED <<pc, cursor>>
    BY <1>6 DEF Expire, vars, procVars
  <2>2. Here' = Here
    BY <1>1, <2>1 DEF Here
  <2>3. pc' = "chunk" => Here' \notin handled /\ status'[Here'] = "Ok"
    BY <1>1, <2>1, <2>2 DEF JInv, ChunkIsOpen
  <2>4. QED
    BY <1>1, <1>2, <1>3, <2>1, <2>3, QuietStep DEF IsReady, Live
<1>7. QED
  BY <1>4, <1>5, <1>6

\* The invariant holds for every federated request.
LEMMA AnswerInv == Spec => []JInv
<1>1. IInv /\ JInv /\ [Next]_vars => JInv'
  BY AnswerWorker, AnswerWaiting, AnswerStreaming, AnswerClosing
     DEF Next, Processor, Idle
<1>2. QED
  BY <1>1, AnswerInit, SpecInv, PTL DEF Spec

-----------------------------------------------------------------------------
(* Theorems. *)

\* "No data" is said only when every endpoint has failed, and a response that
\* completes has data.
THEOREM AnswersAreTrue == Spec => []AnswerIsTrue
<1>1. ASSUME IInv, JInv PROVE AnswerIsTrue
  <2>1. answer = 204 => Results({"none", "Ok", "Torn"}) = {}
    <3> SUFFICES ASSUME answer = 204, NEW t \in Results({"none", "Ok"}) PROVE FALSE
      BY <1>1 DEF JInv, AnswerBacked, Results
    <3>1. t \in handled /\ status[t] \in {"none", "Ok"}
      BY <1>1 DEF JInv, AnswerBacked, AllHandled, Results
    <3>2. status[t] = "Ok"
      BY <1>1, <3>1 DEF JInv, HandledSettled, Dropped, Failures
    <3>3. out # <<>>
      BY <1>1, <3>1, <3>2 DEF JInv, HandledStreamed
    <3>4. QED
      BY <1>1, <3>3 DEF JInv, AnswerBacked
  <2>2. Delivered => \E i \in DOMAIN out : out[i][1] = "data"
    <3> SUFFICES ASSUME Delivered PROVE \E i \in DOMAIN out : out[i][1] = "data"
      OBVIOUS
    <3>1. PICK t \in handled : status[t] = "Ok"
      BY <1>1 DEF Delivered, AllHandled, JInv, AnswerBacked
    <3>2. PICK i \in DOMAIN out : out[i] = <<"data", t>>
      BY <1>1, <3>1 DEF JInv, HandledStreamed
    <3>3. QED
      BY <3>2
  <2>3. QED
    BY <2>1, <2>2 DEF AnswerIsTrue
<1>2. QED
  BY <1>1, SpecInv, AnswerInv, PTL

\* What is cached holds the data of every result with a 200, and nothing was
\* torn down or refused on the way.
THEOREM CacheIsWhole == Spec => []CachedOnlyWhole
<1>1. ASSUME JInv PROVE CachedOnlyWhole
  BY <1>1 DEF JInv, CachedAtEnd, CachedOnlyWhole, HandledSettled, HandledStreamed,
              AllHandled, Results
<1>2. QED
  BY <1>1, AnswerInv, PTL

\* With one stream epoch per route (granular requests; bulk requests lose
\* epochs with a 413) every epoch is in the response once, or its download or
\* its SAA task has failed.
THEOREM GranularEpochsOnce ==
    ASSUME EpochsPerRoute = 1
    PROVE  Spec => []EachEpochOnce
<1>1. ASSUME IInv, JInv PROVE EachEpochOnce
  <2> SUFFICES ASSUME NEW r \in Routes, NEW e \in {r} \X (1 .. EpochsPerRoute)
               PROVE  /\ Cardinality(Covering(e)) <= 1
                      /\ Delivered => \/ Covering(e) # {}
                                      \/ FailedTask(r) \/ FailedTask(SaaOf(r))
    BY DEF EachEpochOnce
  <2>1. e = <<r, 1>>
    OBVIOUS
  <2>2. \A t \in Tasks : e \in Epochs(t) <=> t = r \/ t = SaaOf(r)
    BY <2>1, ConstantsAssumption DEF Epochs, Routes, Tasks, SaaOf
  <2>3. \A i \in Covering(e) :
           /\ i \in DOMAIN out /\ out[i][1] = "data"
           /\ out[i][2] \in handled /\ status[out[i][2]] = "Ok"
           /\ out[i] = <<"data", out[i][2]>> /\ out[i][2] \in {r, SaaOf(r)}
    <3> SUFFICES ASSUME NEW i \in Covering(e)
                 PROVE  /\ i \in DOMAIN out /\ out[i][1] = "data"
                        /\ out[i][2] \in handled /\ status[out[i][2]] = "Ok"
                        /\ out[i] = <<"data", out[i][2]>> /\ out[i][2] \in {r, SaaOf(r)}
      OBVIOUS
    <3>1. i \in DOMAIN out /\ out[i][1] = "data" /\ e \in Epochs(out[i][2])
      BY DEF Covering
    <3>2. out[i][2] \in handled /\ status[out[i][2]] = "Ok"
      BY <1>1, <3>1 DEF JInv, HandledStreamed
    <3>3. out[i] \in Items
      BY <1>1, <3>1 DEF IInv, TypeOK
    <3>4. out[i] = <<"data", out[i][2]>>
      BY <3>1, <3>3 DEF Items
    <3>5. QED
      BY <1>1, <2>2, <3>1, <3>2, <3>4, ResultsAreTasks
  <2>4. \A i, j \in Covering(e) : i = j
    <3> SUFFICES ASSUME NEW i \in Covering(e), NEW j \in Covering(e) PROVE i = j
      OBVIOUS
    <3>1. out[i][2] = out[j][2]
      <4>1. ~(r \in handled /\ status[r] = "Ok" /\ SaaOf(r) \in handled)
        BY <1>1 DEF JInv, SaaReplaces, HandledSettled
      <4>2. QED
        BY <2>3, <4>1
    <3>2. QED
      BY <1>1, <2>3, <3>1 DEF JInv, HandledStreamed
  <2>5. Cardinality(Covering(e)) <= 1
    <3> DEFINE C == Covering(e)
    <3>1. CASE C = {}
      BY <3>1, FS_EmptySet
    <3>2. CASE C # {}
      <4>1. PICK i \in C : TRUE
        BY <3>2
      <4>2. C = {i}
        BY <2>4, <4>1
      <4> HIDE DEF C
      <4>3. Cardinality(C) = 1
        BY <4>2, FS_Singleton
      <4>4. QED
        BY <4>3 DEF C
    <3>3. QED
      BY <3>1, <3>2
  <2>6. ASSUME Delivered PROVE Covering(e) # {} \/ FailedTask(r) \/ FailedTask(SaaOf(r))
    <3>1. \A t \in handled : t \in {r, SaaOf(r)} /\ status[t] = "Ok" => Covering(e) # {}
      <4> SUFFICES ASSUME NEW t \in handled, t \in {r, SaaOf(r)}, status[t] = "Ok"
                   PROVE  Covering(e) # {}
        OBVIOUS
      <4>1. PICK i \in DOMAIN out : out[i] = <<"data", t>>
        BY <1>1 DEF JInv, HandledStreamed
      <4>2. e \in Epochs(t)
        BY <1>1, <2>2, ResultsAreTasks
      <4>3. QED
        BY <4>1, <4>2 DEF Covering
    <3>2. r \in handled
      BY <1>1, <2>6 DEF Delivered, AllHandled, JInv, SaaReplaces
    <3>3. CASE status[r] = "TooLarge"
      <4>1. SaaOf(r) \in handled
        BY <1>1, <2>6, <3>2, <3>3 DEF Delivered, AllHandled, JInv, SaaReplaces
      <4>2. status[SaaOf(r)] # "TooLarge"
        BY <1>1, <4>1, SaaIsOther, ResultsAreTasks DEF IInv, TooLargeIsRoute
      <4>3. QED
        BY <1>1, <3>1, <4>1, <4>2 DEF JInv, HandledSettled, Dropped, FailedTask
    <3>4. CASE status[r] # "TooLarge"
      BY <1>1, <3>1, <3>2, <3>4 DEF JInv, HandledSettled, Dropped, FailedTask
    <3>5. QED
      BY <3>3, <3>4
  <2>7. QED
    BY <2>5, <2>6
<1>2. QED
  BY <1>1, SpecInv, AnswerInv, PTL

=============================================================================
