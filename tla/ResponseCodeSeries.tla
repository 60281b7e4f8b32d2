--------------------------- MODULE ResponseCodeSeries ---------------------------
(***************************************************************************)
(* The response code time series of one endpoint (federator/server/        *)
(* stats.py), a redis sorted set shared by the worker threads of all       *)
(* federator processes, and the client retry budget they base on it        *)
(* (mixin.py, task.py).  Appending is an optimistic redis transaction:     *)
(* WATCH, ZCOUNT, then MULTI ... EXEC, which redis refuses if the key has  *)
(* changed since WATCH.  The members of the sorted set are ordered by the  *)
(* time of their transaction, so that the set is a sequence.               *)
(***************************************************************************)
EXTENDS Integers, Sequences, FiniteSets

CONSTANTS
    Clients,    \* tasks that talk to this endpoint at the same time
    Aligners,   \* those of them that split and align
    Window,     \* window_size
    Ttl,        \* ttl, in ticks
    Budget,     \* retry_budget_client, in percent
    MaxSplits,  \* bound: requests of one task answered with 413 and split
    MaxLost     \* bound: replies to EXEC that one task loses

ASSUME ConstantsAssumption ==
    /\ IsFiniteSet(Clients)
    /\ Aligners \subseteq Clients
    /\ Window \in Nat \ {0}
    /\ Ttl \in Nat
    /\ Budget \in 0 .. 100
    /\ MaxSplits \in Nat
    /\ MaxLost \in Nat

VARIABLES
    series,     \* the sorted set, oldest entry first
    pc,         \* where each client is
    level,      \* its calls of _run on the stack (a download has one)
    firsts,     \* those of them that are at the first half of their epoch
    code,       \* the response code a client has to record
    then,       \* what follows once it is recorded
    num,        \* num_items as a client has counted them
    dirty,      \* the key has changed since the client's WATCH
    splits,     \* 413 answers the task has split upon
    lost,       \* history: replies to EXEC the task has lost
    overrun     \* history: what the task has recorded beyond the budget

stackVars == <<level, firsts, splits>>
transVars == <<num, dirty, lost>>
vars == <<series, pc, stackVars, code, then, transVars, overrun>>

Series == INSTANCE BoundedSeries WITH
              series <- series, Window <- Window, Ttl <- Ttl

\* Mutant: _data without the ttl.
CountedAll == 1 .. Len(series)

\* error_ratio looks at the entries not older than ttl.
Counted     == {i \in 1 .. Len(series) : series[i].age <= Ttl}
Errors      == {i \in Counted : series[i].code = "error"}
\* 100 * errors / n > Budget, with integers: n entries tolerate so many errors.
Tolerated   == [n \in 0 .. (Window + Cardinality(Clients)) |-> (Budget * n) \div 100]
Exceeded    == Cardinality(Errors) > Tolerated[Cardinality(Counted)]

\* The history variable follows the steps of the series: the entries of
\* "recorder" (a set of at most one client) since the budget is exceeded.
Track(recorder) ==
    overrun' = [c \in Clients |->
                  IF ~Exceeded' THEN 0
                  ELSE IF c \in recorder /\ Exceeded THEN overrun[c] + 1
                  ELSE overrun[c]]

Goto(c, from, to) == pc[c] = from /\ pc' = [pc EXCEPT ![c] = to]

\* Any write to the key invalidates the transactions that watch it.
Touch == dirty' = [c \in Clients |-> pc'[c] \in {"watching", "counted"}]

\* The client has r to record and goes on with t.
Record(c, r, t) ==
    /\ code' = [code EXCEPT ![c] = r]
    /\ then' = [then EXCEPT ![c] = t]

Init ==
    /\ series = <<>>
    /\ pc = [c \in Clients |-> "idle"]
    /\ level = [c \in Clients |-> 0]
    /\ firsts = [c \in Clients |-> {}]
    /\ code = [c \in Clients |-> "none"]
    /\ then = [c \in Clients |-> "none"]
    /\ num = [c \in Clients |-> 0]
    /\ dirty = [c \in Clients |-> FALSE]
    /\ splits = [c \in Clients |-> 0]
    /\ lost = [c \in Clients |-> 0]
    /\ overrun = [c \in Clients |-> 0]

-----------------------------------------------------------------------------
(* The task.  _run of an SAA task asks for the two halves of its epoch, one  *)
(* after the other, and calls itself for a half that is refused with 413.    *)

\* The call on top of the stack is over.  Its caller, if any, has been handling
\* a 413: the finally clause records it again, whatever the call returned (t =
\* "next") or raised (t = "raise").
Leave(c, t) ==
    /\ level' = [level EXCEPT ![c] = @ - 1]
    /\ firsts' = [firsts EXCEPT ![c] = @ \ {level[c]}]
    /\ UNCHANGED splits
    /\ IF level[c] = 1
       THEN /\ pc' = [pc EXCEPT ![c] = "idle"]
            /\ Record(c, "none", "none")
       ELSE /\ pc' = [pc EXCEPT ![c] = "append"]
            /\ Record(c, "fine", t)

\* The code is recorded.
Continue(c) ==
    \/ /\ then[c] = "next" /\ level[c] \in firsts[c]
       /\ pc' = [pc EXCEPT ![c] = "request"]
       /\ firsts' = [firsts EXCEPT ![c] = @ \ {level[c]}]
       /\ Record(c, "none", "none")
       /\ UNCHANGED <<level, splits>>
    \/ /\ then[c] = "next" /\ level[c] \notin firsts[c]
       /\ Leave(c, "next")
    \/ /\ then[c] = "leave"
       /\ Leave(c, "next")
    \/ /\ then[c] = "raise"
       /\ Leave(c, "raise")
    \/ /\ then[c] = "nest"
       /\ pc' = [pc EXCEPT ![c] = "request"]
       /\ level' = [level EXCEPT ![c] = @ + 1]
       /\ firsts' = [firsts EXCEPT ![c] = @ \cup {level[c] + 1}]
       /\ Record(c, "none", "none")
       /\ UNCHANGED splits

\* Mutant: the retry budget is not validated.
BeginAlways(c) ==
    /\ Goto(c, "idle", "request")
    /\ level' = [level EXCEPT ![c] = 1]
    /\ firsts' = [firsts EXCEPT ![c] = IF c \in Aligners THEN {1} ELSE {}]
    /\ splits' = [splits EXCEPT ![c] = 0]
    /\ lost' = [lost EXCEPT ![c] = 0]
    /\ UNCHANGED <<series, code, then, num, dirty, overrun>>

\* with_client_retry_budget_validation lets the task begin, once for all its
\* requests.
Begin(c) ==
    /\ ~Exceeded
    /\ Goto(c, "idle", "request")
    /\ level' = [level EXCEPT ![c] = 1]
    /\ firsts' = [firsts EXCEPT ![c] = IF c \in Aligners THEN {1} ELSE {}]
    /\ splits' = [splits EXCEPT ![c] = 0]
    /\ lost' = [lost EXCEPT ![c] = 0]
    /\ UNCHANGED <<series, code, then, num, dirty, overrun>>

\* Mutant: no connection, yet a code is recorded.
NoResponseRecorded(c) ==
    /\ Goto(c, "request", "append")
    /\ then' = [then EXCEPT ![c] = "raise"]
    /\ UNCHANGED <<series, stackVars, code, transVars, overrun>>

\* No connection could be established: there is no code to record, and an SAA
\* task raises (_handle_error looks at the response).  So does one that cannot
\* read the answer or write the file at its first half: code is unbound.
NoResponse(c) ==
    /\ pc[c] = "request"
    /\ Leave(c, "raise")
    /\ UNCHANGED <<series, transVars, overrun>>

\* The answer is complete: an SAA task goes on with its next half.
Answered(c) ==
    /\ Goto(c, "request", "append")
    /\ Record(c, "fine", "next")
    /\ UNCHANGED <<series, stackVars, transVars, overrun>>

\* Any other response ends the call: ERROR_CODES and others (a download does
\* not split, so that 413 is one of them).
Refused(c) ==
    /\ Goto(c, "request", "append")
    /\ \E r \in Series!Codes : Record(c, r, "leave")
    /\ UNCHANGED <<series, stackVars, transVars, overrun>>

\* 413: an SAA task records it and splits the epoch of the request.
TooLarge(c) ==
    /\ c \in Aligners
    /\ splits[c] < MaxSplits
    /\ Goto(c, "request", "append")
    /\ splits' = [splits EXCEPT ![c] = @ + 1]
    /\ Record(c, "fine", "nest")
    /\ UNCHANGED <<series, level, firsts, transVars, overrun>>

\* The answer cannot be read or written at the second half: the code of the
\* first half (200 or 413) is recorded before the exception goes on.
Broken(c) ==
    /\ c \in Aligners
    /\ level[c] \notin firsts[c]
    /\ Goto(c, "request", "append")
    /\ Record(c, "fine", "raise")
    /\ UNCHANGED <<series, stackVars, transVars, overrun>>

-----------------------------------------------------------------------------
(* The transaction of append. *)

\* The key is watched ...
Watch(c) ==
    /\ Goto(c, "append", "watching")
    /\ dirty' = [dirty EXCEPT ![c] = FALSE]
    /\ UNCHANGED <<series, stackVars, code, then, num, lost, overrun>>

\* ... and its members are counted.
Count(c) ==
    /\ Goto(c, "watching", "counted")
    /\ num' = [num EXCEPT ![c] = Len(series)]
    /\ UNCHANGED <<series, stackVars, code, then, dirty, lost, overrun>>

\* Mutant: off by one.
RemovedOff(n) == IF n >= Window THEN n - Window ELSE 0

\* ZREMRANGEBYRANK key 0 idx, if the window is full, and ZADD.
Removed(n) == IF n >= Window THEN n - Window + 1 ELSE 0
Appended(n, r) ==
    Append(SubSeq(series, Removed(n) + 1, Len(series)), [code |-> r, age |-> 0])

\* Mutant: EXEC without WATCH.
ExecUnwatched(c) ==
    /\ pc[c] = "counted"
    /\ series' = Appended(num[c], code[c])
    /\ Continue(c)
    /\ num' = [num EXCEPT ![c] = 0]
    /\ Touch
    /\ Track({c})
    /\ UNCHANGED lost

\* EXEC is accepted: the task goes on.
Exec(c) ==
    /\ pc[c] = "counted" /\ ~dirty[c]
    /\ series' = Appended(num[c], code[c])
    /\ Continue(c)
    /\ num' = [num EXCEPT ![c] = 0]
    /\ Touch
    /\ Track({c})
    /\ UNCHANGED lost

\* EXEC is accepted, but the connection breaks before the reply.  While keys
\* are watched redis-py takes that for a WatchError: append tries again, and
\* the code is recorded twice.
ExecLost(c) ==
    /\ lost[c] < MaxLost
    /\ ~dirty[c]
    /\ Goto(c, "counted", "append")
    /\ series' = Appended(num[c], code[c])
    /\ num' = [num EXCEPT ![c] = 0]
    /\ lost' = [lost EXCEPT ![c] = @ + 1]
    /\ Touch
    /\ Track({c})
    /\ UNCHANGED <<stackVars, code, then>>

\* EXEC is refused: the whole transaction is tried again.
Retry(c) ==
    /\ dirty[c]
    /\ Goto(c, "counted", "append")
    /\ dirty' = [dirty EXCEPT ![c] = FALSE]
    /\ num' = [num EXCEPT ![c] = 0]
    /\ UNCHANGED <<series, stackVars, code, then, lost, overrun>>

\* Redis is out of reach: append raises.  After a 413 it is called again by the
\* finally clause, in any other case it has been called there.
Abort(c) ==
    /\ pc[c] \in {"append", "watching", "counted"}
    /\ dirty' = [dirty EXCEPT ![c] = FALSE]
    /\ num' = [num EXCEPT ![c] = 0]
    /\ IF then[c] = "nest"
       THEN /\ pc' = [pc EXCEPT ![c] = "append"]
            /\ Record(c, "fine", "raise")
            /\ UNCHANGED stackVars
       ELSE Leave(c, "raise")
    /\ UNCHANGED <<series, lost, overrun>>

\* gc, when any processor's response is closed: ZREMRANGEBYSCORE.
Gc ==
    LET Kept == {i \in 1 .. Len(series) : series[i].age < Ttl} IN
    /\ Cardinality(Kept) < Len(series)
    /\ series' = Series!Youngest(series, Cardinality(Kept))
    /\ UNCHANGED <<pc, stackVars, code, then, num, lost>>
    /\ Touch
    /\ Track({})

\* Time passes; no write to the key.
Tick ==
    /\ series' = Series!Older(series)
    /\ series' # series
    /\ Track({})
    /\ UNCHANGED <<pc, stackVars, code, then, transVars>>

ClientStep(c) ==
    \/ Begin(c) \/ NoResponse(c) \/ Answered(c) \/ Refused(c) \/ TooLarge(c)
    \/ Broken(c) \/ Watch(c) \/ Count(c) \/ Exec(c) \/ ExecLost(c)
    \/ Retry(c) \/ Abort(c)

Next == Gc \/ Tick \/ \E c \in Clients : ClientStep(c)

Spec == Init /\ [][Next]_vars

\* Time passes; nobody has to request, to record or to collect garbage.
FairSpec == Spec /\ WF_vars(Tick)

-----------------------------------------------------------------------------
(* Properties. *)

\* Every variable keeps its type; codes of failed connections never get in.
TypeOK ==
    /\ series \in Seq(Series!Entries)
    /\ pc \in [Clients -> {"idle", "request", "append", "watching", "counted"}]
    /\ level \in [Clients -> Nat]
    /\ firsts \in [Clients -> SUBSET Nat]
    /\ \A c \in Clients : firsts[c] \subseteq 1 .. level[c]
    /\ code \in [Clients -> Series!Codes \cup {"none"}]
    /\ then \in [Clients -> {"none", "next", "leave", "nest", "raise"}]
    /\ num \in [Clients -> Nat]
    /\ dirty \in [Clients -> BOOLEAN]
    /\ splits \in [Clients -> Nat]
    /\ lost \in [Clients -> Nat]
    /\ overrun \in [Clients -> Nat]
    /\ \A c \in Clients : pc[c] \in {"append", "watching", "counted"}
                            => code[c] # "none" /\ then[c] # "none"

\* window_size holds however many clients append concurrently.
WindowBound == Len(series) <= Window

\* Once the error ratio exceeds the retry budget, a task under way still
\* records so much and no more: a download one code; an SAA task, which has
\* validated the budget once, one for each half of its epoch and three more for
\* each 413 (the 413 a second time, and the halves of that half); and a code
\* once more for each reply of redis that is lost.
OverrunBounded ==
    \A c \in Clients :
        overrun[c] <= lost[c] + IF c \in Aligners THEN 2 + 3 * splits[c] ELSE 1

\* Optimistic transactions implement atomic appends to a bounded series.
Bounded == Series!Spec

\* An exceeded retry budget does not last: the entries it is based on expire,
\* and requests are forwarded to the endpoint again.
Recovers == Exceeded ~> ~Exceeded

=============================================================================
