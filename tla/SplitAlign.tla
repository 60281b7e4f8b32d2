------------------------------- MODULE SplitAlign -------------------------------
(***************************************************************************)
(* WFCatalogSplitAndAlignTask (federator/server/task.py): an epoch an      *)
(* endpoint refused with 413 is split in two, the halves are requested one *)
(* after the other, a half that is refused again is split by a nested      *)
(* call, and the JSON lists received are aligned in one file.              *)
(*                                                                         *)
(* Time runs from 0 to Span.  A JSON object of the catalog describes two   *)
(* units of time, so that splitting may cut an object, which both halves   *)
(* then return.                                                            *)
(***************************************************************************)
EXTENDS Integers, Sequences, SequencesExt

CONSTANTS
    Span,        \* duration of the stream epoch of the task
    MaxDepth,    \* nested calls of _run the Python stack has room for
    EmptyLists   \* endpoints answer 200 and [] where they have no object

ASSUME ConstantsAssumption ==
    /\ Span \in Nat \ {0}
    /\ MaxDepth \in Nat \ {0}
    /\ EmptyLists \in BOOLEAN

Epochs  == {e \in (0 .. Span) \X (0 .. Span) : e[1] < e[2]}
Objects == 0 .. ((Span - 1) \div 2)
None    == -1

Start == <<"start", 0>>
End   == <<"end", 0>>
Sep   == <<"sep", 0>>
Obj(k) == <<"obj", k>>

VARIABLES
    catalog,     \* the objects the endpoint has
    stack,       \* active calls of _run: the epochs left to their loops
    epochs,      \* self._stream_epochs
    lastObj,     \* self._last_obj
    file,        \* what the temporary file holds
    rest,        \* objects of the response that ijson has not read yet
    pc           \* "request", "dump", "after", or the result: "ok", "none", "error"

vars == <<catalog, stack, epochs, lastObj, file, rest, pc>>

\* Mutant: the second half begins one unit late.
SliceGap(e) == LET mid == (e[1] + e[2]) \div 2 IN
    IF mid = e[1] THEN <<e>> ELSE << <<e[1], mid>>, <<mid + 1, e[2]>> >>

\* StreamEpoch.slice(num=2): too short an epoch is returned as it is.
Slice(e) == LET mid == (e[1] + e[2]) \div 2 IN
    IF mid = e[1] THEN <<e>> ELSE << <<e[1], mid>>, <<mid, e[2]>> >>

\* split: the new epochs take the place of the old one.
Replace(s, e) == LET i == CHOOSE i \in DOMAIN s : s[i] = e IN
    SubSeq(s, 1, i - 1) \o Slice(e) \o SubSeq(s, i + 1, Len(s))

Top     == Last(stack)
Current == Head(Top)
Below   == Front(stack)

\* What the endpoint returns for an epoch, in the order of time.
Response(e) == {k \in catalog : 2 * k < e[2] /\ 2 * k + 2 > e[1]}

Init ==
    /\ catalog \in SUBSET Objects
    /\ epochs = Slice(<<0, Span>>)
    /\ stack = <<Slice(<<0, Span>>)>>
    /\ lastObj = None
    /\ file = <<>>
    /\ rest = {}
    /\ pc = "request"

\* 200: the list is begun unless an object has been written before.
Succeed ==
    /\ pc = "request"
    /\ EmptyLists \/ Response(Current) # {}
    /\ rest' = Response(Current)
    /\ file' = IF lastObj = None THEN Append(file, Start) ELSE file
    /\ pc' = "dump"
    /\ UNCHANGED <<catalog, stack, epochs, lastObj>>

\* Mutant: objects are not compared to the last one written.
WriteAll(k) ==
    /\ file' = (IF lastObj = None THEN file ELSE Append(file, Sep)) \o <<Obj(k)>>
    /\ lastObj' = k

\* Mutant: no comma.
WriteBare(k) ==
    /\ file' = IF k = lastObj THEN file ELSE Append(file, Obj(k))
    /\ lastObj' = k

\* An object is appended unless it is the last one written.
Write(k) ==
    \/ k = lastObj /\ UNCHANGED <<file, lastObj>>
    \/ /\ k # lastObj
       /\ file' = Append(IF lastObj = None THEN file ELSE Append(file, Sep), Obj(k))
       /\ lastObj' = k

\* The loop over the objects of the response.
Dump ==
    /\ pc = "dump"
    /\ \E k \in rest :
          /\ \A l \in rest : k <= l
          /\ Write(k)
          /\ rest' = rest \ {k}
    /\ UNCHANGED <<catalog, stack, epochs, pc>>

Dumped ==
    /\ pc = "dump" /\ rest = {}
    /\ pc' = "after"
    /\ UNCHANGED <<catalog, stack, epochs, lastObj, file, rest>>

\* Mutant: nothing limits the nesting.
TooLargeDeep ==
    /\ pc = "request"
    /\ epochs' = Replace(epochs, Current)
    /\ stack' = Append(stack, Slice(Current))
    /\ UNCHANGED <<catalog, lastObj, file, rest, pc>>

\* 413: the epoch is split and a nested call begins with its parts.
TooLarge ==
    /\ pc = "request"
    /\ Len(stack) < MaxDepth
    /\ epochs' = Replace(epochs, Current)
    /\ stack' = Append(stack, Slice(Current))
    /\ UNCHANGED <<catalog, lastObj, file, rest, pc>>

\* Any other code (204 included), a 413 the Python stack has no room for, or a
\* stream that breaks: the task raises and ends as a TaskError.
Fail ==
    /\ pc \in {"request", "dump"}
    /\ pc' = "error"
    /\ UNCHANGED <<catalog, stack, epochs, lastObj, file, rest>>

IsLast(e) == e[2] = Last(epochs)[2]

\* Mutant: "return self._run(...)" in the caller, too.
ReturnAll(result) == stack' = <<>> /\ pc' = result

\* A call returns; the caller goes on behind its nested call, whose result it
\* ignores.
Return(result) ==
    /\ stack' = Below
    /\ pc' = IF Below = <<>> THEN result ELSE "after"

\* The last epoch is done: the list is ended, the call returns Result.ok.
AfterLast ==
    /\ pc = "after"
    /\ IsLast(Current)
    /\ file' = Append(file, End)
    /\ Return("ok")
    /\ UNCHANGED <<catalog, epochs, lastObj, rest>>

\* The loop goes on with its next epoch ...
AfterNext ==
    /\ pc = "after"
    /\ ~IsLast(Current) /\ Tail(Top) # <<>>
    /\ stack' = Append(Below, Tail(Top))
    /\ pc' = "request"
    /\ UNCHANGED <<catalog, epochs, lastObj, file, rest>>

\* ... or is done, and the call returns None.
AfterLoop ==
    /\ pc = "after"
    /\ ~IsLast(Current) /\ Tail(Top) = <<>>
    /\ Return("none")
    /\ UNCHANGED <<catalog, epochs, lastObj, file, rest>>

Done == pc \in {"ok", "none", "error"} /\ UNCHANGED vars

Next ==
    \/ Succeed \/ Dump \/ Dumped
    \/ TooLarge \/ Fail
    \/ AfterLast \/ AfterNext \/ AfterLoop
    \/ Done

Spec == Init /\ [][Next]_vars

-----------------------------------------------------------------------------
(* Properties. *)

\* Every variable keeps its type.
TypeOK ==
    /\ catalog \subseteq Objects
    /\ stack \in Seq(Seq(Epochs)) /\ Len(stack) <= MaxDepth
    /\ epochs \in Seq(Epochs)
    /\ lastObj \in Objects \cup {None}
    /\ file \in Seq({Start, End, Sep} \cup {Obj(k) : k \in Objects})
    /\ rest \subseteq Objects
    /\ pc \in {"request", "dump", "after", "ok", "none", "error"}

IsObj(i) == i \in DOMAIN file /\ file[i][1] = "obj"

Written == {file[i][2] : i \in {j \in DOMAIN file : IsObj(j)}}

\* However often epochs are split again, the stream epochs of the task cover
\* its original epoch without gap or overlap, in order.
EpochsTile ==
    /\ epochs[1][1] = 0
    /\ Last(epochs)[2] = Span
    /\ \A i \in 1 .. Len(epochs) - 1 : epochs[i][2] = epochs[i + 1][1]

\* Objects that were cut are aligned: none is written twice or out of order.
Aligned ==
    \A i, j \in DOMAIN file :
        IsObj(i) /\ IsObj(j) /\ i < j => file[i][2] < file[j][2]

\* A task that returns 200 has written every object the endpoint has for its
\* epoch, although the results of nested calls are dropped.
NothingMissing ==
    /\ pc = "ok" => Written = catalog
    /\ pc # "none"

\* Up to the end of the list: a bracket, objects, single commas in between.
BodyWellFormed ==
    \A i \in DOMAIN file :
        \/ i = 1 /\ file[i] = Start
        \/ i % 2 = 0 /\ IsObj(i)
        \/ i > 1 /\ i % 2 = 1 /\ file[i] = Sep
        \/ file[i] = End /\ \A j \in DOMAIN file : j > i => file[j] = End

\* The file of a task that returns 200 is one JSON list.
OneList ==
    pc = "ok" => /\ \A i \in DOMAIN file : file[i] = Start <=> i = 1
                 /\ \A i \in DOMAIN file : file[i] = End <=> i = Len(file)

=============================================================================
