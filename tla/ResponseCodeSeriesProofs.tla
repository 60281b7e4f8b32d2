------------------------ MODULE ResponseCodeSeriesProofs ------------------------
(***************************************************************************)
(* For every number of clients, window, ttl and budget: the window is      *)
(* never exceeded, optimistic transactions implement atomic appends, and   *)
(* no task overruns the retry budget by more than what it is bound to      *)
(* record when the budget is exceeded.                                     *)
(***************************************************************************)
EXTENDS ResponseCodeSeries, FiniteSetTheorems, TLAPS

\* Redis accepts EXEC only if what the client has counted is still true.
CountIsCurrent ==
    \A c \in Clients : pc[c] = "counted" /\ ~dirty[c] => num[c] = Len(series)

\* Pc, stack and code of the tasks: those conjuncts of TypeOK that are not
\* about redis; a task under way has at least one call of _run on its stack.
StackOK ==
    /\ pc \in [Clients -> {"idle", "request", "append", "watching", "counted"}]
    /\ level \in [Clients -> Nat]
    /\ firsts \in [Clients -> SUBSET Nat]
    /\ code \in [Clients -> Series!Codes \cup {"none"}]
    /\ then \in [Clients -> {"none", "next", "leave", "nest", "raise"}]
    /\ splits \in [Clients -> Nat]
    /\ \A c \in Clients :
        /\ firsts[c] \subseteq 1 .. level[c]
        /\ pc[c] \in {"append", "watching", "counted"}
             => code[c] # "none" /\ then[c] # "none"
        /\ pc[c] = "idle" => then[c] = "none"
        /\ pc[c] # "idle" => level[c] >= 1

IInv == TypeOK /\ StackOK /\ WindowBound /\ CountIsCurrent

-----------------------------------------------------------------------------
(* Lemmas about the operators of BoundedSeries. *)

\* The youngest n entries of a series are a series of at most n entries.
LEMMA YoungestType ==
    ASSUME NEW s \in Seq(Series!Entries), NEW n \in Nat
    PROVE  /\ Series!Youngest(s, n) \in Seq(Series!Entries)
           /\ Len(Series!Youngest(s, n)) <= n
           /\ Len(Series!Youngest(s, n)) <= Len(s)
BY DEF Series!Youngest, Series!Max

\* Growing older changes no code and drops no entry.
LEMMA OlderType ==
    ASSUME NEW s \in Seq(Series!Entries)
    PROVE  /\ Series!Older(s) \in Seq(Series!Entries)
           /\ Len(Series!Older(s)) = Len(s)
<1>1. Ttl \in Nat
  BY ConstantsAssumption
<1>2. ASSUME NEW i \in 1 .. Len(s)
      PROVE  [s[i] EXCEPT !.age = Series!Min(s[i].age + 1, Ttl + 1)] \in Series!Entries
  <2>1. s[i] \in Series!Entries
    OBVIOUS
  <2>2. Series!Min(s[i].age + 1, Ttl + 1) \in 0 .. (Ttl + 1)
    BY <1>1, <2>1 DEF Series!Min, Series!Entries
  <2>3. QED
    BY <2>1, <2>2 DEF Series!Entries
<1>3. QED
  BY <1>2 DEF Series!Older

\* The transaction's ranks and the promised window are the same thing.
LEMMA AppendedIsRecord ==
    ASSUME NEW s \in Seq(Series!Entries)
    PROVE  SubSeq(s, Removed(Len(s)) + 1, Len(s)) = Series!Youngest(s, Window - 1)
<1>1. Len(s) \in Nat /\ Window \in Nat \ {0}
  BY ConstantsAssumption
<1>2. Removed(Len(s)) = Series!Max(0, Len(s) - (Window - 1))
  BY <1>1 DEF Removed, Series!Max
<1>3. QED
  BY <1>2 DEF Series!Youngest

\* The fresh entry of a series.
LEMMA FreshEntry ==
    ASSUME NEW r \in Series!Codes
    PROVE  [code |-> r, age |-> 0] \in Series!Entries
BY ConstantsAssumption DEF Series!Entries

\* The kept part of a garbage collection is a part of the series.
LEMMA KeptCount ==
    ASSUME TypeOK,
           NEW kept, kept = {i \in 1 .. Len(series) : series[i].age < Ttl},
           Cardinality(kept) < Len(series)
    PROVE  Cardinality(kept) \in 0 .. Len(series)
<1>1. Len(series) \in Nat
  BY DEF TypeOK
<1>2. IsFiniteSet(kept)
  <2>1. IsFiniteSet(1 .. Len(series))
    BY <1>1, FS_Interval
  <2>2. kept \in SUBSET (1 .. Len(series))
    OBVIOUS
  <2>3. QED
    BY <2>1, <2>2, FS_Subset
<1>3. Cardinality(kept) \in Nat
  BY <1>2, FS_CardinalityType
<1>4. QED
  BY <1>1, <1>3

-----------------------------------------------------------------------------
(* The stack of a task. *)

\* Leaving a call keeps the stack in order and is no transaction.
LEMMA LeaveStack ==
    ASSUME StackOK, NEW c \in Clients, NEW t \in {"next", "raise"},
           pc[c] # "idle", Leave(c, t)
    PROVE  /\ StackOK'
           /\ pc'[c] \in {"idle", "append"}
           /\ \A d \in Clients \ {c} : pc'[d] = pc[d]
<1>1. level[c] \in Nat /\ level[c] >= 1 /\ level[c] - 1 \in Nat
  BY DEF StackOK
<1>2. level' = [level EXCEPT ![c] = level[c] - 1]
  BY DEF Leave
<1>3. firsts' = [firsts EXCEPT ![c] = firsts[c] \ {level[c]}]
  BY DEF Leave
<1>4. splits' = splits
  BY DEF Leave
<1>5. \/ pc' = [pc EXCEPT ![c] = "idle"] /\ code' = [code EXCEPT ![c] = "none"]
         /\ then' = [then EXCEPT ![c] = "none"]
      \/ pc' = [pc EXCEPT ![c] = "append"] /\ code' = [code EXCEPT ![c] = "fine"]
         /\ then' = [then EXCEPT ![c] = t] /\ level[c] # 1
  BY DEF Leave, Record
<1>6. level' \in [Clients -> Nat] /\ splits' \in [Clients -> Nat]
  BY <1>1, <1>2, <1>4 DEF StackOK
<1>7. firsts' \in [Clients -> SUBSET Nat]
  BY <1>3 DEF StackOK
<1>8. /\ pc' \in [Clients -> {"idle", "request", "append", "watching", "counted"}]
      /\ code' \in [Clients -> Series!Codes \cup {"none"}]
      /\ then' \in [Clients -> {"none", "next", "leave", "nest", "raise"}]
  BY <1>5 DEF StackOK, Series!Codes
<1>9. firsts'[c] \subseteq 1 .. level'[c]
  <2>1. firsts[c] \subseteq 1 .. level[c]
    BY DEF StackOK
  <2>2. firsts'[c] = firsts[c] \ {level[c]} /\ level'[c] = level[c] - 1
    BY <1>2, <1>3 DEF StackOK
  <2>3. QED
    BY <1>1, <2>1, <2>2
<1>10. /\ pc'[c] \in {"append", "watching", "counted"}
            => code'[c] # "none" /\ then'[c] # "none"
       /\ pc'[c] = "idle" => then'[c] = "none"
       /\ pc'[c] # "idle" => level'[c] >= 1
  BY <1>1, <1>2, <1>5 DEF StackOK
<1>11. \A d \in Clients \ {c} :
          /\ pc'[d] = pc[d] /\ level'[d] = level[d] /\ firsts'[d] = firsts[d]
          /\ code'[d] = code[d] /\ then'[d] = then[d]
  BY <1>2, <1>3, <1>5 DEF StackOK
<1>12. \A d \in Clients :
          /\ firsts'[d] \subseteq 1 .. level'[d]
          /\ pc'[d] \in {"append", "watching", "counted"}
               => code'[d] # "none" /\ then'[d] # "none"
          /\ pc'[d] = "idle" => then'[d] = "none"
          /\ pc'[d] # "idle" => level'[d] >= 1
  <2> TAKE d \in Clients
  <2>1. CASE d = c
    BY <1>9, <1>10, <2>1
  <2>2. CASE d # c
    BY <1>11, <2>2 DEF StackOK
  <2>3. QED
    BY <2>1, <2>2
<1>13. pc'[c] \in {"idle", "append"}
  BY <1>5 DEF StackOK
<1>14. QED
  BY <1>6, <1>7, <1>8, <1>11, <1>12, <1>13 DEF StackOK

\* Going on after a code is recorded keeps the stack in order, too.
LEMMA ContinueStack ==
    ASSUME StackOK, NEW c \in Clients, pc[c] # "idle", Continue(c)
    PROVE  /\ StackOK'
           /\ pc'[c] \in {"idle", "request", "append"}
           /\ \A d \in Clients \ {c} : pc'[d] = pc[d]
<1>1. CASE \E t \in {"next", "raise"} : Leave(c, t)
  BY <1>1, LeaveStack
<1>2. CASE /\ pc' = [pc EXCEPT ![c] = "request"]
           /\ firsts' = [firsts EXCEPT ![c] = firsts[c] \ {level[c]}]
           /\ Record(c, "none", "none")
           /\ UNCHANGED <<level, splits>>
  BY <1>2 DEF StackOK, Record
<1>3. CASE /\ pc' = [pc EXCEPT ![c] = "request"]
           /\ level' = [level EXCEPT ![c] = level[c] + 1]
           /\ firsts' = [firsts EXCEPT ![c] = firsts[c] \cup {level[c] + 1}]
           /\ Record(c, "none", "none")
           /\ UNCHANGED splits
  <2>1. level[c] \in Nat /\ level[c] + 1 \in Nat /\ firsts[c] \subseteq 1 .. level[c]
    BY DEF StackOK
  <2>2. level' \in [Clients -> Nat] /\ firsts' \in [Clients -> SUBSET Nat]
    BY <1>3, <2>1 DEF StackOK
  <2>3. firsts'[c] \subseteq 1 .. level'[c] /\ level'[c] >= 1
    BY <1>3, <2>1 DEF StackOK
  <2>4. \A d \in Clients \ {c} :
          /\ pc'[d] = pc[d] /\ level'[d] = level[d] /\ firsts'[d] = firsts[d]
          /\ code'[d] = code[d] /\ then'[d] = then[d]
    BY <1>3 DEF StackOK, Record
  <2>5. pc'[c] = "request"
    BY <1>3 DEF StackOK
  <2>6. /\ pc' \in [Clients -> {"idle", "request", "append", "watching", "counted"}]
        /\ code' \in [Clients -> Series!Codes \cup {"none"}]
        /\ then' \in [Clients -> {"none", "next", "leave", "nest", "raise"}]
        /\ splits' \in [Clients -> Nat]
    BY <1>3 DEF StackOK, Record
  <2>7. \A d \in Clients :
          /\ firsts'[d] \subseteq 1 .. level'[d]
          /\ pc'[d] \in {"append", "watching", "counted"}
               => code'[d] # "none" /\ then'[d] # "none"
          /\ pc'[d] = "idle" => then'[d] = "none"
          /\ pc'[d] # "idle" => level'[d] >= 1
    <3> TAKE d \in Clients
    <3>1. CASE d = c
      BY <2>3, <2>5, <3>1
    <3>2. CASE d # c
      BY <2>4, <3>2 DEF StackOK
    <3>3. QED
      BY <3>1, <3>2
  <2>8. QED
    BY <2>2, <2>4, <2>5, <2>6, <2>7 DEF StackOK
<1>4. QED
  BY <1>1, <1>2, <1>3 DEF Continue

\* The steps of a task that do not touch redis or only read it.
Local(c) ==
    \/ Begin(c) \/ NoResponse(c) \/ Answered(c) \/ Refused(c) \/ TooLarge(c)
    \/ Broken(c) \/ Watch(c) \/ Count(c) \/ Retry(c) \/ Abort(c)

\* They keep the stack in order and move one task only.
LEMMA LocalStack ==
    ASSUME StackOK, NEW c \in Clients, Local(c)
    PROVE  /\ StackOK'
           /\ \A d \in Clients \ {c} : pc'[d] = pc[d]
           /\ pc'[c] = "counted" => Count(c)
<1> USE DEF Goto, Record, stackVars
<1>1. CASE Begin(c)
  <2>1. \A d \in Clients \ {c} :
          /\ pc'[d] = pc[d] /\ level'[d] = level[d] /\ firsts'[d] = firsts[d]
          /\ code'[d] = code[d] /\ then'[d] = then[d]
    BY <1>1 DEF Begin, StackOK
  <2>2. /\ pc'[c] = "request" /\ level'[c] = 1 /\ firsts'[c] \subseteq {1}
    BY <1>1 DEF Begin, StackOK
  <2>3. /\ pc' \in [Clients -> {"idle", "request", "append", "watching", "counted"}]
        /\ level' \in [Clients -> Nat]
        /\ firsts' \in [Clients -> SUBSET Nat]
        /\ code' \in [Clients -> Series!Codes \cup {"none"}]
        /\ then' \in [Clients -> {"none", "next", "leave", "nest", "raise"}]
        /\ splits' \in [Clients -> Nat]
    BY <1>1 DEF Begin, StackOK
  <2>4. \A d \in Clients :
          /\ firsts'[d] \subseteq 1 .. level'[d]
          /\ pc'[d] \in {"append", "watching", "counted"}
               => code'[d] # "none" /\ then'[d] # "none"
          /\ pc'[d] = "idle" => then'[d] = "none"
          /\ pc'[d] # "idle" => level'[d] >= 1
    <3> TAKE d \in Clients
    <3>1. CASE d = c
      BY <2>2, <3>1
    <3>2. CASE d # c
      BY <2>1, <3>2 DEF StackOK
    <3>3. QED
      BY <3>1, <3>2
  <2>5. QED
    BY <2>1, <2>2, <2>3, <2>4 DEF StackOK
<1>2. CASE NoResponse(c)
  BY <1>2, LeaveStack DEF NoResponse
<1>3. CASE Answered(c) \/ Refused(c) \/ Broken(c)
  BY <1>3 DEF Answered, Refused, Broken, StackOK, Series!Codes
<1>4. CASE TooLarge(c)
  BY <1>4 DEF TooLarge, StackOK, Series!Codes
<1>5. CASE Watch(c) \/ Count(c) \/ Retry(c)
  BY <1>5 DEF Watch, Count, Retry, StackOK
<1>6. CASE Abort(c)
  <2>1. CASE then[c] = "nest"
    BY <1>6, <2>1 DEF Abort, StackOK, Series!Codes
  <2>2. CASE then[c] # "nest"
    BY <1>6, <2>2, LeaveStack DEF Abort
  <2>3. QED
    BY <2>1, <2>2
<1>7. QED
  BY <1>1, <1>2, <1>3, <1>4, <1>5, <1>6 DEF Local

-----------------------------------------------------------------------------
(* The invariant is inductive. *)

\* An empty series satisfies the invariant.
LEMMA InitInv == Init => IInv
BY ConstantsAssumption
   DEF Init, IInv, TypeOK, StackOK, WindowBound, CountIsCurrent

\* The history variable stays a number for each client.
LEMMA TrackType ==
    ASSUME TypeOK, NEW recorder \in SUBSET Clients, Track(recorder)
    PROVE  overrun' \in [Clients -> Nat]
BY DEF TypeOK, Track

\* TypeOK, but for the variables of redis, is StackOK.
LEMMA StackType ==
    ASSUME StackOK',
           series' \in Seq(Series!Entries), num' \in [Clients -> Nat],
           dirty' \in [Clients -> BOOLEAN], lost' \in [Clients -> Nat],
           overrun' \in [Clients -> Nat]
    PROVE  TypeOK'
BY DEF StackOK, TypeOK

\* A step that leaves the series alone and moves client c only.
LEMMA LocalInv == ASSUME IInv, NEW c \in Clients, Local(c) PROVE IInv'
<1> USE DEF Goto
<1>0. TypeOK /\ StackOK /\ Len(series) \in Nat
  BY DEF IInv, TypeOK
<1>1. series' = series /\ overrun' = overrun
  BY DEF Local, Begin, NoResponse, Answered, Refused, TooLarge, Broken, Watch,
         Count, Retry, Abort
<1>2. /\ StackOK'
      /\ \A d \in Clients \ {c} : pc'[d] = pc[d]
      /\ pc'[c] = "counted" => Count(c)
  BY <1>0, LocalStack
<1>3. num' = num \/ \E k \in Nat : num' = [num EXCEPT ![c] = k]
  BY <1>0
     DEF Local, Begin, NoResponse, Answered, Refused, TooLarge, Broken, Watch,
         Count, Retry, Abort, transVars
<1>4. dirty' = dirty \/ dirty' = [dirty EXCEPT ![c] = FALSE]
  BY DEF Local, Begin, NoResponse, Answered, Refused, TooLarge, Broken, Watch,
         Count, Retry, Abort, transVars
<1>5. lost' = lost \/ lost' = [lost EXCEPT ![c] = 0]
  BY DEF Local, Begin, NoResponse, Answered, Refused, TooLarge, Broken, Watch,
         Count, Retry, Abort, transVars
<1>6. TypeOK'
  <2>1. num' \in [Clients -> Nat]
    BY <1>0, <1>3 DEF TypeOK
  <2>2. dirty' \in [Clients -> BOOLEAN]
    BY <1>0, <1>4 DEF TypeOK
  <2>3. lost' \in [Clients -> Nat]
    <3>1. lost \in [Clients -> Nat]
      BY <1>0 DEF TypeOK
    <3>2. QED
      BY <1>5, <3>1
  <2>4. series' \in Seq(Series!Entries) /\ overrun' \in [Clients -> Nat]
    BY <1>0, <1>1 DEF TypeOK
  <2>5. QED
    BY <1>2, <2>1, <2>2, <2>3, <2>4, StackType
<1>7. WindowBound'
  BY <1>1 DEF IInv, WindowBound
<1>8. CountIsCurrent'
  <2> SUFFICES ASSUME NEW d \in Clients, pc'[d] = "counted", ~dirty'[d]
               PROVE  num'[d] = Len(series)
    BY <1>1 DEF CountIsCurrent
  <2>1. CASE d = c
    BY <1>0, <1>2, <2>1 DEF TypeOK, Count
  <2>2. CASE d # c
    <3>1. pc[d] = pc'[d] /\ dirty[d] = dirty'[d] /\ num[d] = num'[d]
      BY <1>0, <1>2, <1>3, <1>4, <2>2 DEF TypeOK
    <3>2. QED
      BY <3>1 DEF IInv, CountIsCurrent
  <2>3. QED
    BY <2>1, <2>2
<1>9. QED
  BY <1>2, <1>6, <1>7, <1>8 DEF IInv

\* The two ways an EXEC is accepted.
Recorded(c) == Exec(c) \/ ExecLost(c)

\* A successful EXEC records one entry, exactly as BoundedSeries does.
LEMMA ExecRecords ==
    ASSUME IInv, NEW c \in Clients, Recorded(c)
    PROVE  /\ code[c] \in Series!Codes
           /\ Series!Record(code[c])
<1>0. pc[c] = "counted" /\ ~dirty[c] /\ series' = Appended(num[c], code[c])
  BY DEF Recorded, Exec, ExecLost, Goto
<1>1. num[c] = Len(series) /\ code[c] \in Series!Codes
  BY <1>0 DEF IInv, CountIsCurrent, StackOK
<1>2. series \in Seq(Series!Entries)
  BY DEF IInv, TypeOK
<1>3. SubSeq(series, Removed(Len(series)) + 1, Len(series))
        = Series!Youngest(series, Window - 1)
  BY <1>2, AppendedIsRecord
<1>4. series' = Append(SubSeq(series, Removed(Len(series)) + 1, Len(series)),
                       [code |-> code[c], age |-> 0])
  BY <1>0, <1>1 DEF Appended
<1>5. QED
  BY <1>1, <1>3, <1>4 DEF Series!Record

\* An EXEC that redis accepts keeps the window and spoils all other watches.
LEMMA ExecInv == ASSUME IInv, NEW c \in Clients, Recorded(c) PROVE IInv'
<1>0. /\ TypeOK /\ StackOK /\ pc[c] = "counted"
      /\ series \in Seq(Series!Entries) /\ Window - 1 \in Nat
  BY ConstantsAssumption DEF IInv, TypeOK, Recorded, Exec, ExecLost, Goto
<1>1. code[c] \in Series!Codes /\ Series!Record(code[c])
  BY ExecRecords
<1>2. DEFINE kept  == Series!Youngest(series, Window - 1)
             entry == [code |-> code[c], age |-> 0]
<1>3. kept \in Seq(Series!Entries) /\ Len(kept) <= Window - 1
  BY <1>0, YoungestType
<1>4. entry \in Series!Entries
  BY <1>1, FreshEntry
<1>5. series' = Append(kept, entry)
  BY <1>1 DEF Series!Record
<1>6. series' \in Seq(Series!Entries) /\ Len(series') = Len(kept) + 1
  <2> HIDE DEF kept, entry
  <2>1. QED
    BY <1>3, <1>4, <1>5
<1>7. Len(kept) \in Nat
  BY <1>3
<1>8. WindowBound'
  <2> HIDE DEF kept
  <2>1. QED
    BY <1>3, <1>6, <1>7, ConstantsAssumption DEF WindowBound
<1>9. overrun' \in [Clients -> Nat]
  BY <1>0, TrackType DEF Recorded, Exec, ExecLost
<1>10. StackOK'
  <2>1. CASE Exec(c)
    BY <1>0, <2>1, ContinueStack DEF Exec
  <2>2. CASE ExecLost(c)
    BY <1>0, <2>2 DEF ExecLost, Goto, stackVars, StackOK
  <2>3. QED
    BY <2>1, <2>2 DEF Recorded
<1>11. Touch /\ num' = [num EXCEPT ![c] = 0]
  BY DEF Recorded, Exec, ExecLost
<1>12. lost' = lost \/ lost' = [lost EXCEPT ![c] = lost[c] + 1]
  BY DEF Recorded, Exec, ExecLost
<1>13. TypeOK'
  <2>1. num' \in [Clients -> Nat] /\ dirty' \in [Clients -> BOOLEAN]
    BY <1>0, <1>11 DEF TypeOK, Touch
  <2>2. lost' \in [Clients -> Nat]
    <3>1. lost \in [Clients -> Nat] /\ lost[c] + 1 \in Nat
      BY <1>0 DEF TypeOK
    <3>2. QED
      BY <1>12, <3>1
  <2>3. QED
    BY <1>6, <1>9, <1>10, <2>1, <2>2, StackType
<1>14. CountIsCurrent'
  BY <1>11 DEF Touch, CountIsCurrent
<1>15. QED
  BY <1>8, <1>10, <1>13, <1>14 DEF IInv

\* Garbage collection and the passing of time, as steps of BoundedSeries.
LEMMA GcDiscards ==
    ASSUME TypeOK, Gc
    PROVE  \E n \in 0 .. Len(series) : series' = Series!Youngest(series, n)
<1> DEFINE kept == {i \in 1 .. Len(series) : series[i].age < Ttl}
<1>1. /\ Cardinality(kept) < Len(series)
      /\ series' = Series!Youngest(series, Cardinality(kept))
  BY DEF Gc
<1>2. Cardinality(kept) \in 0 .. Len(series)
  BY <1>1, KeptCount
<1>3. QED
  BY <1>1, <1>2

\* Garbage collection only makes the series shorter.
LEMMA GcInv == ASSUME IInv, Gc PROVE IInv'
<1>0. /\ TypeOK /\ StackOK
      /\ series \in Seq(Series!Entries) /\ Len(series) \in Nat
  BY DEF IInv, TypeOK
<1>1. PICK n \in 0 .. Len(series) : series' = Series!Youngest(series, n)
  BY <1>0, GcDiscards
<1>2. series' \in Seq(Series!Entries) /\ Len(series') <= Len(series)
  BY <1>0, <1>1, YoungestType
<1>3. WindowBound'
  <2>1. Len(series') \in Nat
    BY <1>2
  <2>2. QED
    BY <1>0, <1>2, <2>1, ConstantsAssumption DEF IInv, WindowBound
<1>4. overrun' \in [Clients -> Nat]
  BY <1>0, TrackType DEF Gc
<1>5. StackOK'
  BY <1>0 DEF Gc, stackVars, StackOK
<1>6. TypeOK'
  BY <1>0, <1>2, <1>4, <1>5, StackType DEF Gc, Touch, TypeOK
<1>7. CountIsCurrent'
  BY <1>0 DEF Gc, Touch, CountIsCurrent, TypeOK
<1>8. QED
  BY <1>3, <1>5, <1>6, <1>7 DEF IInv

\* Time passes without a write to the key.
LEMMA TickInv == ASSUME IInv, Tick PROVE IInv'
<1>0. TypeOK /\ StackOK /\ series \in Seq(Series!Entries)
  BY DEF IInv, TypeOK
<1>1. series' \in Seq(Series!Entries) /\ Len(series') = Len(series)
  BY <1>0, OlderType DEF Tick
<1>2. overrun' \in [Clients -> Nat]
  BY <1>0, TrackType DEF Tick
<1>3. UNCHANGED <<pc, level, firsts, splits, code, then, num, dirty, lost>>
  BY DEF Tick, stackVars, transVars
<1>4. StackOK'
  BY <1>0, <1>3 DEF StackOK
<1>5. TypeOK'
  BY <1>0, <1>1, <1>2, <1>3, <1>4, StackType DEF TypeOK
<1>6. WindowBound' /\ CountIsCurrent'
  BY <1>1, <1>3 DEF IInv, WindowBound, CountIsCurrent
<1>7. QED
  BY <1>4, <1>5, <1>6 DEF IInv

\* The invariant is inductive.
LEMMA NextInv == ASSUME IInv, [Next]_vars PROVE IInv'
<1>1. CASE UNCHANGED vars
  BY <1>1
     DEF vars, stackVars, transVars, IInv, TypeOK, StackOK, WindowBound,
         CountIsCurrent
<1>2. QED
  BY <1>1, GcInv, TickInv, LocalInv, ExecInv DEF Next, ClientStep, Local, Recorded

\* The invariant holds for every series.
LEMMA SpecInv == Spec => []IInv
BY InitInv, NextInv, PTL DEF Spec

-----------------------------------------------------------------------------
(* Theorems. *)

\* Type correctness of the series, the transactions and the history variable.
THEOREM TypeCorrect == Spec => []TypeOK
BY SpecInv, PTL DEF IInv

\* The window is enforced for any number of concurrent clients.
THEOREM WindowEnforced == Spec => []WindowBound
BY SpecInv, PTL DEF IInv

\* Every step of the transactions is a step of the atomic series, or none.
LEMMA StepRefines ==
    ASSUME IInv, [Next]_vars
    PROVE  [Series!Next]_series
<1>1. CASE Gc
  BY <1>1, GcDiscards DEF IInv, Series!Next, Series!Discard
<1>2. CASE Tick
  BY <1>2 DEF Tick, Series!Next, Series!Tick
<1>3. ASSUME NEW c \in Clients, Recorded(c) PROVE [Series!Next]_series
  BY <1>3, ExecRecords DEF Series!Next
<1>4. ASSUME NEW c \in Clients, Local(c) PROVE series' = series
  BY <1>4
     DEF Local, Begin, NoResponse, Answered, Refused, TooLarge, Broken, Watch,
         Count, Retry, Abort
<1>5. CASE UNCHANGED vars
  BY <1>5 DEF vars
<1>6. QED
  BY <1>1, <1>2, <1>3, <1>4, <1>5 DEF Next, ClientStep, Local, Recorded

\* append() is atomic: the optimistic transactions implement BoundedSeries.
THEOREM AppendIsAtomic == Spec => Bounded
<1>1. Init => Series!Init
  BY DEF Init, Series!Init
<1>2. IInv /\ [Next]_vars => [Series!Next]_series
  BY StepRefines
<1>3. QED
  BY <1>1, <1>2, SpecInv, PTL DEF Spec, Bounded, Series!Spec

-----------------------------------------------------------------------------
(* The overrun.  What a task is still bound to record without asking for the *)
(* budget again: one code for the request or transaction under way and each  *)
(* caller on the stack, one for each half to come, and three more if it is   *)
(* about to split.                                                           *)

Owed(c) ==
    level[c] + Cardinality(firsts[c]) + (IF then[c] = "nest" THEN 3 ELSE 0)

\* What the task may record beyond the budget at all.
Bound(c) == lost[c] + IF c \in Aligners THEN 2 + 3 * splits[c] ELSE 1

OverrunInv ==
    /\ ~Exceeded => \A c \in Clients : overrun[c] = 0
    /\ \A c \in Clients : overrun[c] + Owed(c) <= Bound(c)

\* The halves to come are finitely many.
LEMMA FirstsType ==
    ASSUME NEW n \in Nat, NEW F \in SUBSET (1 .. n)
    PROVE  IsFiniteSet(F) /\ Cardinality(F) \in Nat
<1>1. IsFiniteSet(1 .. n)
  BY FS_Interval
<1>2. QED
  BY <1>1, FS_Subset, FS_CardinalityType

\* Beginning or dropping one of them counts.
LEMMA FirstsCount ==
    ASSUME NEW n \in Nat, NEW F \in SUBSET (1 .. n), NEW x \in Nat
    PROVE  /\ Cardinality(F) \in Nat
           /\ Cardinality(F \ {x}) \in Nat
           /\ Cardinality(F \ {x}) <= Cardinality(F)
           /\ x \in F => Cardinality(F \ {x}) = Cardinality(F) - 1
           /\ Cardinality(F \cup {x}) \in Nat
           /\ Cardinality(F \cup {x}) <= Cardinality(F) + 1
<1>1. IsFiniteSet(F)
  BY FirstsType
<1>2. /\ IsFiniteSet(F \ {x})
      /\ Cardinality(F \ {x})
           = IF x \in F THEN Cardinality(F) - 1 ELSE Cardinality(F)
  BY <1>1, FS_RemoveElement
<1>3. /\ IsFiniteSet(F \cup {x})
      /\ Cardinality(F \cup {x})
           = IF x \in F THEN Cardinality(F) ELSE Cardinality(F) + 1
  BY <1>1, FS_AddElement
<1>4. Cardinality(F) \in Nat /\ Cardinality(F \ {x}) \in Nat
      /\ Cardinality(F \cup {x}) \in Nat
  BY <1>1, <1>2, <1>3, FS_CardinalityType
<1>5. QED
  BY <1>2, <1>3, <1>4

\* What is owed and what is allowed are numbers.
LEMMA OwedType ==
    ASSUME TypeOK, StackOK, NEW d \in Clients
    PROVE  Owed(d) \in Nat /\ Bound(d) \in Nat
<1>1. level[d] \in Nat /\ splits[d] \in Nat /\ lost[d] \in Nat
  BY DEF StackOK, TypeOK
<1>2. firsts[d] \in SUBSET (1 .. level[d])
  BY DEF StackOK
<1>3. Cardinality(firsts[d]) \in Nat
  BY <1>1, <1>2, FirstsType
<1>4. Owed(d) \in Nat
  BY <1>1, <1>3 DEF Owed
<1>5. 2 + 3 * splits[d] \in Nat
  BY <1>1
<1>6. Bound(d) \in Nat
  BY <1>1, <1>5 DEF Bound
<1>7. QED
  BY <1>4, <1>6

\* As long as the series stays the same, so does the verdict on the budget.
LEMMA SameVerdict == ASSUME series' = series PROVE Exceeded' = Exceeded
BY DEF Exceeded, Errors, Counted, Tolerated

\* What a step of the series does to the history variable.
LEMMA TrackBound ==
    ASSUME TypeOK, OverrunInv, NEW recorder \in SUBSET Clients, Track(recorder)
    PROVE  /\ ~Exceeded' => \A c \in Clients : overrun'[c] = 0
           /\ \A c \in Clients : overrun'[c] <= overrun[c] + 1
           /\ \A c \in Clients \ recorder : overrun'[c] <= overrun[c]
BY DEF TypeOK, OverrunInv, Track

\* The empty series exceeds no budget, and nobody is bound to record.
LEMMA InitOverrun == Init => OverrunInv
<1> SUFFICES ASSUME Init PROVE OverrunInv
  OBVIOUS
<1>1. ASSUME NEW c \in Clients PROVE overrun[c] = 0 /\ Owed(c) = 0 /\ Bound(c) \in {1, 2}
  BY FS_EmptySet DEF Init, Owed, Bound
<1>2. QED
  BY <1>1 DEF OverrunInv

\* Leaving a call makes no task owe more, and the same holds for the others.
LEMMA LeaveOwes ==
    ASSUME TypeOK, StackOK, NEW c \in Clients, NEW t \in {"next", "raise"},
           pc[c] # "idle", Leave(c, t)
    PROVE  /\ level'[c] + Cardinality(firsts'[c])
                <= level[c] + Cardinality(firsts[c]) - 1
           /\ level'[c] \in Nat /\ Cardinality(firsts'[c]) \in Nat
           /\ then'[c] # "nest" /\ splits' = splits
           /\ \A d \in Clients \ {c} :
                level'[d] = level[d] /\ firsts'[d] = firsts[d] /\ then'[d] = then[d]
<1>1. level[c] \in Nat /\ level[c] >= 1 /\ firsts[c] \in SUBSET (1 .. level[c])
  BY DEF StackOK
<1>2. /\ level'[c] = level[c] - 1
      /\ firsts'[c] = firsts[c] \ {level[c]}
      /\ then'[c] \in {"none", t} /\ splits' = splits
  BY DEF Leave, Record, StackOK
<1>3. \A d \in Clients \ {c} :
        level'[d] = level[d] /\ firsts'[d] = firsts[d] /\ then'[d] = then[d]
  BY DEF Leave, Record, StackOK
<1>4. /\ Cardinality(firsts[c]) \in Nat
      /\ Cardinality(firsts[c] \ {level[c]}) \in Nat
      /\ Cardinality(firsts[c] \ {level[c]}) <= Cardinality(firsts[c])
  BY <1>1, FirstsCount
<1>5. QED
  BY <1>1, <1>2, <1>3, <1>4

\* An entry recorded is one entry less to record.
LEMMA ContinueOwes ==
    ASSUME TypeOK, StackOK, NEW c \in Clients, pc[c] # "idle", Continue(c)
    PROVE  /\ Owed(c) \in Nat /\ Owed(c)' \in Nat
           /\ Owed(c)' <= Owed(c) - 1
           /\ splits' = splits
           /\ \A d \in Clients \ {c} :
                level'[d] = level[d] /\ firsts'[d] = firsts[d] /\ then'[d] = then[d]
<1>1. level[c] \in Nat /\ level[c] >= 1 /\ firsts[c] \in SUBSET (1 .. level[c])
  BY DEF StackOK
<1>2. /\ Cardinality(firsts[c]) \in Nat
      /\ Cardinality(firsts[c] \ {level[c]}) \in Nat
      /\ level[c] \in firsts[c]
           => Cardinality(firsts[c] \ {level[c]}) = Cardinality(firsts[c]) - 1
      /\ Cardinality(firsts[c] \cup {level[c] + 1}) \in Nat
      /\ Cardinality(firsts[c] \cup {level[c] + 1}) <= Cardinality(firsts[c]) + 1
  <2>1. /\ Cardinality(firsts[c]) \in Nat
        /\ Cardinality(firsts[c] \ {level[c]}) \in Nat
        /\ level[c] \in firsts[c]
             => Cardinality(firsts[c] \ {level[c]}) = Cardinality(firsts[c]) - 1
    BY <1>1, FirstsCount
  <2>2. level[c] + 1 \in Nat
    BY <1>1
  <2>3. /\ Cardinality(firsts[c] \cup {level[c] + 1}) \in Nat
        /\ Cardinality(firsts[c] \cup {level[c] + 1}) <= Cardinality(firsts[c]) + 1
    BY <1>1, <2>2, FirstsCount
  <2>4. QED
    BY <2>1, <2>3
<1>3. Owed(c) \in Nat
  BY <1>1, <1>2 DEF Owed
<1>4. CASE \E t \in {"next", "raise"} : Leave(c, t)
  <2>1. PICK t \in {"next", "raise"} : Leave(c, t)
    BY <1>4
  <2>2. /\ level'[c] + Cardinality(firsts'[c])
             <= level[c] + Cardinality(firsts[c]) - 1
        /\ level'[c] \in Nat /\ Cardinality(firsts'[c]) \in Nat
        /\ then'[c] # "nest" /\ splits' = splits
        /\ \A d \in Clients \ {c} :
             level'[d] = level[d] /\ firsts'[d] = firsts[d] /\ then'[d] = then[d]
    BY <2>1, LeaveOwes
  <2>3. Owed(c)' = level'[c] + Cardinality(firsts'[c])
    BY <2>2 DEF Owed
  <2>4. Owed(c) >= level[c] + Cardinality(firsts[c])
    BY <1>1, <1>2 DEF Owed
  <2>5. QED
    BY <1>1, <1>2, <1>3, <2>2, <2>3, <2>4
<1>5. CASE /\ then[c] = "next" /\ level[c] \in firsts[c]
           /\ firsts' = [firsts EXCEPT ![c] = firsts[c] \ {level[c]}]
           /\ Record(c, "none", "none")
           /\ UNCHANGED <<level, splits>>
  <2>1. /\ firsts'[c] = firsts[c] \ {level[c]} /\ level'[c] = level[c]
        /\ then'[c] = "none"
    BY <1>5 DEF Record, StackOK
  <2>2. \A d \in Clients \ {c} :
          level'[d] = level[d] /\ firsts'[d] = firsts[d] /\ then'[d] = then[d]
    BY <1>5 DEF Record, StackOK
  <2>3. Owed(c)' = level[c] + Cardinality(firsts[c] \ {level[c]})
    BY <1>1, <1>2, <2>1 DEF Owed
  <2>4. Owed(c) = level[c] + Cardinality(firsts[c])
    BY <1>1, <1>2, <1>5 DEF Owed
  <2>5. QED
    BY <1>1, <1>2, <1>3, <1>5, <2>2, <2>3, <2>4
<1>6. CASE /\ then[c] = "nest"
           /\ level' = [level EXCEPT ![c] = level[c] + 1]
           /\ firsts' = [firsts EXCEPT ![c] = firsts[c] \cup {level[c] + 1}]
           /\ Record(c, "none", "none")
           /\ UNCHANGED splits
  <2>1. /\ firsts'[c] = firsts[c] \cup {level[c] + 1} /\ level'[c] = level[c] + 1
        /\ then'[c] = "none"
    BY <1>6 DEF Record, StackOK
  <2>2. \A d \in Clients \ {c} :
          level'[d] = level[d] /\ firsts'[d] = firsts[d] /\ then'[d] = then[d]
    BY <1>6 DEF Record, StackOK
  <2>3. Owed(c)' = level[c] + 1 + Cardinality(firsts[c] \cup {level[c] + 1})
    BY <1>1, <1>2, <2>1 DEF Owed
  <2>4. Owed(c) = level[c] + Cardinality(firsts[c]) + 3
    BY <1>6 DEF Owed
  <2>5. QED
    BY <1>1, <1>2, <1>3, <1>6, <2>2, <2>3, <2>4
<1>7. QED
  BY <1>4, <1>5, <1>6 DEF Continue

\* The other steps of a task.  Beginning needs a budget that is not exceeded; a
\* 413 adds three entries to what the task owes and to its bound.
LEMMA LocalOwes ==
    ASSUME TypeOK, StackOK, OverrunInv, NEW c \in Clients, Local(c)
    PROVE  /\ overrun[c] + Owed(c)' <= Bound(c)'
           /\ \A d \in Clients \ {c} :
                /\ level'[d] = level[d] /\ firsts'[d] = firsts[d]
                /\ then'[d] = then[d] /\ splits'[d] = splits[d]
                /\ lost'[d] = lost[d]
<1> USE DEF Goto, Record, stackVars, transVars
<1>1. /\ level[c] \in Nat /\ firsts[c] \in SUBSET (1 .. level[c])
      /\ splits[c] \in Nat /\ lost[c] \in Nat /\ overrun[c] \in Nat
  BY DEF StackOK, TypeOK
<1>2. Cardinality(firsts[c]) \in Nat
  BY <1>1, FirstsType
<1>3. overrun[c] + Owed(c) <= Bound(c)
  BY DEF OverrunInv
<1>4. CASE Begin(c)
  <2>1. overrun[c] = 0 /\ then'[c] # "nest"
    BY <1>4 DEF Begin, OverrunInv, StackOK
  <2>2. /\ level'[c] = 1 /\ firsts'[c] = IF c \in Aligners THEN {1} ELSE {}
        /\ lost'[c] = 0 /\ splits'[c] = 0
    BY <1>4 DEF Begin, StackOK, TypeOK
  <2>3. Cardinality({1}) = 1 /\ Cardinality({}) = 0
    BY FS_Singleton, FS_EmptySet
  <2>4. Owed(c)' = IF c \in Aligners THEN 2 ELSE 1
    BY <2>1, <2>2, <2>3 DEF Owed
  <2>5. Bound(c)' = IF c \in Aligners THEN 2 ELSE 1
    BY <2>2 DEF Bound
  <2>6. \A d \in Clients \ {c} :
          /\ level'[d] = level[d] /\ firsts'[d] = firsts[d]
          /\ then'[d] = then[d] /\ splits'[d] = splits[d]
          /\ lost'[d] = lost[d]
    BY <1>4 DEF Begin, StackOK, TypeOK
  <2>7. QED
    BY <2>1, <2>4, <2>5, <2>6
<1>5. CASE NoResponse(c) \/ (Abort(c) /\ then[c] # "nest")
  <2>1. Leave(c, "raise") /\ pc[c] # "idle" /\ lost' = lost
    BY <1>5 DEF NoResponse, Abort
  <2>2. /\ level'[c] + Cardinality(firsts'[c])
             <= level[c] + Cardinality(firsts[c]) - 1
        /\ level'[c] \in Nat /\ Cardinality(firsts'[c]) \in Nat
        /\ then'[c] # "nest" /\ splits' = splits
        /\ \A d \in Clients \ {c} :
             level'[d] = level[d] /\ firsts'[d] = firsts[d] /\ then'[d] = then[d]
    BY <2>1, LeaveOwes
  <2>3. Owed(c)' = level'[c] + Cardinality(firsts'[c]) /\ Bound(c)' = Bound(c)
    BY <2>1, <2>2 DEF Owed, Bound
  <2>4. Owed(c) >= level[c] + Cardinality(firsts[c]) /\ Owed(c) \in Nat
    BY <1>1, <1>2 DEF Owed
  <2>5. Bound(c) \in Nat
    BY <1>1 DEF Bound
  <2>6. QED
    BY <1>1, <1>2, <1>3, <2>1, <2>2, <2>3, <2>4, <2>5
<1>6. CASE \/ Answered(c) \/ Refused(c) \/ Broken(c)
           \/ (Abort(c) /\ then[c] = "nest")
  <2>1. /\ then'[c] # "nest" /\ level' = level /\ firsts' = firsts
        /\ splits' = splits /\ lost' = lost
    BY <1>6 DEF Answered, Refused, Broken, Abort, StackOK
  <2>2. \A d \in Clients \ {c} : then'[d] = then[d]
    BY <1>6 DEF Answered, Refused, Broken, Abort, StackOK
  <2>3. Owed(c)' = level[c] + Cardinality(firsts[c]) /\ Bound(c)' = Bound(c)
    BY <1>1, <1>2, <2>1 DEF Owed, Bound
  <2>4. Owed(c) >= level[c] + Cardinality(firsts[c]) /\ Owed(c) \in Nat
    BY <1>1, <1>2 DEF Owed
  <2>5. Bound(c) \in Nat
    BY <1>1 DEF Bound
  <2>6. QED
    BY <1>1, <1>2, <1>3, <2>1, <2>2, <2>3, <2>4, <2>5
<1>7. CASE TooLarge(c)
  <2>1. /\ then'[c] = "nest" /\ level' = level /\ firsts' = firsts
        /\ splits'[c] = splits[c] + 1 /\ lost' = lost /\ c \in Aligners
    BY <1>7 DEF TooLarge, StackOK
  <2>2. \A d \in Clients \ {c} : then'[d] = then[d] /\ splits'[d] = splits[d]
    BY <1>7 DEF TooLarge, StackOK
  <2>3. Owed(c)' = level[c] + Cardinality(firsts[c]) + 3
    BY <2>1 DEF Owed
  <2>4. Owed(c) >= level[c] + Cardinality(firsts[c]) /\ Owed(c) \in Nat
    BY <1>1, <1>2 DEF Owed
  <2>5. Bound(c) = lost[c] + 2 + 3 * splits[c]
    BY <1>1, <2>1 DEF Bound
  <2>6. Bound(c)' = lost[c] + 2 + 3 * (splits[c] + 1)
    BY <1>1, <2>1 DEF Bound
  <2>7. QED
    BY <1>1, <1>2, <1>3, <2>1, <2>2, <2>3, <2>4, <2>5, <2>6
<1>8. CASE Watch(c) \/ Count(c) \/ Retry(c)
  <2>1. UNCHANGED <<level, firsts, splits, then, lost>>
    BY <1>8 DEF Watch, Count, Retry
  <2>2. Owed(c)' = Owed(c) /\ Bound(c)' = Bound(c)
    BY <2>1 DEF Owed, Bound
  <2>3. QED
    BY <1>3, <2>1, <2>2
<1>9. QED
  BY <1>4, <1>5, <1>6, <1>7, <1>8 DEF Local

\* A task that does not move owes the same, within the same bound.
LEMMA OthersOwe ==
    ASSUME TypeOK, StackOK, OverrunInv, NEW d \in Clients,
           level'[d] = level[d], firsts'[d] = firsts[d], then'[d] = then[d],
           splits'[d] = splits[d], lost'[d] = lost[d],
           overrun'[d] \in Nat, overrun'[d] <= overrun[d]
    PROVE  overrun'[d] + Owed(d)' <= Bound(d)'
<1>1. Owed(d)' = Owed(d) /\ Bound(d)' = Bound(d)
  BY DEF Owed, Bound
<1>2. overrun[d] \in Nat
  BY DEF TypeOK
<1>3. Owed(d) \in Nat /\ Bound(d) \in Nat
  BY OwedType
<1>4. overrun[d] + Owed(d) <= Bound(d)
  BY DEF OverrunInv
<1>5. QED
  BY <1>1, <1>2, <1>3, <1>4

\* A task's own steps keep the bound.
LEMMA LocalOverrun ==
    ASSUME IInv, OverrunInv, NEW c \in Clients, Local(c)
    PROVE  OverrunInv'
<1>0. TypeOK /\ StackOK
  BY DEF IInv
<1>1. series' = series /\ overrun' = overrun
  BY DEF Local, Begin, NoResponse, Answered, Refused, TooLarge, Broken, Watch,
         Count, Retry, Abort
<1>2. Exceeded' = Exceeded
  BY <1>1, SameVerdict
<1>3. /\ overrun[c] + Owed(c)' <= Bound(c)'
      /\ \A d \in Clients \ {c} :
           /\ level'[d] = level[d] /\ firsts'[d] = firsts[d]
           /\ then'[d] = then[d] /\ splits'[d] = splits[d]
           /\ lost'[d] = lost[d]
  BY <1>0, LocalOwes
<1>4. ASSUME NEW d \in Clients PROVE (overrun[d] + Owed(d) <= Bound(d))'
  <2>1. CASE d = c
    BY <1>1, <1>3, <2>1
  <2>2. CASE d # c
    <3>1. overrun'[d] \in Nat /\ overrun'[d] <= overrun[d]
      BY <1>0, <1>1 DEF TypeOK
    <3>2. QED
      BY <1>0, <1>3, <2>2, <3>1, OthersOwe
  <2>3. QED
    BY <2>1, <2>2
<1>5. QED
  BY <1>1, <1>2, <1>4 DEF OverrunInv

\* An entry recorded beyond the budget has been owed, or a reply was lost.
LEMMA ExecOverrun ==
    ASSUME IInv, OverrunInv, NEW c \in Clients, Recorded(c)
    PROVE  OverrunInv'
<1>0. TypeOK /\ StackOK /\ pc[c] = "counted" /\ Track({c})
  BY DEF IInv, Recorded, Exec, ExecLost, Goto
<1>1. overrun' \in [Clients -> Nat]
  BY <1>0, TrackType
<1>2. /\ ~Exceeded' => \A d \in Clients : overrun'[d] = 0
      /\ overrun'[c] <= overrun[c] + 1
      /\ \A d \in Clients \ {c} : overrun'[d] <= overrun[d]
  BY <1>0, TrackBound
<1>3. /\ level[c] \in Nat /\ firsts[c] \in SUBSET (1 .. level[c])
      /\ splits[c] \in Nat /\ lost[c] \in Nat /\ overrun[c] \in Nat
  BY <1>0 DEF StackOK, TypeOK
<1>4. Owed(c) \in Nat /\ Bound(c) \in Nat /\ overrun[c] + Owed(c) <= Bound(c)
  BY <1>0, OwedType DEF OverrunInv
<1>5. /\ overrun'[c] + Owed(c)' <= Bound(c)'
      /\ \A d \in Clients \ {c} :
           /\ level'[d] = level[d] /\ firsts'[d] = firsts[d]
           /\ then'[d] = then[d] /\ splits'[d] = splits[d]
           /\ lost'[d] = lost[d]
  <2>1. CASE Exec(c)
    <3>1. Continue(c) /\ lost' = lost
      BY <2>1 DEF Exec
    <3>2. /\ Owed(c)' \in Nat /\ Owed(c)' <= Owed(c) - 1 /\ splits' = splits
          /\ \A d \in Clients \ {c} :
               level'[d] = level[d] /\ firsts'[d] = firsts[d] /\ then'[d] = then[d]
      BY <1>0, <3>1, ContinueOwes
    <3>3. Bound(c)' = Bound(c)
      BY <3>1, <3>2 DEF Bound
    <3>4. overrun'[c] \in Nat
      BY <1>1
    <3>5. QED
      BY <1>2, <1>3, <1>4, <3>1, <3>2, <3>3, <3>4
  <2>2. CASE ExecLost(c)
    <3>1. /\ UNCHANGED <<level, firsts, splits, then>>
          /\ lost' = [lost EXCEPT ![c] = lost[c] + 1]
      BY <2>2 DEF ExecLost, stackVars
    <3>2. lost'[c] = lost[c] + 1 /\ \A d \in Clients \ {c} : lost'[d] = lost[d]
      BY <1>0, <3>1 DEF TypeOK
    <3>3. Owed(c)' = Owed(c) /\ Bound(c)' = Bound(c) + 1
      BY <1>3, <3>1, <3>2 DEF Owed, Bound
    <3>4. overrun'[c] \in Nat
      BY <1>1
    <3>5. QED
      BY <1>2, <1>3, <1>4, <3>1, <3>2, <3>3, <3>4
  <2>3. QED
    BY <2>1, <2>2 DEF Recorded
<1>6. ASSUME NEW d \in Clients PROVE (overrun[d] + Owed(d) <= Bound(d))'
  <2>1. CASE d = c
    BY <1>5, <2>1
  <2>2. CASE d # c
    BY <1>0, <1>1, <1>2, <1>5, <2>2, OthersOwe
  <2>3. QED
    BY <2>1, <2>2
<1>7. QED
  BY <1>2, <1>6 DEF OverrunInv

\* Neither garbage collection nor the passing of time records an entry.
LEMMA QuietOverrun == ASSUME IInv, OverrunInv, Gc \/ Tick PROVE OverrunInv'
<1>0. TypeOK /\ StackOK
  BY DEF IInv
<1>1. Track({}) /\ UNCHANGED <<level, firsts, splits, then, lost>>
  BY DEF Gc, Tick, stackVars, transVars
<1>2. overrun' \in [Clients -> Nat]
  BY <1>0, <1>1, TrackType
<1>3. /\ ~Exceeded' => \A d \in Clients : overrun'[d] = 0
      /\ \A d \in Clients : overrun'[d] <= overrun[d]
  BY <1>0, <1>1, TrackBound
<1>4. ASSUME NEW d \in Clients PROVE (overrun[d] + Owed(d) <= Bound(d))'
  BY <1>0, <1>1, <1>2, <1>3, OthersOwe
<1>5. QED
  BY <1>3, <1>4 DEF OverrunInv

\* The bound of the overrun is inductive.
LEMMA NextOverrun == ASSUME IInv, OverrunInv, [Next]_vars PROVE OverrunInv'
<1>1. CASE UNCHANGED vars
  <2>1. UNCHANGED <<series, level, firsts, then, splits, lost, overrun>>
    BY <1>1 DEF vars, stackVars, transVars
  <2>2. Exceeded' = Exceeded
    BY <2>1, SameVerdict
  <2>3. QED
    BY <2>1, <2>2 DEF OverrunInv, Owed, Bound
<1>2. QED
  BY <1>1, QuietOverrun, LocalOverrun, ExecOverrun
     DEF Next, ClientStep, Local, Recorded

\* Once the retry budget is exceeded, a task under way still records one code
\* if it downloads, and two and three more for each 413 if it splits and aligns,
\* besides what redis has taken twice, however many tasks, requests,
\* transactions, ticks and garbage collections interleave.
THEOREM OverrunIsBounded == Spec => []OverrunBounded
<1>1. Init => OverrunInv
  BY InitOverrun
<1>2. IInv /\ OverrunInv /\ [Next]_vars => OverrunInv'
  BY NextOverrun
<1>3. IInv /\ OverrunInv => OverrunBounded
  <2> SUFFICES ASSUME IInv, OverrunInv, NEW c \in Clients
               PROVE  overrun[c] <= Bound(c)
    BY DEF OverrunBounded, Bound
  <2>1. /\ level[c] \in Nat /\ firsts[c] \in SUBSET (1 .. level[c])
        /\ splits[c] \in Nat /\ lost[c] \in Nat /\ overrun[c] \in Nat
    BY DEF IInv, StackOK, TypeOK
  <2>2. Cardinality(firsts[c]) \in Nat
    BY <2>1, FirstsType
  <2>3. Owed(c) \in Nat /\ Bound(c) \in Nat
    BY <2>1, <2>2 DEF Owed, Bound
  <2>4. overrun[c] + Owed(c) <= Bound(c)
    BY DEF OverrunInv
  <2>5. QED
    BY <2>1, <2>3, <2>4
<1>4. QED
  BY <1>1, <1>2, <1>3, SpecInv, PTL DEF Spec

=============================================================================
