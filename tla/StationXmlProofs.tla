---------------------------- MODULE StationXmlProofs ----------------------------
(***************************************************************************)
(* Proofs about StationXml for any networks and routes, any documents, any *)
(* sizes of the pools and all faults: the response is one document, and it *)
(* is a federated response in the sense of FederatedResponse; no task is   *)
(* torn down under a live processor, networks are merged whole, and a      *)
(* graceful shutdown removes the temporary files.                          *)
(***************************************************************************)
EXTENDS StationXml, FiniteSetTheorems, TLAPS

IsData(t) == stage[t] = "ready" /\ status[t] \in Success

\* Where the document may have got to.
Unfinished == pc \in Nets \cup {"wait", "headers", "stream"}

\* The footer is yielded last, and only when nothing is left.
FootLast ==
    /\ Unfinished => \A i \in DOMAIN out : out[i] # "foot"
    /\ \A i \in DOMAIN out : out[i] = "foot" => i = Len(out) /\ handled = Nets

\* The header is yielded with the first network.
HeadFirst ==
    /\ pc \in {"wait", "headers"} => out = <<>> /\ sent = {}
    /\ pc = "stream" => (out = <<>> <=> sent = {})
    /\ pc \in Nets => out # <<>>
    /\ out # <<>> => out[1] = "head"

AllHeads == \A i \in DOMAIN out : out[i] = "head"

\* The test of sum(self._sizes): as long as no network that was sent has a byte,
\* nothing but headers was yielded, one for each of them and one for the next.
HeadsCounted ==
    /\ \A n \in sent : IsData(n)
    /\ pc = "stream" /\ ~Streamed => AllHeads /\ Len(out) <= Cardinality(Hollow)
    /\ pc \in Nets /\ ~Streamed => AllHeads /\ Len(out) <= 1 + Cardinality(Hollow)
    /\ \A i \in DOMAIN out : out[i] = "head" => /\ \A j \in 1 .. i : out[j] = "head"
                                               /\ i <= 1 + Cardinality(Hollow)

\* _wait has seen data, and until it is streamed it stays in the list: the
\* stream never ends without a network.
DataAhead ==
    /\ pc \in {"headers", "stream"} /\ sent = {} =>
           \E t \in Nets \ handled : IsData(t)
    /\ pc \in Nets => pc \notin handled /\ IsData(pc)

\* The status line is written once.
AnswerMatches ==
    /\ pc = "wait" <=> answer = 0
    /\ pc = "failed" <=> answer \in {204, 413, 500}

IInv ==
    /\ TypeOK
    /\ FootLast
    /\ HeadFirst
    /\ HeadsCounted
    /\ DataAhead
    /\ AnswerMatches

\* Networks, routes and the places of the processor do not mix.
LEMMA Disjoint ==
    /\ Nets \cap Places = {} /\ Nets \cap Routes = {}
    /\ Nets \subseteq Tasks /\ Routes \subseteq Tasks
    /\ Combiners \subseteq Nets
    /\ \A c \in Combiners : RoutesOf(c) \subseteq Routes
<1>1. Combiners \subseteq Nets /\ Nets \subseteq Tasks /\ Routes \subseteq Tasks
  BY DEF Nets, Tasks, Loaders
<1>2. Nets \cap Places = {}
  BY <1>1, ConstantsAssumption
<1>3. Nets \cap Routes = {}
  BY ConstantsAssumption DEF Nets, Loaders
<1>4. QED
  BY <1>1, <1>2, <1>3 DEF RoutesOf

\* The state right after _request.
LEMMA InitInv == Init => IInv
<1> SUFFICES ASSUME Init PROVE IInv
  OBVIOUS
<1> USE DEF Init
<1>1. TypeOK
  <2>1. /\ stage \in [Tasks -> Stages] /\ status \in [Tasks -> Codes]
        /\ inner \in [Combiners -> {"none", "closed", "terminated"}]
    BY DEF Stages, Codes
  <2>2. tree \in [Combiners -> SUBSET (Routes \X Elements)]
    OBVIOUS
  <2>3. DOMAIN parent \subseteq Tasks
    BY Disjoint
  <2>4. QED
    BY <2>1, <2>2, <2>3 DEF TypeOK, Places
<1>2. FootLast /\ HeadFirst /\ HeadsCounted
  BY Disjoint DEF FootLast, HeadFirst, HeadsCounted, Places
<1>3. DataAhead /\ AnswerMatches
  BY Disjoint DEF DataAhead, AnswerMatches, Places
<1>4. QED
  BY <1>1, <1>2, <1>3 DEF IInv

-----------------------------------------------------------------------------
(* Steps of the tasks. *)

\* The headers are counted as before if nothing is yielded and what has been
\* sent is left alone.
LEMMA SameHeads ==
    ASSUME HeadsCounted, UNCHANGED <<out, sent>>,
           \A n \in sent : IsData(n)' /\ status'[n] = status[n],
           \/ pc' = pc
           \/ pc' = "stream" /\ out = <<>> /\ sent = {}
           \/ pc' \notin Nets \cup {"stream"}
    PROVE  HeadsCounted'
<1>1. Hollow' = Hollow /\ Streamed' = Streamed
  BY DEF Hollow, Streamed
<1>2. sent = {} => Cardinality(Hollow) = 0
  BY FS_EmptySet DEF Hollow
<1>3. "stream" \notin Nets
  BY Disjoint DEF Places
<1>4. QED
  BY <1>1, <1>2, <1>3 DEF HeadsCounted, AllHeads

\* A step that leaves the processor alone and no ready network behind keeps
\* the invariant.
LEMMA TaskStep ==
    ASSUME IInv, UNCHANGED procVars, TypeOK',
           \A t \in Nets : IsData(t) => IsData(t)' /\ status'[t] = status[t]
    PROVE  IInv'
<1> USE DEF procVars
<1>1. FootLast' /\ HeadFirst' /\ AnswerMatches'
  BY DEF IInv, FootLast, HeadFirst, AnswerMatches, Unfinished
<1>2. DataAhead'
  BY DEF IInv, DataAhead
<1>3. HeadsCounted'
  <2>1. \A n \in sent : IsData(n) /\ n \in Nets
    BY DEF IInv, HeadsCounted, TypeOK
  <2>2. \A n \in sent : IsData(n)' /\ status'[n] = status[n]
    BY <2>1
  <2>3. QED
    BY <2>2, SameHeads DEF IInv
<1>4. QED
  BY <1>1, <1>2, <1>3 DEF IInv

\* Move is such a step: a ready result does not move.
LEMMA MoveInv ==
    ASSUME IInv, NEW t \in Tasks, NEW from \in Stages \ {"ready"},
           NEW to \in Stages, NEW code \in Codes, Move(t, from, to, code),
           DOMAIN parent' \subseteq Tasks,
           files' \subseteq Tasks,
           inner' \in [Combiners -> {"none", "closed", "terminated"}],
           UNCHANGED tree
    PROVE  IInv'
<1> USE DEF Move, procVars
<1>1. TypeOK'
  <2>1. stage' \in [Tasks -> Stages] /\ status' \in [Tasks -> Codes]
    BY DEF IInv, TypeOK
  <2>2. Elements' = Elements
    BY DEF Elements, Key
  <2>3. QED
    BY <2>1, <2>2 DEF IInv, TypeOK
<1>2. \A u \in Nets : IsData(u) => IsData(u)' /\ status'[u] = status[u]
  BY Disjoint DEF IInv, TypeOK, IsData
<1>3. QED
  BY <1>1, <1>2, TaskStep

\* Download tasks and what both kinds of tasks have in common.
LEMMA LoaderInv ==
    ASSUME IInv, NEW t \in Tasks,
           \/ Refuse(t) \/ Download(t) \/ DownloadOk(t) \/ DownloadError(t)
           \/ DownloadCrash(t) \/ GuardExit(t) \/ Deliver(t)
    PROVE  IInv'
<1> USE DEF Stages, Codes, Failures, Success
<1>0. /\ files \subseteq Tasks /\ DOMAIN parent \subseteq Tasks
      /\ inner \in [Combiners -> {"none", "closed", "terminated"}]
      /\ status[t] \in Codes
  BY DEF IInv, TypeOK
<1>1. CASE Refuse(t)
  BY <1>0, <1>1, MoveInv DEF Refuse
<1>2. CASE Download(t)
  BY <1>0, <1>2, MoveInv DEF Download
<1>3. CASE DownloadOk(t)
  BY <1>0, <1>3, MoveInv DEF DownloadOk
<1>4. CASE DownloadError(t)
  BY <1>0, <1>4, MoveInv DEF DownloadError
<1>5. CASE DownloadCrash(t)
  BY <1>0, <1>5, MoveInv DEF DownloadCrash
<1>6. CASE GuardExit(t)
  BY <1>0, <1>6, MoveInv DEF GuardExit
<1>7. CASE Deliver(t)
  BY <1>0, <1>7, MoveInv DEF Deliver
<1>8. QED
  BY <1>1, <1>2, <1>3, <1>4, <1>5, <1>6, <1>7

\* A combiner starts its downloads and merges what they return; neither
\* touches a network's own result.
LEMMA CombinerInv ==
    ASSUME IInv, NEW c \in Combiners,
           \/ Combine(c) \/ Dump(c) \/ Close(c) \/ Joined(c)
           \/ \E r \in Routes : Merge(c, r) \/ MergeCrash(c, r)
    PROVE  IInv'
<1> USE DEF Stages, Codes, Failures, Success
<1>0. /\ files \subseteq Tasks /\ DOMAIN parent \subseteq Tasks
      /\ inner \in [Combiners -> {"none", "closed", "terminated"}]
      /\ stage \in [Tasks -> Stages] /\ status \in [Tasks -> Codes]
      /\ c \in Tasks
  BY Disjoint DEF IInv, TypeOK
<1>1. CASE Combine(c)
  <2> USE <1>1 DEF Combine
  <2>1. DOMAIN parent' \subseteq Tasks
    BY <1>0, Disjoint DEF WithContexts
  <2>2. stage' \in [Tasks -> Stages]
    BY <1>0
  <2>3. Elements' = Elements
    BY DEF Elements, Key
  <2>4. TypeOK'
    BY <1>0, <2>1, <2>2, <2>3 DEF IInv, TypeOK, procVars
  <2>5. \A t \in Nets : IsData(t) => IsData(t)' /\ status'[t] = status[t]
    BY <1>0, Disjoint DEF IsData, CanTake
  <2>6. QED
    BY <2>4, <2>5, TaskStep
<1>2. CASE Dump(c)
  BY <1>0, <1>2, MoveInv DEF Dump
<1>3. CASE Close(c)
  BY <1>0, <1>3, MoveInv DEF Close
<1>4. CASE Joined(c)
  BY <1>0, <1>4, MoveInv DEF Joined
<1>5. ASSUME NEW r \in Routes, Merge(c, r) PROVE IInv'
  <2> USE <1>5 DEF Merge
  <2>1. Elements' = Elements
    BY DEF Elements, Key
  <2>2. tree' \in [Combiners -> SUBSET (Routes \X Elements)]
    <3>1. Emerge(tree[c], r) \subseteq Routes \X Elements
      BY DEF IInv, TypeOK, Emerge, Elements
    <3>2. QED
      BY <3>1 DEF IInv, TypeOK
  <2>3. stage' \in [Tasks -> Stages] /\ files' \subseteq Tasks
    BY <1>0
  <2>4. TypeOK'
    BY <1>0, <2>1, <2>2, <2>3 DEF IInv, TypeOK, procVars
  <2>5. \A t \in Nets : IsData(t) => IsData(t)' /\ status'[t] = status[t]
    BY <1>0, Disjoint DEF IsData
  <2>6. QED
    BY <2>4, <2>5, TaskStep
<1>6. ASSUME NEW r \in Routes, MergeCrash(c, r) PROVE IInv'
  BY <1>0, <1>6, MoveInv DEF MergeCrash
<1>7. QED
  BY <1>1, <1>2, <1>3, <1>4, <1>5, <1>6

-----------------------------------------------------------------------------
(* Steps of the processor. *)

\* What the processor moves keeps its type, and it leaves the tasks alone.
ProcessorTyped ==
    /\ tasksIdle /\ files' \subseteq Tasks /\ lock' \in BOOLEAN
    /\ leaving' \in {"no", "graceful", "forced"}
    /\ drained' \subseteq Nets /\ sent' \subseteq handled' /\ handled' \subseteq Nets
    /\ pc' \in Nets \cup Places /\ answer' \in {0, 200, 204, 413, 500}
    /\ out' \in Seq({"head", "data", "foot"})

\* What no step of the processor touches keeps its type, too.
LEMMA IdleType == ASSUME IInv, ProcessorTyped PROVE TypeOK'
<1> USE DEF ProcessorTyped
<1>1. Elements' = Elements
  BY DEF tasksIdle, Elements, Key
<1>2. QED
  BY <1>1 DEF IInv, TypeOK, tasksIdle

\* A step that neither yields nor takes a result from the list.
LEMMA QuietStep ==
    ASSUME IInv, TypeOK', UNCHANGED <<out, sent, handled, stage, status>>,
           Unfinished' => Unfinished,
           \/ pc' = pc /\ answer' = answer
           \/ pc' \in {"headers", "stream"} /\ pc' # pc
              /\ pc \in {"wait", "headers"} /\ answer' = 200
              /\ \E t \in Nets \ handled : IsData(t)
           \/ pc = "wait" /\ pc' = "failed" /\ answer' \in {204, 413, 500}
           \/ pc \notin {"wait", "failed"} /\ answer' = answer
              /\ pc' \in {"closing", "closed", "draining"}
    PROVE  IInv'
<1> USE DEF Places
<1>1. FootLast'
  BY DEF IInv, FootLast
<1>2. HeadFirst'
  BY Disjoint DEF IInv, HeadFirst
<1>6. HeadsCounted'
  <2>1. \A n \in sent : IsData(n)' /\ status'[n] = status[n]
    BY DEF IInv, HeadsCounted, IsData
  <2>2. \/ pc' = pc
        \/ pc' = "stream" /\ out = <<>> /\ sent = {}
        \/ pc' \notin Nets \cup {"stream"}
    BY Disjoint DEF IInv, HeadFirst
  <2>3. QED
    BY <2>1, <2>2, SameHeads DEF IInv
<1>3. DataAhead'
  BY Disjoint DEF IInv, DataAhead, IsData
<1>4. AnswerMatches'
  BY Disjoint DEF IInv, AnswerMatches, TypeOK
<1>5. QED
  BY <1>1, <1>2, <1>3, <1>4, <1>6 DEF IInv

\* _wait.
LEMMA WaitInv ==
    ASSUME IInv,
           \/ WaitNoData \/ WaitTimeout
           \/ \E t \in Nets : WaitTooLarge(t) \/ WaitFound(t)
    PROVE  IInv'
<1> USE DEF Places
<1>0. TypeOK
  BY DEF IInv
<1>1. ASSUME NEW code \in {204, 413, 500}, Fail(code) PROVE IInv'
  <2>1. TypeOK'
    <3>1. ProcessorTyped
      BY <1>0, <1>1 DEF Fail, TypeOK, ProcessorTyped
    <3>2. QED
      BY <3>1, IdleType
  <2>2. QED
    BY <1>1, <2>1, Disjoint, QuietStep DEF Fail, tasksIdle, Unfinished
<1>2. ASSUME NEW t \in Nets, WaitFound(t) PROVE IInv'
  <2>1. TypeOK'
    <3>1. ProcessorTyped
      BY <1>0, <1>2 DEF WaitFound, TypeOK, ProcessorTyped
    <3>2. QED
      BY <3>1, IdleType
  <2>2. QED
    BY <1>2, <2>1, QuietStep DEF WaitFound, tasksIdle, Unfinished, Sees, IsData
<1>3. QED
  BY <1>1, <1>2 DEF WaitNoData, WaitTimeout, WaitTooLarge

\* A failed result leaves the list; the one with data stays in it.
LEMMA DropInv == ASSUME IInv, NEW t \in Nets, DropFailed(t) PROVE IInv'
<1> USE DEF DropFailed, tasksIdle, Places
<1>1. TypeOK'
  <2>1. ProcessorTyped
    BY DEF IInv, TypeOK, Sees, ProcessorTyped
  <2>2. QED
    BY <2>1, IdleType
<1>2. FootLast' /\ HeadFirst' /\ AnswerMatches'
  BY Disjoint DEF IInv, FootLast, HeadFirst, AnswerMatches, Unfinished
<1>3. DataAhead'
  BY Disjoint DEF IInv, DataAhead, IsData, Sees, Failures, Success
<1>4. HeadsCounted'
  BY SameHeads DEF IInv, HeadsCounted, IsData
<1>5. QED
  BY <1>1, <1>2, <1>3, <1>4 DEF IInv

\* Networks sent empty are finitely many.
LEMMA HollowFinite ==
    ASSUME TypeOK
    PROVE  IsFiniteSet(Hollow) /\ Cardinality(Hollow) \in Nat
<1>1. Hollow \subseteq Tasks
  BY Disjoint DEF TypeOK, Hollow
<1>2. QED
  BY <1>1, ConstantsAssumption, FS_Subset, FS_CardinalityType

\* Header, data and footer.
LEMMA OpenInv == ASSUME IInv, NEW t \in Nets, OpenFile(t) PROVE IInv'
<1> USE DEF OpenFile, tasksIdle, Places
<1>0. TypeOK /\ pc \notin Nets /\ t \notin Places
  BY Disjoint DEF IInv
<1>1. TypeOK'
  <2>1. ProcessorTyped
    BY <1>0 DEF TypeOK, ProcessorTyped
  <2>2. QED
    BY <2>1, IdleType
<1>2. ASSUME Streamed PROVE FootLast' /\ HeadFirst' /\ HeadsCounted'
  <2>1. out' = out /\ Streamed' /\ Hollow' = Hollow
    BY <1>2 DEF Streamed, Hollow
  <2>2. FootLast' /\ HeadFirst'
    BY <1>0, <1>2, <2>1 DEF IInv, FootLast, HeadFirst, Unfinished, Streamed
  <2>3. HeadsCounted'
    BY <1>0, <2>1 DEF IInv, HeadsCounted, IsData
  <2>4. QED
    BY <2>2, <2>3
<1>3. ASSUME ~Streamed PROVE FootLast' /\ HeadFirst' /\ HeadsCounted'
  <2>1. /\ Len(out') = Len(out) + 1 /\ Len(out) \in Nat
        /\ \A i \in DOMAIN out : out'[i] = out[i]
        /\ out'[Len(out) + 1] = "head"
        /\ DOMAIN out = 1 .. Len(out) /\ DOMAIN out' = 1 .. Len(out) + 1
        /\ out = <<>> => Len(out) = 0
    BY <1>0, <1>3 DEF TypeOK
  <2>2. AllHeads /\ Len(out) <= Cardinality(Hollow)
        /\ Streamed' = Streamed /\ Hollow' = Hollow
    BY <1>3 DEF IInv, HeadsCounted, Streamed, Hollow
  <2>3. AllHeads' /\ Len(out') <= 1 + Cardinality(Hollow)
        /\ Cardinality(Hollow) \in Nat
    <3>1. Cardinality(Hollow) \in Nat
      BY <1>0, HollowFinite
    <3>2. QED
      BY <2>1, <2>2, <3>1 DEF AllHeads
  <2>4. FootLast' /\ HeadFirst'
    BY <1>0, <2>1, <2>3 DEF IInv, FootLast, HeadFirst, Unfinished, AllHeads
  <2>5. HeadsCounted'
    <3>1. \A n \in sent' : IsData(n)'
      BY DEF IInv, HeadsCounted, IsData
    <3>2. \A i \in DOMAIN out' : i <= 1 + Cardinality(Hollow)
                               /\ \A j \in 1 .. i : j \in DOMAIN out'
      BY <2>1, <2>3
    <3>3. pc' # "stream"
      BY <1>0
    <3>4. QED
      BY <2>2, <2>3, <3>1, <3>2, <3>3 DEF HeadsCounted, AllHeads
  <2>6. QED
    BY <2>4, <2>5
<1>4. TypeOK' /\ FootLast' /\ HeadFirst' /\ HeadsCounted'
  BY <1>1, <1>2, <1>3
<1>5. DataAhead' /\ AnswerMatches'
  BY <1>0 DEF IInv, DataAhead, AnswerMatches, Sees, IsData
<1>6. QED
  BY <1>4, <1>5 DEF IInv

\* A network is streamed between header and footer.
LEMMA FinishInv == ASSUME IInv, FinishFile PROVE IInv'
<1> USE DEF FinishFile, tasksIdle, Places
<1>0. TypeOK /\ pc \notin Places /\ out # <<>>
  BY Disjoint DEF IInv, HeadFirst
<1>1. /\ pc \notin handled /\ pc \notin sent
      /\ \A n \in sent : IsData(n)
      /\ stage[pc] = "ready" /\ status[pc] \in Success
  BY <1>0, Disjoint DEF IInv, DataAhead, HeadsCounted, TypeOK, IsData
<1>2. ASSUME status[pc] = "Ok"
      PROVE  /\ out' \in Seq({"head", "data", "foot"})
             /\ FootLast' /\ HeadFirst' /\ HeadsCounted'
  <2>1. out' \in Seq({"head", "data", "foot"}) /\ Len(out') = Len(out) + 1
        /\ \A i \in DOMAIN out : out'[i] = out[i]
        /\ out'[Len(out) + 1] = "data" /\ Len(out) \in Nat \ {0}
        /\ DOMAIN out = 1 .. Len(out) /\ DOMAIN out' = 1 .. Len(out) + 1
    BY <1>0, <1>2 DEF TypeOK
  <2>2. Streamed' /\ Hollow' = Hollow
    BY <1>2 DEF Streamed, Hollow
  <2>3. FootLast' /\ HeadFirst'
    BY <1>0, <2>1, Disjoint DEF IInv, FootLast, HeadFirst, Unfinished
  <2>4. HeadsCounted'
    <3>1. \A n \in sent' : IsData(n)'
      BY <1>1 DEF IsData
    <3>2. pc' \notin Nets
      BY Disjoint
    <3>3. ASSUME NEW i \in DOMAIN out', out'[i] = "head"
          PROVE  /\ \A j \in 1 .. i : out'[j] = "head"
                 /\ i <= 1 + Cardinality(Hollow)
      <4>1. i \in DOMAIN out /\ out[i] = "head"
        BY <2>1, <3>3
      <4>2. \A j \in 1 .. i : j \in DOMAIN out
        BY <2>1, <4>1
      <4>3. QED
        BY <2>1, <4>1, <4>2 DEF IInv, HeadsCounted
    <3>4. QED
      BY <2>2, <3>1, <3>2, <3>3 DEF HeadsCounted
  <2>5. QED
    BY <2>1, <2>3, <2>4
<1>3. ASSUME status[pc] = "Empty"
      PROVE  /\ out' \in Seq({"head", "data", "foot"})
             /\ FootLast' /\ HeadFirst' /\ HeadsCounted'
  <2>1. out' = out /\ Streamed' = Streamed /\ Hollow' = Hollow \cup {pc}
    BY <1>3 DEF Streamed, Hollow
  <2>2. Cardinality(Hollow') = Cardinality(Hollow) + 1 /\ Cardinality(Hollow) \in Nat
    BY <1>0, <1>1, <2>1, HollowFinite, FS_AddElement DEF Hollow
  <2>3. FootLast' /\ HeadFirst'
    BY <1>0, <2>1, Disjoint DEF IInv, FootLast, HeadFirst, Unfinished
  <2>4. HeadsCounted'
    <3>1. \A n \in sent' : IsData(n)'
      BY <1>1 DEF IsData
    <3>2. pc' \notin Nets
      BY Disjoint
    <3>3. ~Streamed => AllHeads /\ Len(out) <= 1 + Cardinality(Hollow)
      BY DEF IInv, HeadsCounted
    <3>4. \A i \in DOMAIN out : i \in Nat
      BY <1>0 DEF TypeOK
    <3>5. \A i \in DOMAIN out : out[i] = "head" =>
              /\ \A j \in 1 .. i : out[j] = "head"
              /\ i <= 1 + Cardinality(Hollow')
      BY <2>2, <3>4 DEF IInv, HeadsCounted
    <3>6. ~Streamed => AllHeads /\ Len(out) <= Cardinality(Hollow')
      BY <2>2, <3>3
    <3>7. AllHeads' <=> AllHeads
      BY <2>1 DEF AllHeads
    <3>8. QED
      BY <2>1, <3>1, <3>2, <3>5, <3>6, <3>7 DEF HeadsCounted
  <2>5. QED
    BY <1>0, <2>1, <2>3, <2>4 DEF TypeOK
<1>4. /\ out' \in Seq({"head", "data", "foot"})
      /\ FootLast' /\ HeadFirst' /\ HeadsCounted'
  BY <1>1, <1>2, <1>3 DEF Success
<1>5. TypeOK'
  <2>1. ProcessorTyped
    BY <1>0, <1>4 DEF TypeOK, ProcessorTyped
  <2>2. QED
    BY <2>1, IdleType
<1>6. DataAhead' /\ AnswerMatches'
  BY <1>0, Disjoint DEF IInv, DataAhead, AnswerMatches
<1>7. QED
  BY <1>4, <1>5, <1>6 DEF IInv

\* The footer follows when nothing is left.
LEMMA FootInv == ASSUME IInv, StreamFoot PROVE IInv'
<1> USE DEF StreamFoot, tasksIdle, Places
<1>0. TypeOK /\ sent # {} /\ out # <<>>
  BY DEF IInv, DataAhead, HeadFirst
<1>1. out' \in Seq({"head", "data", "foot"}) /\ Len(out') = Len(out) + 1
      /\ \A i \in DOMAIN out : out'[i] = out[i]
      /\ out'[Len(out) + 1] = "foot" /\ Len(out) \in Nat \ {0}
      /\ DOMAIN out = 1 .. Len(out) /\ DOMAIN out' = 1 .. Len(out) + 1
  BY <1>0 DEF TypeOK
<1>2. TypeOK'
  <2>1. ProcessorTyped
    BY <1>0, <1>1 DEF TypeOK, ProcessorTyped
  <2>2. QED
    BY <2>1, IdleType
<1>3. FootLast'
  BY <1>0, <1>1, Disjoint DEF IInv, FootLast, Unfinished
<1>4. HeadFirst'
  BY <1>0, <1>1, Disjoint DEF IInv, HeadFirst
<1>5. HeadsCounted'
  <2>1. Hollow' = Hollow /\ \A n \in sent : IsData(n)'
    BY DEF IInv, HeadsCounted, Hollow, IsData
  <2>2. pc' \notin Nets \cup {"stream"}
    BY Disjoint
  <2>3. ASSUME NEW i \in DOMAIN out', out'[i] = "head"
        PROVE  /\ \A j \in 1 .. i : out'[j] = "head"
               /\ i <= 1 + Cardinality(Hollow)
    <3>1. i \in DOMAIN out /\ out[i] = "head"
      BY <1>1, <2>3
    <3>2. \A j \in 1 .. i : j \in DOMAIN out
      BY <1>1, <3>1
    <3>3. QED
      BY <1>1, <3>1, <3>2 DEF IInv, HeadsCounted
  <2>4. QED
    BY <2>1, <2>2, <2>3 DEF HeadsCounted
<1>6. DataAhead' /\ AnswerMatches'
  BY <1>0, Disjoint DEF IInv, DataAhead, AnswerMatches
<1>7. QED
  BY <1>2, <1>3, <1>4, <1>5, <1>6 DEF IInv

\* Every other step of the stream and of its ends.
LEMMA StreamInv ==
    ASSUME IInv,
           \/ Begin \/ StreamEnd \/ EarlyClose \/ ClientClose
           \/ Drained \/ ShutdownTimeout \/ TeardownRequest
           \/ \E t \in Nets : StreamTooLarge(t) \/ Drain(t)
    PROVE  IInv'
<1> USE DEF Places, tasksIdle, Unfinished, Release
<1>0. TypeOK
  BY DEF IInv
<1>1. CASE Begin
  <2>1. TypeOK'
    <3>1. ProcessorTyped
      BY <1>0, <1>1 DEF Begin, TypeOK, ProcessorTyped
    <3>2. QED
      BY <3>1, IdleType
  <2>2. \E t \in Nets \ handled : IsData(t)
    BY <1>1 DEF Begin, IInv, DataAhead, HeadFirst
  <2>3. answer' = 200
    BY <1>0, <1>1, Disjoint DEF Begin, IInv, AnswerMatches, TypeOK
  <2>4. QED
    BY <1>1, <2>1, <2>2, <2>3, QuietStep DEF Begin
<1>2. CASE StreamEnd
  <2>1. TypeOK'
    <3>1. ProcessorTyped
      BY <1>0, <1>2 DEF StreamEnd, TypeOK, ProcessorTyped
    <3>2. QED
      BY <3>1, IdleType
  <2>2. QED
    BY <1>2, <2>1, Disjoint, QuietStep DEF StreamEnd
<1>3. CASE EarlyClose
  <2>1. TypeOK'
    <3>1. ProcessorTyped
      BY <1>0, <1>3 DEF EarlyClose, TypeOK, ProcessorTyped
    <3>2. QED
      BY <3>1, IdleType
  <2>2. QED
    BY <1>3, <2>1, Disjoint, QuietStep DEF EarlyClose
<1>4. CASE ClientClose
  <2>1. TypeOK'
    <3>1. ProcessorTyped
      BY <1>0, <1>4 DEF ClientClose, TypeOK, ProcessorTyped
    <3>2. QED
      BY <3>1, IdleType
  <2>2. QED
    BY <1>4, <2>1, Disjoint, QuietStep DEF ClientClose
<1>5. CASE Drained
  <2>1. TypeOK'
    <3>1. ProcessorTyped
      BY <1>0, <1>5 DEF Drained, TypeOK, ProcessorTyped
    <3>2. QED
      BY <3>1, IdleType
  <2>2. QED
    BY <1>5, <2>1, Disjoint, QuietStep DEF Drained
<1>6. CASE ShutdownTimeout
  <2>1. TypeOK'
    <3>1. ProcessorTyped
      BY <1>0, <1>6 DEF ShutdownTimeout, TypeOK, ProcessorTyped
    <3>2. QED
      BY <3>1, IdleType
  <2>2. QED
    BY <1>6, <2>1, Disjoint, QuietStep DEF ShutdownTimeout
<1>7. CASE TeardownRequest
  <2>1. UNCHANGED <<pc, answer, handled, sent, out, leaving, drained>>
    BY <1>7 DEF TeardownRequest, procVars
  <2>2. TypeOK'
    <3>1. /\ tasksIdle /\ files' = files /\ lock' = FALSE
          /\ pc' = pc /\ answer' = answer /\ handled' = handled /\ sent' = sent
          /\ out' = out /\ leaving' = leaving /\ drained' = drained
      BY <1>7 DEF TeardownRequest, procVars
    <3> HIDE DEF Places, Unfinished, Release
    <3>2. /\ files' \subseteq Tasks /\ lock' \in BOOLEAN
          /\ leaving' \in {"no", "graceful", "forced"} /\ drained' \subseteq Nets
      BY <1>0, <3>1 DEF TypeOK
    <3>3. sent' \subseteq handled' /\ handled' \subseteq Nets /\ pc' \in Nets \cup Places
      BY <1>0, <3>1 DEF TypeOK
    <3>4. answer' \in {0, 200, 204, 413, 500} /\ out' \in Seq({"head", "data", "foot"})
      BY <1>0, <3>1 DEF TypeOK
    <3>5. ProcessorTyped
      BY <3>1, <3>2, <3>3, <3>4 DEF ProcessorTyped
    <3>6. QED
      BY <3>5, IdleType
  <2>3. QED
    BY <1>7, <2>1, <2>2, QuietStep DEF TeardownRequest
<1>8. ASSUME NEW t \in Nets, StreamTooLarge(t) PROVE IInv'
  <2>1. TypeOK'
    <3>1. ProcessorTyped
      BY <1>0, <1>8 DEF StreamTooLarge, TypeOK, ProcessorTyped
    <3>2. QED
      BY <3>1, IdleType
  <2>2. QED
    BY <1>8, <2>1, Disjoint, QuietStep DEF StreamTooLarge
<1>9. ASSUME NEW t \in Nets, Drain(t) PROVE IInv'
  <2>1. TypeOK'
    <3>1. ProcessorTyped
      BY <1>0, <1>9 DEF Drain, TypeOK, ProcessorTyped
    <3>2. QED
      BY <3>1, IdleType
  <2>2. QED
    BY <1>9, <2>1, QuietStep DEF Drain
<1>10. QED
  BY <1>1, <1>2, <1>3, <1>4, <1>5, <1>6, <1>7, <1>8, <1>9

\* Killing the workers leaves results that are ready alone.
LEMMA CallOnCloseInv == ASSUME IInv, CallOnClose PROVE IInv'
<1> USE DEF CallOnClose, Places
<1>1. TypeOK'
  <2>1. stage' \in [Tasks -> Stages]
    BY DEF IInv, TypeOK, Stages
  <2>2. Elements' = Elements
    BY DEF Elements, Key
  <2>3. QED
    BY <2>1, <2>2 DEF IInv, TypeOK
<1>2. FootLast' /\ HeadFirst' /\ DataAhead' /\ AnswerMatches'
  BY Disjoint DEF IInv, FootLast, HeadFirst, DataAhead, AnswerMatches, Unfinished
<1>3. HeadsCounted'
  <2>1. \A n \in sent : IsData(n) /\ n \in Tasks
    BY Disjoint DEF IInv, HeadsCounted, TypeOK
  <2>2. \A n \in sent : IsData(n)' /\ status'[n] = status[n]
    BY <2>1 DEF IsData
  <2>3. pc' \notin Nets \cup {"stream"} /\ UNCHANGED <<out, sent>>
    BY Disjoint
  <2>4. QED
    BY <2>2, <2>3, SameHeads DEF IInv
<1>4. QED
  BY <1>1, <1>2, <1>3 DEF IInv

\* The invariant is inductive.
LEMMA NextInv == ASSUME IInv, [Next]_vars PROVE IInv'
<1>1. ASSUME UNCHANGED vars PROVE IInv'
  <2>1. TypeOK' /\ FootLast' /\ HeadFirst'
    BY <1>1 DEF vars, procVars, IInv, TypeOK, FootLast, HeadFirst, Unfinished,
                Elements, Key
  <2>2. DataAhead' /\ AnswerMatches'
    BY <1>1 DEF vars, procVars, IInv, DataAhead, AnswerMatches, IsData
  <2>3. HeadsCounted'
    BY <1>1, SameHeads DEF vars, procVars, IInv, HeadsCounted, IsData
  <2>4. QED
    BY <2>1, <2>2, <2>3 DEF IInv
<1>2. QED
  BY <1>1, LoaderInv, CombinerInv, WaitInv, DropInv, OpenInv, FinishInv, FootInv,
     StreamInv, CallOnCloseInv
     DEF Next, Working, Processing, Timeouts, Idle

\* The invariant holds for every request.
LEMMA SpecInv == Spec => []IInv
BY InitInv, NextInv, PTL DEF Spec

-----------------------------------------------------------------------------
(* Theorems. *)

\* Type correctness of the processor and of the tasks of both levels.
THEOREM TypeCorrect == Spec => []TypeOK
BY SpecInv, PTL DEF IInv

\* The client reads one StationXML document, header first and footer last,
\* whatever tasks fail and in whatever order they end, but for headers repeated
\* at its top: not more of them than networks were sent empty.
THEOREM DocumentIsOne == Spec => []OneDocument
<1>1. IInv => OneDocument
  BY DEF IInv, FootLast, HeadFirst, HeadsCounted, OneDocument
<1>2. QED
  BY <1>1, SpecInv, PTL

-----------------------------------------------------------------------------
(* Refinement. *)

\* What the phase is at each place.
LEMMA PhaseIs ==
    ASSUME IInv
    PROVE  /\ pc = "wait" => Phase = "pending"
           /\ pc = "failed" => Phase = "refused"
           /\ pc \in Nets \cup {"headers", "stream"} => Phase = "streaming"
           /\ pc \notin Nets \cup {"wait", "failed", "headers", "stream"} =>
                 Phase = IF LastIsFoot THEN "complete" ELSE "broken"
<1>1. pc \in Nets \cup {"headers", "stream"} => ~LastIsFoot
  BY DEF IInv, FootLast, Unfinished, LastIsFoot, TypeOK
<1>2. pc \notin {"wait", "failed"} => answer = 200
  BY DEF IInv, AnswerMatches, TypeOK
<1>3. pc \in Nets => pc \notin {"wait", "failed"}
  BY Disjoint DEF Places
<1>4. QED
  BY <1>1, <1>2, <1>3 DEF IInv, AnswerMatches, Phase

\* ... and at the next one.
LEMMA PhaseWillBe ==
    ASSUME IInv'
    PROVE  /\ pc' = "failed" => Phase' = "refused"
           /\ pc' \in Nets \cup {"headers", "stream"} => Phase' = "streaming"
           /\ pc' \notin Nets \cup {"wait", "failed", "headers", "stream"} =>
                 Phase' = IF LastIsFoot' THEN "complete" ELSE "broken"
<1>1. pc' \in Nets \cup {"headers", "stream"} => ~LastIsFoot'
  BY DEF IInv, FootLast, Unfinished, LastIsFoot, TypeOK
<1>2. pc' \notin {"wait", "failed"} => answer' = 200
  BY DEF IInv, AnswerMatches, TypeOK
<1>3. pc' \in Nets => pc' \notin {"wait", "failed"}
  BY Disjoint DEF Places
<1>4. QED
  BY <1>1, <1>2, <1>3 DEF IInv, AnswerMatches, Phase

\* What is left of the list is what is open.
LEMMA OpenIs ==
    ASSUME IInv
    PROVE  /\ Response!Open = Nets \ handled
           /\ sent \subseteq handled /\ handled \subseteq Nets
BY DEF IInv, TypeOK, Response!Open

\* Requests begin as a pending response.
LEMMA InitMaps == Init => Response!Init
BY DEF Init, Phase, Response!Init

\* Steps of _wait: a failure, a refusal or the first data.
LEMMA WaitMaps ==
    ASSUME IInv, IInv',
           \/ WaitNoData \/ WaitTimeout
           \/ \E t \in Nets : DropFailed(t) \/ WaitTooLarge(t) \/ WaitFound(t)
    PROVE  Response!Next
<1> USE PhaseIs, PhaseWillBe, OpenIs
<1>1. ASSUME NEW t \in Nets, DropFailed(t) PROVE Response!Next
  <2>1. Phase \in {"pending", "streaming"} /\ Phase' = Phase
    BY <1>1 DEF DropFailed, Phase, LastIsFoot
  <2>2. /\ t \in Response!Open
        /\ (handled \ sent)' = (handled \ sent) \cup {t}
        /\ UNCHANGED <<answer, sent>>
    BY <1>1 DEF DropFailed, Sees
  <2>3. Response!Lose
    BY <2>1, <2>2 DEF Response!Lose
  <2>4. QED
    BY <2>3 DEF Response!Next
<1>2. ASSUME NEW code \in {204, 413, 500}, Fail(code), code = 204 => handled = Nets
      PROVE  Response!Next
  <2>1. Response!Refuse(code)
    BY <1>2 DEF Fail, Response!Refuse
  <2>2. QED
    BY <2>1 DEF Response!Next
<1>3. ASSUME NEW t \in Nets, WaitFound(t) PROVE Response!Next
  <2>1. t \in Response!Open
    BY <1>3 DEF WaitFound, Sees
  <2>2. Response!Accept
    BY <1>3, <2>1 DEF WaitFound, Response!Accept
  <2>3. QED
    BY <2>2 DEF Response!Next
<1>4. QED
  BY <1>1, <1>2, <1>3 DEF WaitTooLarge, WaitNoData, WaitTimeout

\* A network is sent, the stream ends or breaks.
LEMMA StreamMaps ==
    ASSUME IInv, IInv',
           \/ FinishFile \/ StreamFoot \/ EarlyClose
           \/ ClientClose /\ pc \in Nets
           \/ \E t \in Nets : StreamTooLarge(t)
    PROVE  Response!Next
<1> USE PhaseIs, PhaseWillBe, OpenIs
<1>1. CASE FinishFile
  <2>1. pc \in Response!Open
    BY <1>1 DEF FinishFile, IInv, DataAhead
  <2>2. /\ (handled \ sent)' = handled \ sent /\ sent' = sent \cup {pc}
        /\ Phase = "streaming" /\ Phase' = "streaming" /\ answer' = answer
    BY <1>1, <2>1 DEF FinishFile
  <2>3. Response!Send
    BY <2>1, <2>2 DEF Response!Send
  <2>4. QED
    BY <2>3 DEF Response!Next
<1>2. CASE StreamFoot
  <2>1. Response!Open = {} /\ sent # {}
    BY <1>2 DEF StreamFoot, IInv, DataAhead
  <2>2. LastIsFoot'
    BY <1>2 DEF StreamFoot, LastIsFoot, IInv, TypeOK
  <2>3. Phase = "streaming" /\ Phase' = "complete"
    <3>1. pc' \notin Nets \cup {"wait", "failed", "headers", "stream"}
      BY <1>2, Disjoint DEF StreamFoot, Places
    <3>2. QED
      BY <1>2, <2>2, <3>1 DEF StreamFoot
  <2>4. Response!Complete
    BY <1>2, <2>1, <2>3 DEF StreamFoot, Response!Complete
  <2>5. QED
    BY <2>4 DEF Response!Next
<1>3. CASE \/ EarlyClose
           \/ ClientClose /\ pc \in Nets
           \/ \E t \in Nets : StreamTooLarge(t)
  <2>1. pc \in Nets \cup {"headers", "stream"} /\ pc' \in {"closing", "draining"}
        /\ UNCHANGED <<answer, handled, sent, out>>
    BY <1>3 DEF StreamTooLarge, EarlyClose, ClientClose
  <2>2. pc' \notin Nets
    BY <2>1, Disjoint DEF Places
  <2>3. ~LastIsFoot'
    BY <2>1 DEF LastIsFoot, IInv, FootLast, Unfinished, TypeOK
  <2>4. Response!Break
    BY <2>1, <2>2, <2>3 DEF Response!Break
  <2>5. QED
    BY <2>4 DEF Response!Next
<1>4. QED
  BY <1>1, <1>2, <1>3

\* Everything else is a stutter.
LEMMA QuietMaps ==
    ASSUME IInv, IInv',
           \/ Begin \/ StreamEnd \/ Drained \/ ShutdownTimeout \/ CallOnClose
           \/ ClientClose /\ pc \notin Nets
           \/ \E t \in Nets : OpenFile(t) \/ Drain(t)
           \/ TeardownRequest \/ Working \/ UNCHANGED vars
    PROVE  UNCHANGED Response!vars
<1> USE PhaseIs, PhaseWillBe
<1> SUFFICES Phase' = Phase /\ UNCHANGED <<answer, sent, handled>>
  BY DEF Response!vars
<1>1. CASE Begin \/ \E t \in Nets : OpenFile(t)
  BY <1>1 DEF Begin, OpenFile
<1>2. CASE TeardownRequest \/ Working \/ UNCHANGED vars
  <2>1. UNCHANGED procVars
    BY <1>2 DEF TeardownRequest, Working, Refuse, Download, DownloadOk, DownloadError,
                DownloadCrash, GuardExit, Deliver, Combine, Dump, Close, Joined, Merge,
                MergeCrash, Move, vars
  <2>2. QED
    BY <2>1 DEF procVars, Phase, LastIsFoot
<1>3. CASE \/ StreamEnd \/ Drained \/ ShutdownTimeout \/ CallOnClose
           \/ ClientClose /\ pc \notin Nets
           \/ \E t \in Nets : Drain(t)
  <2>1. UNCHANGED <<answer, sent, handled, out>>
    BY <1>3 DEF StreamEnd, ClientClose, Drain, Drained, ShutdownTimeout, CallOnClose
  <2>2. /\ pc \in {"foot", "draining", "closing"}
        /\ pc' \in {"draining", "closing", "closed"}
    BY <1>3 DEF StreamEnd, ClientClose, Drain, Drained, ShutdownTimeout, CallOnClose
  <2>3. /\ pc \notin Nets \cup {"wait", "failed", "headers", "stream"}
        /\ pc' \notin Nets \cup {"wait", "failed", "headers", "stream"}
    BY <2>2, Disjoint DEF Places
  <2>4. LastIsFoot' = LastIsFoot
    BY <2>1 DEF LastIsFoot
  <2>5. QED
    BY <2>1, <2>3, <2>4
<1>4. QED
  BY <1>1, <1>2, <1>3

\* Every step of a request is a step of the abstract response or none.
LEMMA NextMaps == ASSUME IInv, IInv', [Next]_vars PROVE [Response!Next]_(Response!vars)
BY WaitMaps, StreamMaps, QuietMaps DEF Next, Processing, Timeouts, Idle

\* The StationXML processor keeps every promise of FederatedResponse: no
\* network is sent twice, "no data" is said only when all have failed, and the
\* response is complete only if every network was sent or given up.
THEOREM ImplementsResponse == Spec => Implements
<1>1. IInv /\ IInv' /\ [Next]_vars => [Response!Next]_(Response!vars)
  BY NextMaps
<1>2. QED
  BY <1>1, InitMaps, SpecInv, PTL DEF Spec, Implements, Response!Spec

-----------------------------------------------------------------------------
(* The tree of contexts. *)

\* Networks are appended to the root, routes to their combiner, and no task of
\* a combiner runs before it is appended.
Attached ==
    /\ \A t \in Nets : t \in DOMAIN parent /\ parent[t] = "root"
    /\ \A r \in Routes : /\ stage[r] # "absent" => r \in DOMAIN parent
                         /\ r \in DOMAIN parent => parent[r] = NetOf[r]
    /\ \A t \in Tasks : stage[t] = "absent" => t \in Routes

Live == pc \in Nets \cup {"wait", "headers", "stream", "foot"}

\* Until the processor terminates, the lock is held and nothing is torn down.
NoneTorn ==
    Live => /\ lock /\ leaving = "no"
            /\ \A t \in Tasks : status[t] # "Torn" /\ stage[t] # "joining"

LockInv == IInv /\ Attached /\ NoneTorn

\* The way up from a context that has been appended ends at the root.
LEMMA UpToRoot ==
    ASSUME TypeOK, Attached PROVE \A t \in DOMAIN parent : RootOf[t] = "root"
<1> DEFINE S == Tasks \cup {"root"}
           P(f) == f = [c \in S |-> IF c \in DOMAIN parent THEN f[parent[c]] ELSE c]
           g == [c \in S |-> IF c \in DOMAIN parent THEN "root" ELSE c]
<1>1. RootOf = CHOOSE f : P(f)
  BY DEF RootOf
<1>2. /\ Tasks = Nets \cup Routes /\ "root" \notin Tasks
      /\ \A r \in Routes : NetOf[r] \in Nets
      /\ DOMAIN parent \subseteq Tasks
  BY ConstantsAssumption DEF Tasks, Nets, Loaders, TypeOK
<1>3. \A c \in DOMAIN parent : parent[c] = "root" \/ parent[c] \in Nets
  BY <1>2 DEF Attached
<1>4. P(g)
  BY <1>2, <1>3 DEF Attached
<1> HIDE DEF g
<1>5. P(RootOf)
  <2> HIDE DEF P
  <2> QED
    BY <1>1, <1>4
<1>6. RootOf["root"] = "root"
  BY <1>2, <1>5
<1>7. \A t \in Nets : RootOf[t] = "root"
  BY <1>2, <1>5, <1>6 DEF Attached
<1>8. QED
  BY <1>2, <1>3, <1>5, <1>6, <1>7

\* So a task that has begun is as locked as the request.
LEMMA LockedIs ==
    ASSUME LockInv, NEW t \in Tasks, stage[t] # "absent"
    PROVE  Locked(t) <=> lock
<1>1. TypeOK /\ Attached
  BY DEF LockInv, IInv
<1>2. t \in DOMAIN parent
  BY <1>1 DEF Attached, Tasks, Nets, Loaders
<1>3. RootOf[t] = "root"
  BY <1>1, <1>2, UpToRoot
<1>4. QED
  BY <1>3 DEF Locked

\* A task moves, and says that it was torn down only if the lock is gone.
LEMMA MoveLock ==
    ASSUME LockInv, IInv', NEW t \in Tasks, NEW from, NEW to, NEW code,
           from # "absent", to # "absent", Move(t, from, to, code), UNCHANGED parent,
           lock => code # "Torn" /\ to # "joining"
    PROVE  LockInv'
<1>1. /\ stage \in [Tasks -> Stages] /\ status \in [Tasks -> Codes] /\ stage[t] # "absent"
      /\ stage' = [stage EXCEPT ![t] = to] /\ status' = [status EXCEPT ![t] = code]
      /\ lock' = lock /\ pc' = pc /\ leaving' = leaving /\ parent' = parent
  BY DEF Move, procVars, LockInv, IInv, TypeOK
<1>2. Attached'
  BY <1>1 DEF LockInv, Attached
<1>3. NoneTorn'
  BY <1>1 DEF LockInv, NoneTorn, Live
<1>4. QED
  BY <1>2, <1>3 DEF LockInv

LEMMA WorkingLock == ASSUME LockInv, IInv', Working PROVE LockInv'
<1> USE MoveLock
<1>0. /\ Combiners \subseteq Tasks /\ status \in [Tasks -> Codes]
      /\ stage \in [Tasks -> Stages] /\ \A c \in Combiners : RoutesOf(c) \subseteq Tasks
  BY Disjoint DEF LockInv, IInv, TypeOK
<1>1. ASSUME NEW t \in Tasks, Refuse(t) PROVE LockInv'
  <2>1. ~Locked(t) => ~lock
    BY <1>1, LockedIs DEF Refuse, CanTake
  <2>2. QED
    BY <1>1, <2>1 DEF Refuse
<1>2. ASSUME NEW t \in Tasks, Download(t) \/ DownloadOk(t) \/ DownloadError(t) \/ DownloadCrash(t)
      PROVE  LockInv'
  BY <1>2 DEF Download, DownloadOk, DownloadError, DownloadCrash, Success
<1>3. ASSUME NEW t \in Tasks, GuardExit(t) PROVE LockInv'
  <2>1. Locked(t) <=> lock
    BY <1>3, LockedIs DEF GuardExit, Move
  <2>2. lock => status[t] # "Torn" \/ ~Live
    BY DEF LockInv, NoneTorn
  <2>3. CASE Live
    BY <1>3, <2>1, <2>2, <2>3 DEF GuardExit, LockInv, NoneTorn
  <2>4. CASE ~Live
    <3>1. /\ stage' = [stage EXCEPT ![t] = "returned"] /\ stage[t] = "guard"
          /\ pc' = pc /\ parent' = parent
      BY <1>3 DEF GuardExit, Move, procVars
    <3>2. Attached' /\ NoneTorn'
      BY <1>0, <2>4, <3>1 DEF LockInv, Attached, NoneTorn, Live
    <3>3. QED
      BY <3>2 DEF LockInv
  <2>5. QED
    BY <2>3, <2>4
<1>4. ASSUME NEW t \in Tasks, Deliver(t) PROVE LockInv'
  <2>1. /\ stage' = [stage EXCEPT ![t] = "ready"] /\ stage[t] = "returned"
        /\ status' = [status EXCEPT ![t] = status[t]]
        /\ pc' = pc /\ parent' = parent /\ lock' = lock /\ leaving' = leaving
    BY <1>4 DEF Deliver, Move, procVars
  <2>2. Attached' /\ NoneTorn'
    BY <1>0, <2>1 DEF LockInv, Attached, NoneTorn, Live
  <2>3. QED
    BY <2>2 DEF LockInv
<1>5. ASSUME NEW c \in Combiners, Combine(c) PROVE LockInv'
  <2>1. /\ stage' = [t \in Tasks |-> IF t = c THEN "combine"
                                     ELSE IF t \in RoutesOf(c) THEN "queued"
                                     ELSE stage[t]]
        /\ parent' = WithContexts(c)
        /\ UNCHANGED <<status, lock, pc, leaving>>
    BY <1>5 DEF Combine, procVars
  <2>2. c \notin Routes /\ RoutesOf(c) \cap Nets = {} /\ RoutesOf(c) \subseteq Routes
        /\ Nets \cap Routes = {}
    BY Disjoint
  <2>3. Attached'
    <3>1. DOMAIN parent' = RoutesOf(c) \cup DOMAIN parent
      BY <2>1 DEF WithContexts
    <3>2. \A t \in DOMAIN parent' :
              parent'[t] = IF t \in RoutesOf(c) THEN c ELSE parent[t]
      BY <2>1 DEF WithContexts
    <3>3. \A r \in RoutesOf(c) : NetOf[r] = c
      BY DEF RoutesOf
    <3>4. \A t \in Nets : t \in DOMAIN parent' /\ parent'[t] = "root"
      BY <2>2, <3>1, <3>2 DEF LockInv, Attached
    <3>5. \A r \in Routes : /\ stage'[r] # "absent" => r \in DOMAIN parent'
                            /\ r \in DOMAIN parent' => parent'[r] = NetOf[r]
      BY <1>0, <2>1, <2>2, <3>1, <3>2, <3>3, Disjoint DEF LockInv, Attached
    <3>6. \A t \in Tasks : stage'[t] = "absent" => t \in Routes
      BY <2>1 DEF LockInv, Attached
    <3>7. QED
      BY <3>4, <3>5, <3>6 DEF Attached
  <2>4. NoneTorn'
    BY <2>1 DEF LockInv, NoneTorn, Live
  <2>5. QED
    BY <2>3, <2>4 DEF LockInv
<1>6. ASSUME NEW c \in Combiners, Dump(c) PROVE LockInv'
  BY <1>0, <1>6 DEF Dump
<1>7. ASSUME NEW c \in Combiners, Close(c) PROVE LockInv'
  <2>1. ~lock
    BY <1>0, <1>7, LockedIs DEF Close, Move
  <2>2. QED
    BY <1>0, <1>7, <2>1 DEF Close
<1>8. ASSUME NEW c \in Combiners, Joined(c) PROVE LockInv'
  <2>1. ~Live /\ stage[c] = "joining"
    BY <1>0, <1>8 DEF Joined, Move, LockInv, NoneTorn
  <2>2. /\ stage' = [stage EXCEPT ![c] = "returned"]
        /\ pc' = pc /\ parent' = parent
    BY <1>8 DEF Joined, Move, procVars
  <2>3. Attached' /\ NoneTorn'
    BY <1>0, <2>1, <2>2 DEF LockInv, Attached, NoneTorn, Live
  <2>4. QED
    BY <2>3 DEF LockInv
<1>9. ASSUME NEW c \in Combiners, NEW r \in Routes, Merge(c, r) PROVE LockInv'
  <2>1. /\ stage' = [stage EXCEPT ![r] = "taken"] /\ stage[r] = "ready" /\ r \in Tasks
        /\ UNCHANGED <<status, pc, parent, lock, leaving>>
    BY <1>9, Disjoint DEF Merge, procVars
  <2>2. Attached' /\ NoneTorn'
    BY <1>0, <2>1 DEF LockInv, Attached, NoneTorn, Live
  <2>3. QED
    BY <2>2 DEF LockInv
<1>10. ASSUME NEW c \in Combiners, NEW r \in Routes, MergeCrash(c, r) PROVE LockInv'
  BY <1>0, <1>10 DEF MergeCrash
<1>11. QED
  BY <1>1, <1>2, <1>3, <1>4, <1>5, <1>6, <1>7, <1>8, <1>9, <1>10 DEF Working

\* Steps of the processor alone.
Alone ==
    \/ WaitNoData \/ WaitTimeout \/ Begin \/ FinishFile \/ StreamFoot \/ StreamEnd
    \/ EarlyClose \/ ClientClose \/ Drained \/ ShutdownTimeout \/ TeardownRequest
    \/ \E t \in Nets : \/ DropFailed(t) \/ WaitTooLarge(t) \/ WaitFound(t) \/ OpenFile(t)
                       \/ StreamTooLarge(t) \/ Drain(t)

\* They leave the tasks to themselves, and the lock while they go on.
LEMMA AloneSteps ==
    ASSUME IInv, Alone
    PROVE  /\ tasksIdle
           /\ Live' => Live /\ lock' = lock /\ leaving' = leaving
<1> DEFINE Quiet == tasksIdle /\ (Live' => Live /\ lock' = lock /\ leaving' = leaving)
<1> USE DEF Live
<1>1. ASSUME NEW code, Fail(code) PROVE Quiet
  BY <1>1, Disjoint DEF Fail, Places
<1>2. CASE Begin \/ FinishFile \/ StreamFoot
  BY <1>2 DEF Begin, FinishFile, StreamFoot
<1>3. CASE StreamEnd \/ EarlyClose \/ ClientClose \/ Drained \/ ShutdownTimeout
  BY <1>3, Disjoint DEF StreamEnd, EarlyClose, ClientClose, Drained, ShutdownTimeout, Places
<1>4. CASE TeardownRequest
  BY <1>4, Disjoint DEF TeardownRequest, Places, procVars
<1>5. ASSUME NEW t \in Nets, StreamTooLarge(t) \/ Drain(t) PROVE Quiet
  BY <1>5, Disjoint DEF StreamTooLarge, Drain, Places
<1>6. ASSUME NEW t \in Nets, DropFailed(t) \/ WaitFound(t) \/ OpenFile(t) PROVE Quiet
  BY <1>6 DEF DropFailed, WaitFound, OpenFile
<1>7. QED
  BY <1>1, <1>2, <1>3, <1>4, <1>5, <1>6 DEF Alone, WaitNoData, WaitTimeout, WaitTooLarge

LEMMA NextLock == ASSUME LockInv, [Next]_vars PROVE LockInv'
<1>1. IInv /\ IInv'
  BY NextInv DEF LockInv
<1>2. CASE Working
  BY <1>1, <1>2, WorkingLock
<1>3. CASE Alone
  <2>1. tasksIdle /\ (Live' => Live /\ lock' = lock /\ leaving' = leaving)
    BY <1>1, <1>3, AloneSteps
  <2>2. QED
    BY <1>1, <2>1 DEF tasksIdle, LockInv, Attached, NoneTorn
<1>4. CASE CallOnClose
  <2>1. /\ stage' = [t \in Tasks |-> IF stage[t] \in {"absent", "ready", "taken"}
                                       THEN stage[t] ELSE "killed"]
        /\ UNCHANGED <<parent, status>> /\ pc' = "closed"
    BY <1>4 DEF CallOnClose
  <2>2. Attached'
    BY <2>1, Disjoint DEF LockInv, Attached
  <2>3. NoneTorn'
    BY <2>1, Disjoint DEF NoneTorn, Live, Places
  <2>4. QED
    BY <1>1, <2>2, <2>3 DEF LockInv
<1>5. CASE UNCHANGED vars
  BY <1>1, <1>5 DEF vars, procVars, LockInv, Attached, NoneTorn, Live
<1>6. QED
  BY <1>2, <1>3, <1>4, <1>5 DEF Next, Processing, Timeouts, Idle, Alone

LEMMA InitLock == Init => LockInv
<1> SUFFICES ASSUME Init PROVE LockInv
  OBVIOUS
<1>1. IInv
  BY InitInv
<1>2. Attached
  BY Disjoint DEF Init, Attached, Tasks, Loaders, Nets
<1>3. NoneTorn
  BY DEF Init, NoneTorn
<1>4. QED
  BY <1>1, <1>2, <1>3 DEF LockInv

\* Contexts of both levels see the lock of the request, which is held as long
\* as the processor needs its tasks: none of them is torn down before.
THEOREM NothingTorn == Spec => []NothingTornWhileLive
<1>1. LockInv => NothingTornWhileLive
  BY DEF LockInv, NoneTorn, Live, NothingTornWhileLive
<1>2. QED
  BY InitLock, NextLock, <1>1, PTL DEF Spec

-----------------------------------------------------------------------------
(* Stages and results. *)

NoResult == {"absent", "queued", "download", "combine", "joining"}

\* Which stages a task passes, and what its result says of them: a network is
\* dumped, or found to have no data, when all its routes have been taken.
StagesMatch ==
    /\ \A t \in Tasks : /\ stage[t] = "download" => t \in Loaders
                        /\ stage[t] \in NoResult => status[t] = "none"
    /\ \A c \in Combiners :
          /\ stage[c] = "queued" => \A r \in RoutesOf(c) : stage[r] = "absent"
          /\ stage[c] \in {"guard", "returned", "ready"} =>
                 status[c] \in {"Ok", "Empty", "NoData", "Torn", "TaskError"}
          /\ status[c] \in {"Ok", "Empty", "NoData"} => AllTaken(c)

\* What a combiner has merged are documents of routes it has taken.
TreeTaken ==
    \A c \in Combiners : \A e \in tree[c] : e[1] \in RoutesOf(c) /\ stage[e[1]] = "taken"

KeysOf(r) == {Key(p) : p \in Doc[r]}

\* Every document it has taken is in the tree, the elements once.
MergedWhole ==
    \A c \in Combiners :
        /\ \A r \in RoutesOf(c) : stage[r] = "taken" /\ status[r] = "Ok" =>
              KeysOf(r) \subseteq {e[2] : e \in tree[c]}
        /\ \A e, f \in tree[c] :
              e # f /\ e[2] = f[2] => level = "channel" /\ e[1] # f[1]

MergeInv ==
    /\ LockInv
    /\ StagesMatch
    /\ TreeTaken
    /\ MergedWhole

\* Where a task may go, and with what: not back, and a combiner returns data or
\* none only when it has taken all.
MovesOn(t, from, to, code) ==
    /\ stage[t] = from /\ from \notin {"absent", "ready", "taken"}
    /\ stage' = [stage EXCEPT ![t] = to] /\ status' = [status EXCEPT ![t] = code]
    /\ UNCHANGED <<tree, level>>
    /\ to \notin {"absent", "queued", "taken", "killed"}
    /\ to = "download" => t \in Loaders
    /\ to \in NoResult => code = "none"
    /\ t \in Combiners /\ to \in {"guard", "returned", "ready"} =>
          code \in {"Ok", "Empty", "NoData", "Torn", "TaskError"}
    /\ t \in Combiners /\ code \in {"Ok", "Empty", "NoData"} => AllTaken(t)

\* Routes belong to one combiner each.
LEMMA RoutesApart ==
    /\ \A c \in Combiners : RoutesOf(c) \subseteq Routes /\ RoutesOf(c) \cap Combiners = {}
    /\ \A c, d \in Combiners : c # d => RoutesOf(c) \cap RoutesOf(d) = {}
BY Disjoint DEF RoutesOf

\* What has been taken is left alone by all who move on.
LEMMA MovedOn ==
    ASSUME MergeInv, LockInv', NEW t \in Tasks, NEW from, NEW to, NEW code,
           MovesOn(t, from, to, code)
    PROVE  MergeInv'
<1>1. /\ stage \in [Tasks -> Stages] /\ status \in [Tasks -> Codes]
      /\ Combiners \subseteq Tasks /\ \A c \in Combiners : RoutesOf(c) \subseteq Tasks
  BY Disjoint DEF MergeInv, LockInv, IInv, TypeOK
<1>2. \A u \in Tasks : stage[u] \in {"taken", "absent"} =>
                           stage'[u] = stage[u] /\ status'[u] = status[u]
  BY <1>1 DEF MovesOn
<1>3. \A u \in Tasks : stage'[u] = "taken" => stage[u] = "taken"
  BY <1>1 DEF MovesOn
<1>4. \A u \in Tasks : u # t => stage'[u] = stage[u] /\ status'[u] = status[u]
  BY <1>1 DEF MovesOn
<1>5. stage'[t] = to /\ status'[t] = code
  BY <1>1 DEF MovesOn
<1>6. StagesMatch'
  <2>1. \A u \in Tasks : /\ stage'[u] = "download" => u \in Loaders
                         /\ stage'[u] \in NoResult => status'[u] = "none"
    BY <1>4, <1>5 DEF MovesOn, MergeInv, StagesMatch
  <2>2. ASSUME NEW c \in Combiners
        PROVE  /\ stage'[c] = "queued" => \A r \in RoutesOf(c) : stage'[r] = "absent"
               /\ stage'[c] \in {"guard", "returned", "ready"} =>
                      status'[c] \in {"Ok", "Empty", "NoData", "Torn", "TaskError"}
               /\ status'[c] \in {"Ok", "Empty", "NoData"} => AllTaken(c)'
    <3>1. AllTaken(c) => AllTaken(c)'
      BY <1>1, <1>2 DEF AllTaken
    <3>2. CASE c = t
      BY <1>5, <3>1, <3>2 DEF MovesOn
    <3>3. CASE c # t
      <4>1. stage'[c] = stage[c] /\ status'[c] = status[c]
        BY <1>1, <1>4, <3>3
      <4>2. (\A r \in RoutesOf(c) : stage[r] = "absent") =>
                \A r \in RoutesOf(c) : stage'[r] = "absent"
        BY <1>1, <1>2
      <4>3. QED
        BY <3>1, <4>1, <4>2 DEF MergeInv, StagesMatch
    <3>4. QED
      BY <3>2, <3>3
  <2>3. QED
    BY <2>1, <2>2 DEF StagesMatch
<1>7. TreeTaken'
  BY <1>1, <1>2 DEF MovesOn, MergeInv, TreeTaken
<1>8. MergedWhole'
  <2>1. \A r \in Routes : KeysOf(r)' = KeysOf(r)
    BY DEF MovesOn, KeysOf, Key
  <2>2. \A c \in Combiners : \A r \in RoutesOf(c) :
            stage'[r] = "taken" /\ status'[r] = "Ok" => stage[r] = "taken" /\ status[r] = "Ok"
    BY <1>1, <1>2, <1>3
  <2>3. QED
    BY <2>1, <2>2, RoutesApart DEF MovesOn, MergeInv, MergedWhole
<1>9. QED
  BY <1>6, <1>7, <1>8 DEF MergeInv

\* The combiner appends its downloads: they have not been merged before.
LEMMA CombineMerge == ASSUME MergeInv, LockInv', NEW c \in Combiners, Combine(c) PROVE MergeInv'
<1>1. /\ stage \in [Tasks -> Stages]
      /\ stage' = [t \in Tasks |-> IF t = c THEN "combine"
                                   ELSE IF t \in RoutesOf(c) THEN "queued"
                                   ELSE stage[t]]
      /\ UNCHANGED <<status, tree, level>> /\ stage[c] = "queued"
      /\ Combiners \subseteq Tasks /\ \A d \in Combiners : RoutesOf(d) \subseteq Tasks
  BY Disjoint DEF MergeInv, LockInv, IInv, TypeOK, Combine, CanTake
<1>2. \A r \in RoutesOf(c) : stage[r] = "absent" /\ status[r] = "none"
  BY <1>1 DEF MergeInv, StagesMatch, NoResult
<1>3. status[c] = "none"
  BY <1>1 DEF MergeInv, StagesMatch, NoResult
<1>4. \A u \in Tasks : u # c /\ u \notin RoutesOf(c) => stage'[u] = stage[u]
  BY <1>1
<1>5. \A u \in Tasks : stage[u] = "taken" <=> stage'[u] = "taken"
  BY <1>1, <1>2
<1>6. StagesMatch'
  <2>1. \A u \in Tasks : /\ stage'[u] = "download" => u \in Loaders
                         /\ stage'[u] \in NoResult => status'[u] = "none"
    BY <1>1, <1>2, <1>3 DEF MergeInv, StagesMatch
  <2>2. ASSUME NEW d \in Combiners
        PROVE  /\ stage'[d] = "queued" => \A r \in RoutesOf(d) : stage'[r] = "absent"
               /\ stage'[d] \in {"guard", "returned", "ready"} =>
                      status'[d] \in {"Ok", "Empty", "NoData", "Torn", "TaskError"}
               /\ status'[d] \in {"Ok", "Empty", "NoData"} => AllTaken(d)'
    <3>1. CASE d = c
      BY <1>1, <1>3, <3>1
    <3>2. CASE d # c
      <4>1. stage'[d] = stage[d] /\ status'[d] = status[d]
        BY <1>1, <3>2, RoutesApart
      <4>2. \A r \in RoutesOf(d) : stage'[r] = stage[r]
        BY <1>1, <3>2, RoutesApart
      <4>3. QED
        BY <4>1, <4>2 DEF MergeInv, StagesMatch, AllTaken
    <3>3. QED
      BY <3>1, <3>2
  <2>3. QED
    BY <2>1, <2>2 DEF StagesMatch
<1>7. TreeTaken'
  BY <1>1, <1>5 DEF MergeInv, TreeTaken
<1>8. MergedWhole'
  <2>1. \A r \in Routes : KeysOf(r)' = KeysOf(r)
    BY <1>1 DEF KeysOf, Key
  <2>2. QED
    BY <1>1, <1>5, <2>1, RoutesApart DEF MergeInv, MergedWhole
<1>9. QED
  BY <1>6, <1>7, <1>8 DEF MergeInv

\* A document is merged: what it adds has a key of its own, or, a channel, is
\* appended, and no other document has been merged for its route.
LEMMA EmergeWhole ==
    ASSUME MergeInv, NEW c \in Combiners, NEW r \in RoutesOf(c), stage[r] # "taken"
    PROVE  LET T == Emerge(tree[c], r) IN
           /\ tree[c] \subseteq T
           /\ \A e \in T \ tree[c] : e[1] = r
           /\ KeysOf(r) \subseteq {e[2] : e \in T}
           /\ \A e, f \in T : e # f /\ e[2] = f[2] => level = "channel" /\ e[1] # f[1]
<1> DEFINE new == {r} \X KeysOf(r)
           T == Emerge(tree[c], r)
<1>1. T = tree[c] \cup {e \in new : level = "channel" \/ \A k \in tree[c] : k[2] # e[2]}
  BY DEF Emerge, KeysOf
<1>2. \A e \in tree[c] : e[1] # r
  BY DEF MergeInv, TreeTaken
<1>3. \A e \in new : e[1] = r /\ e[2] \in KeysOf(r) /\ e = <<e[1], e[2]>>
  OBVIOUS
<1>4. \A k \in KeysOf(r) : \E e \in new : e[2] = k
  <2>1. \A k \in KeysOf(r) : <<r, k>> \in new /\ <<r, k>>[2] = k
    OBVIOUS
  <2>2. QED
    BY <2>1
<1> HIDE DEF new, T
<1>5. KeysOf(r) \subseteq {e[2] : e \in T}
  <2>1. ASSUME NEW k \in KeysOf(r) PROVE \E e \in T : e[2] = k
    <3>1. PICK e \in new : e[2] = k
      BY <1>4
    <3>2. QED
      BY <1>1, <3>1
  <2>2. QED
    BY <2>1
<1>6. ASSUME NEW e \in T, NEW f \in T, e # f, e[2] = f[2]
      PROVE  level = "channel" /\ e[1] # f[1]
  <2>1. CASE e \in tree[c] /\ f \in tree[c]
    BY <1>6, <2>1 DEF MergeInv, MergedWhole
  <2>2. CASE e \in new /\ f \in new
    BY <1>3, <1>6, <2>2
  <2>3. CASE e \in tree[c] /\ f \notin tree[c]
    BY <1>1, <1>2, <1>3, <1>6, <2>3
  <2>4. CASE e \notin tree[c] /\ f \in tree[c]
    BY <1>1, <1>2, <1>3, <1>6, <2>4
  <2>5. QED
    BY <1>1, <2>1, <2>2, <2>3, <2>4
<1>7. QED
  BY <1>1, <1>3, <1>5, <1>6 DEF T

LEMMA TakeMerge ==
    ASSUME MergeInv, LockInv', NEW c \in Combiners, NEW r \in Routes, Merge(c, r)
    PROVE  MergeInv'
<1>1. /\ stage \in [Tasks -> Stages] /\ tree \in [Combiners -> SUBSET (Routes \X Elements)]
      /\ stage' = [stage EXCEPT ![r] = "taken"] /\ stage[r] = "ready" /\ r \in Tasks
      /\ stage[c] = "combine" /\ r \in RoutesOf(c)
      /\ UNCHANGED <<status, level>>
      /\ Combiners \subseteq Tasks /\ \A d \in Combiners : RoutesOf(d) \subseteq Tasks
  BY Disjoint DEF MergeInv, LockInv, IInv, TypeOK, Merge
<1>2. \A u \in Tasks : u # r => stage'[u] = stage[u]
  BY <1>1
<1>3. stage'[r] = "taken" /\ r \notin Combiners
  BY <1>1, RoutesApart
<1>4. tree' = IF status[r] = "Ok" THEN [tree EXCEPT ![c] = Emerge(@, r)] ELSE tree
  BY DEF Merge
<1>5. /\ \A d \in Combiners : d # c => tree'[d] = tree[d]
      /\ tree'[c] = IF status[r] = "Ok" THEN Emerge(tree[c], r) ELSE tree[c]
  BY <1>1, <1>4
<1>6. StagesMatch'
  <2>1. \A u \in Tasks : /\ stage'[u] = "download" => u \in Loaders
                         /\ stage'[u] \in NoResult => status'[u] = "none"
    BY <1>1, <1>2, <1>3 DEF MergeInv, StagesMatch, NoResult
  <2>2. ASSUME NEW d \in Combiners
        PROVE  /\ stage'[d] = "queued" => \A q \in RoutesOf(d) : stage'[q] = "absent"
               /\ stage'[d] \in {"guard", "returned", "ready"} =>
                      status'[d] \in {"Ok", "Empty", "NoData", "Torn", "TaskError"}
               /\ status'[d] \in {"Ok", "Empty", "NoData"} => AllTaken(d)'
    <3>1. stage'[d] = stage[d] /\ status'[d] = status[d]
      BY <1>1, <1>2, <1>3
    <3>2. stage[d] = "queued" => r \notin RoutesOf(d)
      BY <1>1 DEF MergeInv, StagesMatch
    <3>3. stage[d] = "queued" => \A q \in RoutesOf(d) : stage'[q] = "absent"
      BY <1>1, <1>2, <3>2 DEF MergeInv, StagesMatch
    <3>4. AllTaken(d) => AllTaken(d)'
      BY <1>1, <1>2, <1>3 DEF AllTaken
    <3>5. QED
      BY <3>1, <3>3, <3>4 DEF MergeInv, StagesMatch
  <2>3. QED
    BY <2>1, <2>2 DEF StagesMatch
<1>7. /\ tree[c] \subseteq tree'[c]
      /\ \A e \in tree'[c] \ tree[c] : e[1] = r
      /\ status[r] = "Ok" => KeysOf(r) \subseteq {e[2] : e \in tree'[c]}
      /\ \A e, f \in tree'[c] : e # f /\ e[2] = f[2] => level = "channel" /\ e[1] # f[1]
  <2>1. stage[r] # "taken"
    BY <1>1
  <2>2. CASE status[r] = "Ok"
    BY <1>1, <1>5, <2>1, <2>2, EmergeWhole
  <2>3. CASE status[r] # "Ok"
    BY <1>5, <2>3 DEF MergeInv, MergedWhole
  <2>4. QED
    BY <2>2, <2>3
<1>8. TreeTaken'
  <2>1. ASSUME NEW d \in Combiners, NEW e \in tree'[d]
        PROVE  e[1] \in RoutesOf(d) /\ stage'[e[1]] = "taken"
    <3>1. CASE e \in tree[d]
      BY <1>1, <1>2, <1>3, <3>1 DEF MergeInv, TreeTaken
    <3>2. CASE e \notin tree[d]
      BY <1>1, <1>3, <1>5, <1>7, <3>2
    <3>3. QED
      BY <3>1, <3>2
  <2>2. QED
    BY <2>1 DEF TreeTaken
<1>9. MergedWhole'
  <2>1. \A q \in Routes : KeysOf(q)' = KeysOf(q)
    BY <1>1 DEF KeysOf, Key
  <2>2. ASSUME NEW d \in Combiners, NEW q \in RoutesOf(d), stage'[q] = "taken", status'[q] = "Ok"
        PROVE  KeysOf(q)' \subseteq {e[2] : e \in tree'[d]}
    <3>1. KeysOf(q)' = KeysOf(q) /\ status[q] = "Ok"
      BY <1>1, <2>1, <2>2, RoutesApart
    <3>2. CASE q = r
      BY <1>1, <1>7, <3>1, <3>2, RoutesApart
    <3>3. CASE q # r
      <4>1. KeysOf(q) \subseteq {e[2] : e \in tree[d]}
        BY <1>1, <1>2, <2>2, <3>1, <3>3 DEF MergeInv, MergedWhole
      <4>2. tree[d] \subseteq tree'[d]
        BY <1>5, <1>7
      <4>3. QED
        BY <3>1, <4>1, <4>2
    <3>4. QED
      BY <3>2, <3>3
  <2>3. ASSUME NEW d \in Combiners
        PROVE  \A e, f \in tree'[d] :
                   e # f /\ e[2] = f[2] => level' = "channel" /\ e[1] # f[1]
    BY <1>1, <1>5, <1>7 DEF MergeInv, MergedWhole
  <2>4. QED
    BY <2>2, <2>3 DEF MergedWhole
<1>10. QED
  BY <1>6, <1>8, <1>9 DEF MergeInv

LEMMA WorkingMerge == ASSUME MergeInv, LockInv', Working PROVE MergeInv'
<1> USE MovedOn DEF Move
<1>0. /\ Combiners \subseteq Tasks /\ Combiners \cap Loaders = {}
      /\ \A t \in Tasks : status[t] \in Codes
  BY Disjoint, ConstantsAssumption DEF MergeInv, LockInv, IInv, TypeOK
<1>1. ASSUME NEW t \in Tasks, Refuse(t) PROVE MergeInv'
  BY <1>0, <1>1 DEF Refuse, MovesOn, NoResult
<1>2. ASSUME NEW t \in Tasks, Download(t) PROVE MergeInv'
  BY <1>0, <1>2 DEF Download, MovesOn, NoResult
<1>3. ASSUME NEW t \in Tasks, DownloadOk(t) \/ DownloadError(t) \/ DownloadCrash(t)
      PROVE  MergeInv'
  <2>1. t \notin Combiners
    BY <1>0, <1>3 DEF DownloadOk, DownloadError, DownloadCrash, MergeInv, StagesMatch
  <2>2. QED
    BY <1>3, <2>1 DEF DownloadOk, DownloadError, DownloadCrash, MovesOn, NoResult
<1>4. ASSUME NEW t \in Tasks, GuardExit(t) \/ Deliver(t) PROVE MergeInv'
  <2>1. stage[t] \in {"guard", "returned"}
    BY <1>4 DEF GuardExit, Deliver
  <2>2. /\ t \in Combiners => status[t] \in {"Ok", "Empty", "NoData", "Torn", "TaskError"}
        /\ t \in Combiners /\ status[t] \in {"Ok", "Empty", "NoData"} => AllTaken(t)
    BY <2>1 DEF MergeInv, StagesMatch
  <2>3. QED
    BY <1>4, <2>2 DEF GuardExit, Deliver, MovesOn, NoResult
<1>5. ASSUME NEW c \in Combiners, Combine(c) PROVE MergeInv'
  BY <1>5, CombineMerge
<1>6. ASSUME NEW c \in Combiners, Dump(c) \/ Close(c) \/ Joined(c) PROVE MergeInv'
  <2>1. CASE Dump(c)
    BY <1>0, <2>1 DEF Dump, MovesOn, NoResult
  <2>2. CASE Close(c)
    BY <1>0, <2>2 DEF Close, MovesOn, NoResult
  <2>3. CASE Joined(c)
    <3>1. PICK code \in {"TaskError", "Torn"} : Move(c, "joining", "returned", code)
      BY <2>3 DEF Joined
    <3>2. tree' = tree /\ c \in Tasks
      BY <1>0, <2>3 DEF Joined
    <3>3. MovesOn(c, "joining", "returned", code)
      BY <3>1, <3>2 DEF MovesOn, NoResult
    <3>4. QED
      BY <3>2, <3>3
  <2>4. QED
    BY <1>6, <2>1, <2>2, <2>3
<1>7. ASSUME NEW c \in Combiners, NEW r \in Routes, Merge(c, r) PROVE MergeInv'
  BY <1>7, TakeMerge
<1>8. ASSUME NEW c \in Combiners, NEW r \in Routes, MergeCrash(c, r) PROVE MergeInv'
  BY <1>0, <1>8 DEF MergeCrash, MovesOn, NoResult
<1>9. QED
  BY <1>1, <1>2, <1>3, <1>4, <1>5, <1>6, <1>7, <1>8 DEF Working

LEMMA NextMerge == ASSUME MergeInv, [Next]_vars PROVE MergeInv'
<1>1. LockInv /\ LockInv' /\ IInv
  BY NextLock DEF MergeInv, LockInv
<1>2. CASE Working
  BY <1>1, <1>2, WorkingMerge
<1>3. CASE Alone \/ UNCHANGED vars
  <2>1. UNCHANGED <<stage, status, tree, level>>
    BY <1>1, <1>3, AloneSteps DEF tasksIdle, vars
  <2>2. StagesMatch' /\ TreeTaken'
    BY <2>1 DEF MergeInv, StagesMatch, TreeTaken, AllTaken
  <2>3. MergedWhole'
    BY <2>1 DEF MergeInv, MergedWhole, KeysOf, Key
  <2>4. QED
    BY <1>1, <2>2, <2>3 DEF MergeInv
<1>4. CASE CallOnClose
  <2>1. /\ stage' = [t \in Tasks |-> IF stage[t] \in {"absent", "ready", "taken"}
                                       THEN stage[t] ELSE "killed"]
        /\ UNCHANGED <<status, tree, level>>
        /\ Combiners \subseteq Tasks /\ \A d \in Combiners : RoutesOf(d) \subseteq Tasks
    BY <1>4, Disjoint DEF CallOnClose
  <2>2. StagesMatch'
    BY <2>1 DEF MergeInv, StagesMatch, AllTaken, NoResult
  <2>3. TreeTaken'
    BY <2>1 DEF MergeInv, TreeTaken
  <2>4. MergedWhole'
    <3>1. \A q \in Routes : KeysOf(q)' = KeysOf(q)
      BY <2>1 DEF KeysOf, Key
    <3>2. QED
      BY <2>1, <3>1, RoutesApart DEF MergeInv, MergedWhole
  <2>5. QED
    BY <1>1, <2>2, <2>3, <2>4 DEF MergeInv
<1>5. QED
  BY <1>2, <1>3, <1>4 DEF Next, Processing, Timeouts, Idle, Alone

LEMMA InitMerge == Init => MergeInv
<1> SUFFICES ASSUME Init PROVE MergeInv
  OBVIOUS
<1>1. Combiners \subseteq Tasks /\ Combiners \subseteq Nets /\ Nets \cap Routes = {}
      /\ \A d \in Combiners : RoutesOf(d) \subseteq Routes
      /\ Routes \subseteq Tasks
  BY Disjoint
<1>2. StagesMatch
  BY <1>1 DEF Init, StagesMatch, AllTaken
<1>3. TreeTaken /\ MergedWhole
  BY <1>1 DEF Init, TreeTaken, MergedWhole
<1>4. QED
  BY <1>2, <1>3, InitLock DEF MergeInv

\* Whatever its routes return and in whatever order their results are met, the
\* network a combiner returns has all that its endpoints delivered, once.
THEOREM NetworksAreWhole == Spec => []NetworkWhole
<1>1. MergeInv => NetworkWhole
  BY DEF MergeInv, StagesMatch, MergedWhole, NetworkWhole, AllTaken, KeysOf, Success
<1>2. QED
  BY InitMerge, NextMerge, <1>1, PTL DEF Spec

-----------------------------------------------------------------------------
(* Temporary files. *)

\* Why a file is there: a download is in progress, has been killed or has ended
\* and not been merged; a network was dumped; or something was raised.
FileOwned(t) ==
    IF t \in Loaders
      THEN \/ stage[t] \in {"download", "killed"}
           \/ stage[t] \in {"guard", "returned", "ready"} /\ status[t] \in Success
           \/ status[t] = "TaskError"
      ELSE status[t] \in Success \cup {"Torn"}

FilesOwned == ~KeepsErrors => \A t \in files : FileOwned(t)

\* What has left the list of results was ready, and its file is gone.
HandledGone ==
    /\ \A t \in handled \cup drained :
          stage[t] = "ready" /\ (~KeepsErrors /\ status[t] \in Success => t \notin files)
    /\ pc \in Nets => stage[pc] = "ready"

\* A graceful shutdown has waited for all tasks.
AllDrained ==
    leaving = "graceful" /\ ~KeepsErrors /\ pc \in {"closing", "closed"} =>
        handled \cup drained = Nets

FilesInv ==
    /\ MergeInv
    /\ FilesOwned
    /\ HandledGone
    /\ AllDrained

\* A task moves, and takes its own file with it or is entitled to it.
LEMMA MoveFiles ==
    ASSUME FilesInv, MergeInv', NEW t \in Tasks, NEW from, NEW to, NEW code,
           Move(t, from, to, code), from \notin {"ready", "absent"},
           files' \subseteq files \cup {t},
           ~KeepsErrors /\ t \in files' => FileOwned(t)'
    PROVE  FilesInv'
<1>1. /\ stage \in [Tasks -> Stages] /\ status \in [Tasks -> Codes] /\ stage[t] = from
      /\ stage' = [stage EXCEPT ![t] = to] /\ status' = [status EXCEPT ![t] = code]
      /\ UNCHANGED <<pc, handled, drained, leaving>>
      /\ files \subseteq Tasks /\ handled \cup drained \subseteq Tasks /\ Nets \subseteq Tasks
  BY Disjoint DEF Move, procVars, FilesInv, MergeInv, LockInv, IInv, TypeOK
<1>2. \A u \in Tasks : u # t => stage'[u] = stage[u] /\ status'[u] = status[u]
  BY <1>1
<1>3. t \notin handled \cup drained
  BY <1>1 DEF FilesInv, HandledGone
<1>4. FilesOwned'
  <2>1. ASSUME ~KeepsErrors, NEW u \in files' PROVE FileOwned(u)'
    <3>1. CASE u = t
      BY <2>1, <3>1
    <3>2. CASE u # t
      BY <1>1, <1>2, <2>1, <3>2 DEF FilesInv, FilesOwned, FileOwned
    <3>3. QED
      BY <3>1, <3>2
  <2>2. QED
    BY <2>1 DEF FilesOwned, KeepsErrors
<1>5. HandledGone'
  BY <1>1, <1>2, <1>3 DEF FilesInv, HandledGone, KeepsErrors
<1>6. AllDrained'
  BY <1>1 DEF FilesInv, AllDrained, KeepsErrors
<1>7. QED
  BY <1>4, <1>5, <1>6 DEF FilesInv

LEMMA WorkingFiles == ASSUME FilesInv, MergeInv', Working PROVE FilesInv'
<1>0. /\ Combiners \subseteq Tasks /\ Combiners \cap Loaders = {} /\ Routes \subseteq Loaders
      /\ Nets \cap Routes = {} /\ Nets \subseteq Tasks
      /\ stage \in [Tasks -> Stages] /\ status \in [Tasks -> Codes]
      /\ files \subseteq Tasks /\ handled \cup drained \subseteq Nets
      /\ Tasks = Combiners \cup Loaders
  BY Disjoint, ConstantsAssumption
     DEF FilesInv, MergeInv, LockInv, IInv, TypeOK, Loaders, Tasks
<1>1. /\ ~KeepsErrors => \A t \in files : FileOwned(t)
      /\ \A t \in Tasks : stage[t] \in NoResult => status[t] = "none"
      /\ \A t \in Tasks : stage[t] = "download" => t \in Loaders
  BY DEF FilesInv, FilesOwned, MergeInv, StagesMatch
<1>2. \A t \in Tasks : ~KeepsErrors /\ stage[t] \in {"absent", "queued", "combine", "joining"} =>
          t \notin files
  BY <1>1 DEF FileOwned, NoResult, Success
<1>3. ASSUME NEW t \in Tasks, Refuse(t) PROVE FilesInv'
  <2>1. ~KeepsErrors => t \notin files'
    BY <1>2, <1>3 DEF Refuse, CanTake
  <2>2. QED
    BY <1>3, <2>1, MoveFiles DEF Refuse
<1>4. ASSUME NEW t \in Tasks, Download(t) PROVE FilesInv'
  <2>1. stage'[t] = "download" /\ t \in Loaders
    BY <1>0, <1>4 DEF Download, Move
  <2>2. FileOwned(t)'
    BY <2>1 DEF FileOwned
  <2>3. QED
    BY <1>4, <2>2, MoveFiles DEF Download
<1>5. ASSUME NEW t \in Tasks, DownloadOk(t) PROVE FilesInv'
  <2>1. stage'[t] = "guard" /\ status'[t] \in Success /\ t \in Loaders
    BY <1>0, <1>1, <1>5 DEF DownloadOk, Move
  <2>2. FileOwned(t)'
    BY <2>1 DEF FileOwned
  <2>3. QED
    BY <1>5, <2>2, MoveFiles DEF DownloadOk
<1>6. ASSUME NEW t \in Tasks, DownloadError(t) PROVE FilesInv'
  <2>1. ~KeepsErrors => t \notin files'
    BY <1>6 DEF DownloadError
  <2>2. QED
    BY <1>6, <2>1, MoveFiles DEF DownloadError
<1>7. ASSUME NEW t \in Tasks, DownloadCrash(t) PROVE FilesInv'
  <2>1. status'[t] = "TaskError" /\ t \in Loaders
    BY <1>0, <1>1, <1>7 DEF DownloadCrash, Move
  <2>2. FileOwned(t)'
    BY <2>1 DEF FileOwned
  <2>3. QED
    BY <1>7, <2>2, MoveFiles DEF DownloadCrash
<1>8. ASSUME NEW t \in Tasks, GuardExit(t) PROVE FilesInv'
  <2>1. /\ stage[t] = "guard" /\ stage'[t] = "returned"
        /\ status'[t] = IF Locked(t) THEN status[t] ELSE "Torn"
    BY <1>0, <1>8 DEF GuardExit, Move
  <2>2. ASSUME ~KeepsErrors, t \in files' PROVE FileOwned(t)'
    <3>1. t \in files /\ (~Locked(t) => t \notin Loaders)
      BY <1>8, <2>2 DEF GuardExit
    <3>2. FileOwned(t)
      BY <1>1, <2>2, <3>1
    <3>3. QED
      BY <2>1, <3>1, <3>2 DEF FileOwned
  <2>3. files' \subseteq files
    BY <1>8 DEF GuardExit
  <2>4. QED
    BY <1>8, <2>2, <2>3, MoveFiles DEF GuardExit
<1>9. ASSUME NEW t \in Tasks, Deliver(t) PROVE FilesInv'
  <2>1. /\ stage[t] = "returned" /\ stage'[t] = "ready" /\ status'[t] = status[t]
    BY <1>0, <1>9 DEF Deliver, Move
  <2>2. ~KeepsErrors /\ t \in files' => FileOwned(t)'
    BY <1>1, <1>9, <2>1 DEF FileOwned, Deliver
  <2>3. QED
    BY <1>9, <2>2, MoveFiles DEF Deliver
<1>10. ASSUME NEW c \in Combiners, Dump(c) PROVE FilesInv'
  <2>1. stage[c] = "combine" /\ c \in Tasks /\ c \notin Loaders
    BY <1>0, <1>10 DEF Dump, Move
  <2>2. ~KeepsErrors /\ c \in files' => status'[c] \in Success
    BY <1>0, <1>2, <1>10, <2>1 DEF Dump, Move, Success
  <2>3. ~KeepsErrors /\ c \in files' => FileOwned(c)'
    BY <2>1, <2>2 DEF FileOwned
  <2>4. QED
    BY <1>10, <2>1, <2>3, MoveFiles DEF Dump
<1>11. ASSUME NEW c \in Combiners, Close(c) PROVE FilesInv'
  <2>1. c \in Tasks /\ (~KeepsErrors => c \notin files')
    BY <1>0, <1>2, <1>11 DEF Close, Move
  <2>2. QED
    BY <1>11, <2>1, MoveFiles DEF Close
<1>12. ASSUME NEW c \in Combiners, Joined(c) PROVE FilesInv'
  <2>1. files' \subseteq files
    BY <1>12 DEF Joined
  <2>2. c \in Tasks /\ (~KeepsErrors => c \notin files')
    BY <1>0, <1>2, <1>12, <2>1 DEF Joined, Move
  <2>3. QED
    BY <1>12, <2>1, <2>2, MoveFiles DEF Joined
<1>13. ASSUME NEW c \in Combiners, NEW r \in Routes, MergeCrash(c, r) PROVE FilesInv'
  <2>1. c \in Tasks /\ (~KeepsErrors => c \notin files')
    BY <1>0, <1>2, <1>13 DEF MergeCrash, Move
  <2>2. QED
    BY <1>13, <2>1, MoveFiles DEF MergeCrash
<1>14. ASSUME NEW c \in Combiners, Combine(c) PROVE FilesInv'
  <2>1. /\ stage' = [t \in Tasks |-> IF t = c THEN "combine"
                                     ELSE IF t \in RoutesOf(c) THEN "queued"
                                     ELSE stage[t]]
        /\ UNCHANGED <<status, files, pc, handled, drained, leaving>>
        /\ stage[c] = "queued" /\ RoutesOf(c) \subseteq Routes
    BY <1>14, RoutesApart DEF Combine, procVars, CanTake
  <2>2. \A r \in RoutesOf(c) : stage[r] = "absent" /\ r \in Tasks
    BY <1>0, <2>1 DEF FilesInv, MergeInv, StagesMatch
  <2>3. \A t \in Tasks : t # c /\ t \notin RoutesOf(c) => stage'[t] = stage[t]
    BY <2>1
  <2>4. FilesOwned'
    <3>1. ASSUME ~KeepsErrors, NEW t \in files PROVE FileOwned(t)'
      <4>1. t # c /\ t \notin RoutesOf(c)
        BY <1>0, <1>2, <2>1, <2>2, <3>1
      <4>2. FileOwned(t) /\ stage'[t] = stage[t] /\ status'[t] = status[t]
        BY <1>0, <1>1, <2>1, <2>3, <3>1, <4>1
      <4>3. QED
        BY <4>2 DEF FileOwned
    <3>2. QED
      BY <2>1, <3>1 DEF FilesOwned, KeepsErrors
  <2>5. HandledGone'
    <3>1. \A t \in Nets : stage[t] = "ready" => stage'[t] = "ready"
      BY <1>0, <2>1, <2>2, <2>3
    <3>2. QED
      BY <1>0, <2>1, <3>1 DEF FilesInv, HandledGone, KeepsErrors
  <2>6. AllDrained'
    BY <2>1 DEF FilesInv, AllDrained, KeepsErrors
  <2>7. QED
    BY <2>4, <2>5, <2>6 DEF FilesInv
<1>15. ASSUME NEW c \in Combiners, NEW r \in Routes, Merge(c, r) PROVE FilesInv'
  <2>1. /\ stage' = [stage EXCEPT ![r] = "taken"] /\ stage[r] = "ready" /\ r \in Tasks
        /\ UNCHANGED <<status, pc, handled, drained, leaving>> /\ files' \subseteq files
        /\ status[r] \in Success /\ ~KeepsErrors => r \notin files'
    BY <1>0, <1>15 DEF Merge, procVars, Tasks
  <2>2. \A t \in Tasks : t # r => stage'[t] = stage[t]
    BY <1>0, <2>1
  <2>3. FilesOwned'
    <3>1. ASSUME ~KeepsErrors, NEW t \in files' PROVE FileOwned(t)'
      <4>1. FileOwned(t) /\ status'[t] = status[t]
        BY <1>1, <2>1, <3>1
      <4>2. CASE t = r
        <5>1. status[r] \notin Success /\ r \in Loaders
          BY <1>0, <2>1, <3>1, <4>2
        <5>2. QED
          BY <2>1, <4>1, <4>2, <5>1 DEF FileOwned
      <4>3. CASE t # r
        BY <1>0, <2>1, <2>2, <3>1, <4>1, <4>3 DEF FileOwned
      <4>4. QED
        BY <4>2, <4>3
    <3>2. QED
      BY <3>1 DEF FilesOwned, KeepsErrors
  <2>4. HandledGone'
    <3>1. \A t \in Nets : stage'[t] = stage[t]
      BY <1>0, <2>2
    <3>2. QED
      BY <1>0, <2>1, <3>1 DEF FilesInv, HandledGone, KeepsErrors
  <2>5. AllDrained'
    BY <2>1 DEF FilesInv, AllDrained, KeepsErrors
  <2>6. QED
    BY <2>3, <2>4, <2>5 DEF FilesInv
<1>16. QED
  BY <1>3, <1>4, <1>5, <1>6, <1>7, <1>8, <1>9, <1>10, <1>11, <1>12, <1>13, <1>14, <1>15
     DEF Working

\* Steps of the processor only remove files, those of the results they take
\* among them.
LEMMA AloneFiles == ASSUME FilesInv, MergeInv', Alone PROVE FilesInv'
<1>0. /\ tasksIdle /\ stage' = stage /\ status' = status
      /\ pc \in Nets \cup Places /\ Nets \cap Places = {}
      /\ (Live => leaving = "no") /\ IInv
  BY AloneSteps, Disjoint DEF FilesInv, MergeInv, LockInv, IInv, TypeOK, tasksIdle, NoneTorn
<1>1. SUFFICES files' \subseteq files /\ HandledGone' /\ AllDrained'
  <2>1. FilesOwned'
    BY <1>0, <1>1 DEF FilesInv, FilesOwned, FileOwned, KeepsErrors
  <2>2. QED
    BY <1>1, <2>1 DEF FilesInv
<1>2. HandledGone /\ AllDrained
  BY DEF FilesInv
<1> DEFINE Fine == files' \subseteq files /\ HandledGone' /\ AllDrained'
<1>3. ASSUME NEW code, Fail(code) PROVE Fine
  BY <1>0, <1>2, <1>3, Disjoint DEF Fail, HandledGone, AllDrained, KeepsErrors, Places
<1>4. CASE Begin \/ StreamFoot \/ TeardownRequest
  BY <1>0, <1>2, <1>4
     DEF Begin, StreamFoot, TeardownRequest, procVars, HandledGone, AllDrained, KeepsErrors, Places
<1>5. CASE FinishFile
  <2>1. ~KeepsErrors => Keep # "ALL"
    BY DEF KeepsErrors
  <2>2. /\ pc \in Nets /\ stage[pc] = "ready" /\ handled' = handled \cup {pc}
        /\ drained' = drained /\ files' \subseteq files
        /\ ~KeepsErrors => pc \notin files'
        /\ pc' = "stream"
    BY <1>2, <1>5, <2>1 DEF FinishFile, HandledGone
  <2>3. HandledGone'
    BY <1>0, <1>2, <2>2 DEF HandledGone, KeepsErrors, Places
  <2>4. QED
    BY <2>2, <2>3 DEF AllDrained
<1>6. CASE StreamEnd \/ EarlyClose
  <2>1. /\ leaving' = "no" /\ pc' = "closing"
        /\ UNCHANGED <<files, handled, drained>>
    BY <1>0, <1>6 DEF StreamEnd, EarlyClose, Live
  <2>2. QED
    BY <1>0, <1>2, <2>1 DEF HandledGone, AllDrained, KeepsErrors, Places
<1>7. CASE ClientClose
  <2>1. /\ pc' = IF KeepsErrors THEN "closing" ELSE "draining"
        /\ UNCHANGED <<files, handled, drained>>
    BY <1>7 DEF ClientClose
  <2>2. QED
    BY <1>0, <1>2, <2>1 DEF HandledGone, AllDrained, KeepsErrors, Places
<1>8. CASE Drained \/ ShutdownTimeout
  <2>1. /\ pc' = "closing" /\ UNCHANGED <<files, handled, drained>>
        /\ leaving' = "forced" \/ handled \cup drained = Nets
    BY <1>8 DEF Drained, ShutdownTimeout
  <2>2. QED
    BY <1>0, <1>2, <2>1 DEF HandledGone, AllDrained, KeepsErrors, Places
<1>9. ASSUME NEW t \in Nets, StreamTooLarge(t) PROVE Fine
  <2>1. /\ leaving' = "no" /\ pc' = "closing"
        /\ UNCHANGED <<files, handled, drained>>
    BY <1>0, <1>9 DEF StreamTooLarge, Live
  <2>2. QED
    BY <1>0, <1>2, <2>1 DEF HandledGone, AllDrained, KeepsErrors, Places
<1>10. ASSUME NEW t \in Nets, Drain(t) PROVE Fine
  <2>1. /\ pc' = "draining" /\ drained' = drained \cup {t} /\ handled' = handled
        /\ stage[t] = "ready" /\ files' \subseteq files
        /\ status[t] \in Success => t \notin files'
    BY <1>10 DEF Drain
  <2>2. QED
    BY <1>0, <1>2, <2>1 DEF HandledGone, AllDrained, KeepsErrors, Places
<1>11. ASSUME NEW t \in Nets, DropFailed(t) PROVE Fine
  <2>1. /\ pc' = pc /\ handled' = handled \cup {t} /\ drained' = drained
        /\ stage[t] = "ready" /\ status[t] \notin Success /\ UNCHANGED <<files, leaving>>
        /\ pc \notin {"closing", "closed"}
    BY <1>11 DEF DropFailed, Sees, Failures, Success
  <2>2. QED
    BY <1>0, <1>2, <2>1 DEF HandledGone, AllDrained, KeepsErrors
<1>12. ASSUME NEW t \in Nets, WaitFound(t) \/ OpenFile(t) PROVE Fine
  <2>1. /\ pc' = "headers" \/ (pc' = t /\ stage[t] = "ready")
        /\ UNCHANGED <<files, handled, drained, leaving>>
    BY <1>12 DEF WaitFound, OpenFile, Sees
  <2>2. pc' \notin {"closing", "closed"}
    BY <1>0, <2>1 DEF Places
  <2>3. QED
    BY <1>0, <1>2, <2>1, <2>2 DEF HandledGone, AllDrained, KeepsErrors, Places
<1>13. QED
  BY <1>3, <1>4, <1>5, <1>6, <1>7, <1>8, <1>9, <1>10, <1>11, <1>12
     DEF Alone, WaitNoData, WaitTimeout, WaitTooLarge

LEMMA NextFiles == ASSUME FilesInv, [Next]_vars PROVE FilesInv'
<1>1. MergeInv /\ MergeInv'
  BY NextMerge DEF FilesInv
<1>2. CASE Working
  BY <1>1, <1>2, WorkingFiles
<1>3. CASE Alone
  BY <1>1, <1>3, AloneFiles
<1>4. CASE CallOnClose
  <2>1. /\ stage' = [t \in Tasks |-> IF stage[t] \in {"absent", "ready", "taken"}
                                       THEN stage[t] ELSE "killed"]
        /\ UNCHANGED <<status, files, handled, drained, leaving>>
        /\ pc = "closing" /\ pc' = "closed"
        /\ files \subseteq Tasks /\ handled \cup drained \subseteq Tasks
        /\ "closed" \notin Nets
    BY <1>1, <1>4, Disjoint DEF CallOnClose, MergeInv, LockInv, IInv, TypeOK, Places
  <2>2. \A t \in Tasks : stage'[t] \in {stage[t], "killed"}
                         /\ (stage[t] = "ready" => stage'[t] = "ready")
    BY <2>1
  <2>3. FilesOwned'
    <3>1. ASSUME ~KeepsErrors, NEW t \in files PROVE FileOwned(t)'
      <4>1. FileOwned(t) /\ stage'[t] \in {stage[t], "killed"} /\ status'[t] = status[t]
        BY <2>1, <2>2, <3>1 DEF FilesInv, FilesOwned
      <4>2. QED
        BY <4>1 DEF FileOwned
    <3>2. QED
      BY <2>1, <3>1 DEF FilesOwned, KeepsErrors
  <2>4. HandledGone'
    BY <2>1, <2>2 DEF FilesInv, HandledGone, KeepsErrors
  <2>5. AllDrained'
    BY <2>1 DEF FilesInv, AllDrained, KeepsErrors
  <2>6. QED
    BY <1>1, <2>3, <2>4, <2>5 DEF FilesInv
<1>5. CASE UNCHANGED vars
  BY <1>1, <1>5 DEF vars, procVars, FilesInv, FilesOwned, FileOwned, HandledGone, AllDrained,
                    KeepsErrors
<1>6. QED
  BY <1>2, <1>3, <1>4, <1>5 DEF Next, Processing, Timeouts, Idle, Alone

LEMMA InitFiles == Init => FilesInv
<1> SUFFICES ASSUME Init PROVE FilesInv
  OBVIOUS
<1>1. "wait" \notin Nets
  BY Disjoint DEF Places
<1>2. FilesOwned /\ HandledGone /\ AllDrained
  BY <1>1 DEF Init, FilesOwned, HandledGone, AllDrained
<1>3. QED
  BY <1>2, InitMerge DEF FilesInv

\* A client that leaves, and whose request is given the time to shut down,
\* leaves nothing behind but what tasks that raised or were torn down own.
THEOREM ShutdownIsGraceful == Spec => []GracefulShutdown
<1>1. ASSUME FilesInv PROVE GracefulShutdown
  <2>1. SUFFICES ASSUME pc = "closed", leaving = "graceful", ~KeepsErrors, NEW t \in files
                 PROVE  \/ status[t] = "TaskError"
                        \/ t \in Combiners /\ status[t] = "Torn"
                        \/ t \in Routes /\ status[NetOf[t]] \in {"Torn", "TaskError"}
    BY DEF GracefulShutdown
  <2>2. /\ \A n \in Nets : stage[n] = "ready" /\ (status[n] \in Success => n \notin files)
        /\ FileOwned(t) /\ t \in Tasks
    BY <1>1, <2>1
       DEF FilesInv, AllDrained, HandledGone, FilesOwned, MergeInv, LockInv, IInv, TypeOK
  <2>3. Tasks = Combiners \cup Downloads \cup Routes /\ Combiners \cup Downloads = Nets
        /\ Combiners \cap Loaders = {} /\ Routes \cup Downloads = Loaders
    BY ConstantsAssumption DEF Tasks, Loaders, Nets
  <2>4. CASE t \in Combiners
    BY <2>1, <2>2, <2>3, <2>4 DEF FileOwned
  <2>5. CASE t \in Downloads
    BY <2>1, <2>2, <2>3, <2>5 DEF FileOwned
  <2>6. CASE t \in Routes
    <3> DEFINE c == NetOf[t]
    <3>1. c \in Combiners /\ t \in RoutesOf(c) /\ stage[c] = "ready"
      BY <2>2, <2>3, <2>6, ConstantsAssumption DEF RoutesOf
    <3>2. /\ status[c] \in {"Ok", "Empty", "NoData", "Torn", "TaskError"}
          /\ status[c] \in {"Ok", "Empty", "NoData"} => stage[t] = "taken"
      BY <1>1, <3>1 DEF FilesInv, MergeInv, StagesMatch, AllTaken
    <3>3. stage[t] = "taken" => status[t] = "TaskError"
      BY <2>2, <2>3, <2>6 DEF FileOwned
    <3>4. QED
      BY <2>6, <3>2, <3>3
  <2>7. QED
    BY <2>2, <2>3, <2>4, <2>5, <2>6
<1>2. QED
  BY InitFiles, NextFiles, <1>1, PTL DEF Spec

=============================================================================
