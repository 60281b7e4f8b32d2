-------------------------- MODULE FileSystemCacheProofs --------------------------
(***************************************************************************)
(* For any number of processes and keys, any threshold and any number of   *)
(* faults: the state of the cache directory keeps its type, and without    *)
(* overlapping calls and lost increments since the last recount there are  *)
(* never more files than the count file says.                              *)
(***************************************************************************)
EXTENDS FileSystemCache, FiniteSetTheorems, SequenceTheorems, TLAPS

\* What process p, once it is through, will have made of the count at least.
Due(p) ==
    IF pc[p] \in {"init", "recount"} THEN num[p]
    ELSE IF pc[p] \in {"load", "add"} THEN count + delta[p]
    ELSE count

Alone(p) == \A q \in Procs \ {p} : Quiet(q)

\* The count the process has read is still the count.
Loaded(p) == pc[p] = "add" => num[p] = count

\* A process that works alone is about to store a count that covers the files.
DueCovers ==
    ~disturbed =>
        \A p \in Procs : Alone(p) => Cardinality(Files) <= Due(p) /\ Loaded(p)

IInv == TypeOK /\ DueCovers

-----------------------------------------------------------------------------
(* Lemmas about the operators of the model and of the community modules. *)

\* The lesser of two integers.
LEMMA MinOfTwo ==
    ASSUME NEW a \in Int, NEW b \in Int
    PROVE  Min({a, b}) \in {a, b} /\ Min({a, b}) <= a /\ Min({a, b}) <= b
<1>1. \E x \in {a, b} : \A y \in {a, b} : x <= y
  BY DEF Int
<1>2. QED
  BY <1>1 DEF Min

\* A set of keys is finite and not larger than the largest count.
LEMMA KeySets ==
    ASSUME NEW F \in SUBSET Keys
    PROVE  /\ IsFiniteSet(F)
           /\ Cardinality(F) \in Nat
           /\ Cardinality(F) <= MaxCount
<1>1. IsFiniteSet(Keys) /\ MaxCount \in Nat /\ MaxCount >= Cardinality(Keys)
  BY ConstantsAssumption
<1>2. IsFiniteSet(F) /\ Cardinality(F) <= Cardinality(Keys)
  BY <1>1, FS_Subset
<1>3. Cardinality(F) \in Nat /\ Cardinality(Keys) \in Nat
  BY <1>1, <1>2, FS_CardinalityType
<1>4. QED
  BY <1>1, <1>2, <1>3

\* A directory listing is a sequence of keys.
LEMMA ListingType ==
    ASSUME NEW F \in SUBSET Keys, NEW s \in SetToSeqs(F)
    PROVE  s \in Seq(Keys)
<1>1. Cardinality(F) \in Nat
  BY KeySets
<1>2. s \in [1 .. Cardinality(F) -> F]
  BY DEF SetToSeqs
<1>3. s \in [1 .. Cardinality(F) -> Keys]
  BY <1>2
<1>4. QED
  BY <1>1, <1>3, SeqDef

-----------------------------------------------------------------------------
(* Type correctness. *)

\* What a process has to add, and what it will have made of the count.
LEMMA DueType ==
    ASSUME TypeOK, NEW p \in Procs
    PROVE  delta[p] \in Int /\ num[p] \in Int /\ count \in Int /\ Due(p) \in Int
<1>1. delta[p] \in {-1, 0, 1} /\ num[p] \in Int /\ count \in Int
  BY DEF TypeOK
<1>2. delta[p] \in Int
  <2>1. delta[p] = -1 \/ delta[p] = 0 \/ delta[p] = 1
    BY <1>1
  <2>2. -1 \in Int /\ 0 \in Int /\ 1 \in Int
    OBVIOUS
  <2>3. QED
    BY <2>1, <2>2
<1>3. count + delta[p] \in Int
  BY <1>1, <1>2
<1>4. QED
  BY <1>1, <1>2, <1>3 DEF Due

\* An empty directory.
LEMMA InitType == Init => TypeOK
<1> SUFFICES ASSUME Init PROVE TypeOK
  OBVIOUS
<1>1. entry \in [Keys -> {"none", "fresh", "expired"}]
  BY DEF Init
<1>2. count \in Int /\ disturbed \in BOOLEAN
  <2>1. count \in Int
    BY DEF Init
  <2>2. disturbed \in BOOLEAN
    BY DEF Init
  <2>3. QED
    BY <2>1, <2>2
<1>3. deletes \in 0 .. MaxDeletes /\ faults \in 0 .. MaxFaults
  BY ConstantsAssumption DEF Init
<1>4. /\ pc \in [Procs -> Stages] /\ key \in [Procs -> Keys \cup {NoKey}]
      /\ delta \in [Procs -> {-1, 0, 1}]
  BY DEF Init, Stages
<1>5. num \in [Procs -> Int] /\ idx \in [Procs -> Nat \ {0}]
  BY DEF Init
<1>6. todo \in [Procs -> Seq(Keys)]
  <2>1. <<>> \in Seq(Keys)
    OBVIOUS
  <2>2. QED
    BY <2>1 DEF Init
<1>7. QED
  BY <1>1, <1>2, <1>3, <1>4, <1>5, <1>6 DEF TypeOK

\* A step of a process within one stage or from one to the next.
LEMMA GotoType ==
    ASSUME TypeOK, NEW p \in Procs, NEW to \in Stages, NEW lost \in BOOLEAN,
           Goto(p, to) \/ Lose(p, to, lost)
    PROVE  pc' \in [Procs -> Stages] /\ disturbed' \in BOOLEAN
BY DEF TypeOK, Goto, Lose, Others

\* The end of a call.
LEMMA ForgetType ==
    ASSUME TypeOK, NEW p \in Procs, Forget(p)
    PROVE  /\ key' \in [Procs -> Keys \cup {NoKey}]
           /\ delta' \in [Procs -> {-1, 0, 1}]
           /\ num' \in [Procs -> Int]
           /\ todo' \in [Procs -> Seq(Keys)]
           /\ idx' \in [Procs -> Nat \ {0}]
<1>1. <<>> \in Seq(Keys)
  OBVIOUS
<1>2. todo' \in [Procs -> Seq(Keys)]
  BY <1>1 DEF TypeOK, Forget
<1>3. QED
  BY <1>2 DEF TypeOK, Forget

\* A fault counts.
LEMMA FaultType == ASSUME TypeOK, Fault PROVE faults' \in 0 .. MaxFaults
BY ConstantsAssumption DEF TypeOK, Fault

\* A fault keeps the types.
LEMMA FailureType == ASSUME TypeOK, NEW p \in Procs, Failure(p) PROVE TypeOK'
<1>1. faults' \in 0 .. MaxFaults
  BY FaultType
     DEF Failure, GetFails, SetUnread, CountUnread, ListFails, PruneFails,
         WriteFails, ChmodFails, StoreFails, Kill
<1>2. pc' \in [Procs -> Stages] /\ disturbed' \in BOOLEAN
  <2>1. CASE \E to \in Stages : Goto(p, to)
    BY <2>1, GotoType
  <2>2. CASE \E to \in Stages : \E lost \in BOOLEAN : Lose(p, to, lost)
    BY <2>2, GotoType
  <2>3. Owes(p) \in BOOLEAN
    BY DEF Owes
  <2>4. CASE CountUnread(p) \/ ChmodFails(p)
    BY <2>2, <2>4 DEF CountUnread, ChmodFails, Stages
  <2>5. CASE StoreFails(p)
    <3>1. Lose(p, "write", Owes(p)) \/ Lose(p, "idle", Owes(p))
      BY <2>5 DEF StoreFails
    <3>2. QED
      BY <2>2, <2>3, <3>1 DEF Stages
  <2>6. CASE Kill(p)
    BY <2>2, <2>3, <2>6 DEF Kill, Stages
  <2>7. QED
    BY <2>1, <2>4, <2>5, <2>6
       DEF Failure, GetFails, SetUnread, ListFails, PruneFails, WriteFails, Stages
<1>3. /\ entry' \in [Keys -> {"none", "fresh", "expired"}]
      /\ count' = count /\ deletes' = deletes
  BY DEF TypeOK, Failure, GetFails, SetUnread, CountUnread, ListFails, PruneFails,
         WriteFails, ChmodFails, StoreFails, Kill
<1>4. /\ key' \in [Procs -> Keys \cup {NoKey}]
      /\ delta' \in [Procs -> {-1, 0, 1}]
      /\ num' \in [Procs -> Int]
      /\ todo' \in [Procs -> Seq(Keys)]
      /\ idx' \in [Procs -> Nat \ {0}]
  <2>1. CASE Forget(p)
    BY <2>1, ForgetType
  <2>2. CASE SetUnread(p)
    BY <2>2 DEF SetUnread, TypeOK
  <2>3. CASE CountUnread(p)
    BY <2>3 DEF CountUnread, TypeOK
  <2>4. CASE PruneFails(p)
    BY <2>4 DEF PruneFails, TypeOK
  <2>5. CASE StoreFails(p) /\ ~Forget(p)
    BY <2>5 DEF StoreFails, TypeOK
  <2>6. QED
    BY <2>1, <2>2, <2>3, <2>4, <2>5
       DEF Failure, GetFails, ListFails, WriteFails, ChmodFails, Kill
<1>5. QED
  BY <1>1, <1>2, <1>3, <1>4 DEF TypeOK

\* Every operation keeps the types.
LEMMA NextType == ASSUME TypeOK, [Next]_vars PROVE TypeOK'
<1> USE DEF TypeOK, local
<1>1. ASSUME NEW p \in Procs, Get(p) PROVE TypeOK'
  <2>1. pc' \in [Procs -> Stages] /\ disturbed' \in BOOLEAN
    BY <1>1, GotoType DEF Get, Stages
  <2>2. QED
    BY <1>1, <2>1 DEF Get
<1>2. ASSUME NEW p \in Procs, GetUnlink(p) PROVE TypeOK'
  <2>1. pc' \in [Procs -> Stages] /\ disturbed' \in BOOLEAN
    BY <1>2, GotoType DEF GetUnlink, Stages
  <2>2. QED
    BY <1>2, <2>1 DEF GetUnlink
<1>3. ASSUME NEW p \in Procs, Delete(p) PROVE TypeOK'
  <2>1. pc' \in [Procs -> Stages] /\ disturbed' \in BOOLEAN
    BY <1>3, GotoType DEF Delete, Stages
  <2>2. deletes' \in 0 .. MaxDeletes
    BY <1>3, ConstantsAssumption DEF Delete
  <2>3. QED
    BY <1>3, <2>1, <2>2 DEF Delete
<1>4. ASSUME NEW p \in Procs, Set(p) PROVE TypeOK'
  <2>1. pc' \in [Procs -> Stages] /\ disturbed' \in BOOLEAN
    BY <1>4, GotoType DEF Set, Stages
  <2>2. QED
    BY <1>4, <2>1 DEF Set
<1>5. ASSUME NEW p \in Procs, PruneList(p) PROVE TypeOK'
  <2>1. pc' \in [Procs -> Stages] /\ disturbed' \in BOOLEAN
    BY <1>5, GotoType DEF PruneList, Stages
  <2>2. PICK s \in SetToSeqs(Files) : todo' = [todo EXCEPT ![p] = s]
    BY <1>5 DEF PruneList
  <2>3. s \in Seq(Keys)
    BY ListingType DEF Files
  <2>4. todo' \in [Procs -> Seq(Keys)] /\ idx' \in [Procs -> Nat \ {0}]
    BY <1>5, <2>2, <2>3 DEF PruneList
  <2>5. QED
    BY <1>5, <2>1, <2>4 DEF PruneList
<1>6. ASSUME NEW p \in Procs, PruneKeep(p) PROVE TypeOK'
  BY <1>6 DEF PruneKeep
<1>7. ASSUME NEW p \in Procs, PruneOpen(p) PROVE TypeOK'
  <2>1. pc' \in [Procs -> Stages] /\ disturbed' \in BOOLEAN
    BY <1>7, GotoType DEF PruneOpen, Stages
  <2>2. QED
    BY <1>7, <2>1 DEF PruneOpen
<1>8. ASSUME NEW p \in Procs, PruneRemove(p) PROVE TypeOK'
  <2>1. pc' \in [Procs -> Stages] /\ disturbed' \in BOOLEAN
    BY <1>8, GotoType DEF PruneRemove, Stages
  <2>2. entry' \in [Keys -> {"none", "fresh", "expired"}]
    BY <1>8 DEF PruneRemove
  <2>3. idx' \in [Procs -> Nat \ {0}]
    BY <1>8 DEF PruneRemove
  <2>4. QED
    BY <1>8, <2>1, <2>2, <2>3 DEF PruneRemove
<1>9. ASSUME NEW p \in Procs, PruneCount(p) PROVE TypeOK'
  <2>1. pc' \in [Procs -> Stages] /\ disturbed' \in BOOLEAN
    BY <1>9 DEF PruneCount, Stages, Others
  <2>2. Cardinality(Files) \in Int
    BY KeySets DEF Files
  <2>3. num' \in [Procs -> Int] /\ idx' \in [Procs -> Nat \ {0}]
    BY <1>9, <2>2 DEF PruneCount
  <2>4. todo' \in [Procs -> Seq(Keys)]
    <3>1. <<>> \in Seq(Keys)
      OBVIOUS
    <3>2. QED
      BY <1>9, <3>1 DEF PruneCount
  <2>5. QED
    BY <1>9, <2>1, <2>3, <2>4 DEF PruneCount
<1>10. ASSUME NEW p \in Procs, PruneStore(p) PROVE TypeOK'
  <2>1. pc' \in [Procs -> Stages] /\ disturbed' \in BOOLEAN
    BY <1>10, GotoType DEF PruneStore, Stages
  <2>2. count' \in Int /\ num' \in [Procs -> Int]
    BY <1>10 DEF PruneStore
  <2>3. QED
    BY <1>10, <2>1, <2>2 DEF PruneStore
<1>11. ASSUME NEW p \in Procs, Write(p) PROVE TypeOK'
  <2>1. pc' \in [Procs -> Stages] /\ disturbed' \in BOOLEAN
    BY <1>11, GotoType DEF Write, Stages
  <2>2. QED
    BY <1>11, <2>1 DEF Write
<1>12. ASSUME NEW p \in Procs, Start(p) \/ InitStore(p) PROVE TypeOK'
  <2>1. Cardinality(Files) \in Int
    BY KeySets DEF Files
  <2>2. CASE Start(p)
    BY <2>1, <2>2 DEF Start, Stages, Others
  <2>3. CASE InitStore(p)
    <3>1. pc' \in [Procs -> Stages] /\ disturbed' \in BOOLEAN
      BY <2>3, GotoType DEF InitStore, Stages
    <3>2. count' \in Int /\ num' \in [Procs -> Int]
      BY <2>3 DEF InitStore
    <3>3. QED
      BY <2>3, <3>1, <3>2 DEF InitStore
  <2>4. QED
    BY <1>12, <2>2, <2>3
<1>13. ASSUME NEW p \in Procs, CountLoad(p) PROVE TypeOK'
  <2>1. pc' \in [Procs -> Stages] /\ disturbed' \in BOOLEAN
    BY <1>13, GotoType DEF CountLoad, Stages
  <2>2. QED
    BY <1>13, <2>1 DEF CountLoad
<1>14. ASSUME NEW p \in Procs, CountStore(p) PROVE TypeOK'
  <2>1. pc' \in [Procs -> Stages] /\ disturbed' \in BOOLEAN
    BY <1>14, GotoType DEF CountStore, Stages
  <2>2. num[p] + delta[p] \in Int /\ MaxCount \in Int
    BY DueType, ConstantsAssumption
  <2>3. count' \in Int
    BY <1>14, <2>2, MinOfTwo DEF CountStore
  <2>4. num' \in [Procs -> Int] /\ delta' \in [Procs -> {-1, 0, 1}]
    BY <1>14 DEF CountStore
  <2>5. QED
    BY <1>14, <2>1, <2>3, <2>4 DEF CountStore
<1>15. ASSUME NEW k \in Keys, Expire(k) PROVE TypeOK'
  BY <1>15 DEF Expire
<1>16. CASE UNCHANGED vars
  BY <1>16 DEF vars
<1>17. QED
  BY <1>1, <1>2, <1>3, <1>4, <1>5, <1>6, <1>7, <1>8, <1>9, <1>10, <1>11, <1>12,
     <1>13, <1>14, <1>15, <1>16, FailureType DEF Next, Continue

-----------------------------------------------------------------------------
(* The count. *)

\* A step of process p after which it works alone, and still covers the files,
\* does so for everybody: all others are quiet.
LEMMA StepCovers ==
    ASSUME TypeOK, TypeOK', NEW p \in Procs, NEW to \in Stages,
           pc' = [pc EXCEPT ![p] = to],
           ~disturbed' => Alone(p),
           ~disturbed' => Cardinality(Files)' <= Due(p)' /\ Loaded(p)'
    PROVE  DueCovers'
<1> SUFFICES ASSUME ~disturbed', NEW q \in Procs, Alone(q)'
             PROVE  Cardinality(Files)' <= Due(q)' /\ Loaded(q)'
  BY DEF DueCovers
<1>1. CASE q = p
  BY <1>1
<1>2. CASE q # p
  <2>1. pc'[p] \in {"idle", "down"}
    BY <1>2 DEF Alone, Quiet
  <2>2. pc'[q] \in {"idle", "down"}
    BY <1>2 DEF Alone, Quiet, TypeOK
  <2>3. Due(p)' = count' /\ Due(q)' = count' /\ Loaded(q)'
    BY <2>1, <2>2 DEF Due, Loaded
  <2>4. QED
    BY <2>3
<1>3. QED
  BY <1>1, <1>2

\* The same for a step that sets off no alarm of the history variable.
LEMMA GotoCovers ==
    ASSUME TypeOK, TypeOK', DueCovers, NEW p \in Procs, NEW to \in Stages,
           NEW lost \in BOOLEAN,
           Goto(p, to) \/ Lose(p, to, lost),
           Cardinality(Files) <= Due(p) /\ Loaded(p) /\ ~disturbed'
             => Cardinality(Files)' <= Due(p)' /\ Loaded(p)'
    PROVE  DueCovers'
<1>1. pc' = [pc EXCEPT ![p] = to]
  BY DEF Goto, Lose
<1>2. ~disturbed' => ~disturbed /\ Alone(p)
  BY DEF Goto, Lose, Others, Alone
<1>3. ~disturbed' => Cardinality(Files)' <= Due(p)' /\ Loaded(p)'
  BY <1>2 DEF DueCovers
<1>4. QED
  BY <1>1, <1>2, <1>3, StepCovers

\* Fewer files need not be covered better.
LEMMA FewerFiles ==
    ASSUME TypeOK, TypeOK', NEW p \in Procs,
           Files' \subseteq Files, Due(p)' = Due(p),
           Cardinality(Files) <= Due(p)
    PROVE  Cardinality(Files)' <= Due(p)'
<1>1. PICK F \in SUBSET Keys : F = Files
  BY DEF Files
<1>2. PICK G \in SUBSET Keys : G = Files'
  BY DEF Files
<1>3. Cardinality(F) \in Nat /\ Cardinality(G) \in Nat /\ IsFiniteSet(F)
  BY KeySets
<1>4. Cardinality(G) <= Cardinality(F)
  BY <1>1, <1>2, <1>3, FS_Subset
<1>5. Due(p) \in Int
  BY DueType
<1>6. Cardinality(F) <= Due(p)
  BY <1>1
<1>7. Cardinality(G) <= Due(p)
  BY <1>3, <1>4, <1>5, <1>6
<1>8. QED
  BY <1>2, <1>7

\* Reading, listing, removing, storing a recount: neither the files become
\* more nor does what the process will store change.
LEMMA QuietCovers ==
    ASSUME TypeOK, TypeOK', DueCovers, NEW p \in Procs,
           \/ Get(p) \/ GetUnlink(p) \/ Set(p) \/ PruneList(p) \/ PruneOpen(p)
           \/ PruneRemove(p) \/ PruneStore(p) \/ CountLoad(p) \/ InitStore(p)
    PROVE  DueCovers'
<1>1. PICK to \in Stages : Goto(p, to)
  BY DEF Get, GetUnlink, Set, PruneList, PruneOpen, PruneRemove, PruneStore,
         CountLoad, InitStore, Stages
<1>2. Files' \subseteq Files
  BY DEF TypeOK, Files, Get, GetUnlink, Set, PruneList, PruneOpen, PruneRemove,
         PruneStore, CountLoad, InitStore
<1>3. Due(p)' = Due(p) /\ Loaded(p)'
  <2>1. CASE CountLoad(p)
    BY <2>1 DEF TypeOK, Due, Loaded, Goto, CountLoad
  <2>2. CASE PruneStore(p) \/ InitStore(p)
    BY <2>2 DEF TypeOK, Due, Loaded, Goto, PruneStore, InitStore
  <2>3. CASE Get(p) \/ GetUnlink(p) \/ Set(p)
    BY <2>3 DEF TypeOK, Due, Loaded, Goto, Get, GetUnlink, Set
  <2>4. CASE PruneList(p) \/ PruneOpen(p) \/ PruneRemove(p)
    BY <2>4
       DEF TypeOK, Due, Loaded, Goto, PruneList, PruneOpen, PruneRemove, local
  <2>5. QED
    BY <2>1, <2>2, <2>3, <2>4
<1>4. QED
  BY <1>1, <1>2, <1>3, FewerFiles, GotoCovers

\* A file that is deleted is one that was counted.
LEMMA DeleteCovers ==
    ASSUME TypeOK, TypeOK', DueCovers, NEW p \in Procs, Delete(p)
    PROVE  DueCovers'
<1>1. PICK k \in Files : entry' = [entry EXCEPT ![k] = "none"]
  BY DEF Delete
<1>2. PICK F \in SUBSET Keys : F = Files
  BY DEF Files
<1>3. k \in F /\ Files' = F \ {k}
  BY <1>1, <1>2 DEF Files, TypeOK
<1>4. Cardinality(F \ {k}) = Cardinality(F) - 1 /\ Cardinality(F) \in Nat
  BY <1>3, KeySets, FS_RemoveElement
<1>5. Due(p) = count /\ Due(p)' = count - 1 /\ count \in Int /\ Loaded(p)'
  BY DEF TypeOK, Due, Loaded, Delete, Goto
<1>6. Cardinality(Files) <= Due(p) => Cardinality(Files)' <= Due(p)'
  BY <1>2, <1>3, <1>4, <1>5
<1>7. Goto(p, "load") /\ "load" \in Stages
  BY DEF Delete, Stages
<1>8. QED
  BY <1>5, <1>6, <1>7, GotoCovers

\* A file that takes its name is counted, whether or not it replaces another.
LEMMA WriteCovers ==
    ASSUME TypeOK, TypeOK', DueCovers, NEW p \in Procs, Write(p)
    PROVE  DueCovers'
<1>1. PICK F \in SUBSET Keys : F = Files
  BY DEF Files
<1>2. PICK G \in SUBSET Keys : G = Files'
  BY DEF Files
<1>3. G \subseteq F \cup {key[p]}
  BY <1>1, <1>2 DEF Files, TypeOK, Write
<1>4. /\ IsFiniteSet(F \cup {key[p]})
      /\ Cardinality(F \cup {key[p]}) <= Cardinality(F) + 1
      /\ Cardinality(F) \in Nat
  <2>1. IsFiniteSet(F) /\ Cardinality(F) \in Nat
    BY KeySets
  <2>2. Cardinality(F \cup {key[p]}) \in {Cardinality(F), Cardinality(F) + 1}
    BY <2>1, FS_AddElement
  <2>3. QED
    BY <2>1, <2>2, FS_AddElement
<1>5. Cardinality(G) <= Cardinality(F \cup {key[p]})
  BY <1>3, <1>4, FS_Subset
<1>6. Cardinality(G) \in Nat /\ Cardinality(F \cup {key[p]}) \in Nat
  BY <1>4, KeySets, FS_CardinalityType
<1>7. Due(p) = count /\ Due(p)' = count + 1 /\ count \in Int /\ Loaded(p)'
  BY DEF TypeOK, Due, Loaded, Write, Goto
<1>8. Cardinality(F) <= count => Cardinality(G) <= count + 1
  BY <1>4, <1>5, <1>6, <1>7
<1>9. Goto(p, "load") /\ "load" \in Stages
  BY DEF Write, Stages
<1>10. QED
  BY <1>1, <1>2, <1>7, <1>8, <1>9, GotoCovers

\* A recount is true when it is made, whatever has been lost before.
LEMMA CountedCovers ==
    ASSUME TypeOK, TypeOK', NEW p \in Procs, PruneCount(p) \/ Start(p)
    PROVE  DueCovers'
<1>1. PICK F \in SUBSET Keys : F = Files
  BY DEF Files
<1>2. Files' = F
  BY <1>1 DEF Files, PruneCount, Start
<1>3. Due(p)' = Cardinality(F) /\ Loaded(p)'
  BY <1>1 DEF TypeOK, Due, Loaded, PruneCount, Start
<1>4. Cardinality(F) \in Nat
  BY KeySets
<1>5. ~disturbed' => Alone(p)
  BY DEF PruneCount, Start, Others, Alone
<1>6. PICK to \in Stages : pc' = [pc EXCEPT ![p] = to]
  BY DEF PruneCount, Start, Stages
<1>7. Cardinality(Files)' <= Due(p)'
  BY <1>2, <1>3, <1>4
<1>8. QED
  BY <1>3, <1>5, <1>6, <1>7, StepCovers

\* The sum is stored; where counts are cut off there are no more keys.
LEMMA StoreCovers ==
    ASSUME TypeOK, TypeOK', DueCovers, NEW p \in Procs, CountStore(p)
    PROVE  DueCovers'
<1>1. PICK F \in SUBSET Keys : F = Files
  BY DEF Files
<1>2. Files' = F
  BY <1>1 DEF Files, CountStore
<1>3. Cardinality(F) <= MaxCount /\ Cardinality(F) \in Nat
  BY KeySets
<1>4. num[p] \in Int /\ delta[p] \in Int /\ MaxCount \in Int
  BY DueType, ConstantsAssumption
<1>5. count' \in {num[p] + delta[p], MaxCount}
  <2>1. num[p] + delta[p] \in Int
    BY <1>4
  <2>2. QED
    BY <1>4, <2>1, MinOfTwo DEF CountStore
<1>6. /\ Due(p) = count + delta[p] /\ Due(p)' = count' /\ Loaded(p)'
      /\ Loaded(p) => num[p] = count
  BY DEF TypeOK, Due, Loaded, CountStore, Goto
<1>7. Cardinality(Files) <= Due(p) /\ Loaded(p) => Cardinality(Files)' <= Due(p)'
  BY <1>1, <1>2, <1>3, <1>5, <1>6
<1>8. Goto(p, "idle") /\ "idle" \in Stages
  BY DEF CountStore, Stages
<1>9. QED
  BY <1>6, <1>7, <1>8, GotoCovers

\* A fault costs no increment, or the history variable says so.
LEMMA FailureCovers ==
    ASSUME TypeOK, TypeOK', DueCovers, NEW p \in Procs, Failure(p)
    PROVE  DueCovers'
<1>0. delta[p] \in Int /\ num[p] \in Int /\ count \in Int
  BY DueType
<1>1. CASE CountUnread(p) \/ ChmodFails(p)
  <2>1. disturbed' = TRUE
    BY <1>1 DEF CountUnread, ChmodFails, Lose
  <2>2. QED
    BY <2>1 DEF DueCovers
<1>2. CASE GetFails(p) \/ SetUnread(p) \/ ListFails(p) \/ PruneFails(p) \/ WriteFails(p)
  <2>1. PICK to \in Stages : Goto(p, to)
    BY <1>2 DEF GetFails, SetUnread, ListFails, PruneFails, WriteFails, Stages
  <2>2. Files' = Files
    BY <1>2 DEF Files, GetFails, SetUnread, ListFails, PruneFails, WriteFails
  <2>3. Due(p)' = Due(p) /\ Loaded(p)'
    BY <1>2 DEF TypeOK, Due, Loaded, Goto, Forget, GetFails, SetUnread, ListFails,
                PruneFails, WriteFails
  <2>4. QED
    BY <2>1, <2>2, <2>3, GotoCovers
<1>3. CASE StoreFails(p) \/ Kill(p)
  <2>1. PICK to \in {"write", "idle", "down"} : Lose(p, to, Owes(p))
    BY <1>3 DEF StoreFails, Kill
  <2>2. Files' = Files /\ count' = count
    BY <1>3 DEF Files, StoreFails, Kill
  <2>3. Due(p)' = count /\ Loaded(p)'
    BY <2>1, <2>2 DEF TypeOK, Due, Loaded, Lose
  <2>4. ~Owes(p) => Due(p) <= count
    BY <1>0 DEF TypeOK, Due, Owes
  <2>5. ~disturbed' => ~Owes(p)
    BY <2>1 DEF Lose
  <2>6. Cardinality(Files) <= Due(p) /\ ~disturbed' => Cardinality(Files)' <= Due(p)'
    <3>1. PICK F \in SUBSET Keys : F = Files
      BY DEF Files
    <3>2. Cardinality(F) \in Nat /\ Due(p) \in Int
      BY KeySets, DueType
    <3>3. QED
      BY <1>0, <2>2, <2>3, <2>4, <2>5, <3>1, <3>2
  <2>7. Owes(p) \in BOOLEAN /\ to \in Stages
    BY <2>1 DEF Owes, Stages
  <2>8. QED
    BY <2>1, <2>3, <2>6, <2>7, GotoCovers
<1>4. QED
  BY <1>1, <1>2, <1>3 DEF Failure

\* Whatever changes neither files nor counts.
LEMMA SameCovers ==
    ASSUME DueCovers, Files' = Files, pc' = pc, count' = count, num' = num,
           delta' = delta, disturbed' = disturbed
    PROVE  DueCovers'
BY DEF DueCovers, Due, Alone, Quiet, Loaded

\* The invariant is inductive.
LEMMA NextCovers == ASSUME TypeOK, DueCovers, [Next]_vars PROVE DueCovers'
<1>1. TypeOK'
  BY NextType
<1>2. ASSUME NEW p \in Procs, PruneKeep(p) PROVE DueCovers'
  BY <1>2, SameCovers DEF PruneKeep, Files
<1>3. ASSUME NEW k \in Keys, Expire(k) PROVE DueCovers'
  <2>1. Files' = Files
    BY <1>3 DEF Expire, Files, TypeOK
  <2>2. QED
    BY <1>3, <2>1, SameCovers DEF Expire, local
<1>4. CASE UNCHANGED vars
  BY <1>4, SameCovers DEF vars, local, Files
<1>5. QED
  BY <1>1, <1>2, <1>3, <1>4, QuietCovers, DeleteCovers, WriteCovers,
     CountedCovers, StoreCovers, FailureCovers DEF Next, Continue

-----------------------------------------------------------------------------
(* Theorems. *)

\* Type correctness of the cache directory and of the calls under way.
THEOREM TypeCorrect == Spec => []TypeOK
BY InitType, NextType, PTL DEF Spec

\* Between calls the count covers the files, however many processes there are
\* and whatever has been lost before the last recount; expired files that get
\* removes uncounted and replaced files that set counts again only make the
\* count larger.
THEOREM CountCoversFiles == Spec => []CountCovers
<1>1. Init => DueCovers
  <2> SUFFICES ASSUME Init PROVE DueCovers
    OBVIOUS
  <2>1. Files = {} /\ Cardinality({}) = 0
    BY FS_EmptySet DEF Init, Files
  <2>2. ASSUME NEW p \in Procs PROVE Due(p) = 0 /\ Loaded(p)
    BY DEF Init, Due, Loaded
  <2>3. QED
    BY <2>1, <2>2 DEF DueCovers
<1>2. TypeOK /\ DueCovers /\ [Next]_vars => DueCovers'
  BY NextCovers
<1>3. DueCovers => CountCovers
  <2> SUFFICES ASSUME DueCovers, ~disturbed, \A p \in Procs : Quiet(p)
               PROVE  Cardinality(Files) <= count
    BY DEF CountCovers
  <2>1. PICK p \in Procs : TRUE
    BY ConstantsAssumption
  <2>2. Alone(p) /\ Due(p) = count
    BY DEF Alone, Quiet, Due
  <2>3. QED
    BY <2>2 DEF DueCovers
<1>4. QED
  BY <1>1, <1>2, <1>3, TypeCorrect, PTL DEF Spec

=============================================================================
