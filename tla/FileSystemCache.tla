----------------------------- MODULE FileSystemCache -----------------------------
(***************************************************************************)
(* FileSystemCache (federator/server/cache.py): the cache directory shared *)
(* by the processes of the server, one file per key and one file holding   *)
(* the number of files.  There is no lock: an action is what one call to   *)
(* the operating system makes visible to the other processes.              *)
(***************************************************************************)
EXTENDS Integers, Sequences, FiniteSets, FiniteSetsExt, SequencesExt

CONSTANTS
    Procs,       \* server processes using the cache
    Keys,        \* cache keys
    NoKey,       \* stands for no key at all
    Threshold,   \* threshold; 0, which switches counting off, is left out
    MaxDeletes,  \* bound: number of calls of delete
    MaxFaults,   \* bound: number of failing system calls and killed processes
    MaxCount     \* bound: counts from here on, all above Threshold, are one;
                 \* so far up that there are not more keys

ASSUME ConstantsAssumption ==
    /\ IsFiniteSet(Procs) /\ Procs # {}
    /\ IsFiniteSet(Keys)
    /\ NoKey \notin Keys
    /\ Threshold \in Nat \ {0}
    /\ MaxDeletes \in Nat
    /\ MaxFaults \in Nat
    /\ MaxCount \in Nat /\ MaxCount > Threshold /\ MaxCount >= Cardinality(Keys)

VARIABLES
    entry,     \* the file of a key: "none", "fresh" or "expired"
    count,     \* content of the count file (0 if there is none)
    deletes,   \* calls of delete so far
    faults,    \* faults so far
    pc,        \* where a process is; "down" if it is not running
    key,       \* the key it works on
    delta,     \* what it is about to add to the count
    num,       \* the number it has read or counted
    todo,      \* _prune: the files it has listed ...
    idx,       \* ... and the position of the one it looks at
    disturbed  \* history: since the files were counted last, calls have been
               \* under way at a time or a fault has cost an increment

local == <<key, delta, num, todo, idx>>
vars  == <<entry, count, deletes, faults, pc, local, disturbed>>

\* _list_dir: neither temporary files nor the count file.
Files == {k \in Keys : entry[k] # "none"}

\* An empty directory, and no process yet.
Init ==
    /\ entry = [k \in Keys |-> "none"]
    /\ count = 0
    /\ deletes = 0
    /\ faults = 0
    /\ pc = [p \in Procs |-> "down"]
    /\ key = [p \in Procs |-> NoKey]
    /\ delta = [p \in Procs |-> 0]
    /\ num = [p \in Procs |-> 0]
    /\ todo = [p \in Procs |-> <<>>]
    /\ idx = [p \in Procs |-> 1]
    /\ disturbed = FALSE

Quiet(p)  == pc[p] \in {"idle", "down"}
Others(p) == \E q \in Procs \ {p} : ~Quiet(q)

Goto(p, to) ==
    /\ pc' = [pc EXCEPT ![p] = to]
    /\ disturbed' = (disturbed \/ Others(p))

\* A call is over.
Forget(p) ==
    /\ key' = [key EXCEPT ![p] = NoKey]
    /\ delta' = [delta EXCEPT ![p] = 0]
    /\ num' = [num EXCEPT ![p] = 0]
    /\ todo' = [todo EXCEPT ![p] = <<>>]
    /\ idx' = [idx EXCEPT ![p] = 1]

\* __init__ counts the files that are there, then the count is stored.
Start(p) ==
    /\ pc[p] = "down"
    /\ num' = [num EXCEPT ![p] = Cardinality(Files)]
    /\ pc' = [pc EXCEPT ![p] = "init"]
    /\ disturbed' = Others(p)
    /\ UNCHANGED <<entry, count, deletes, faults, key, delta, todo, idx>>

InitStore(p) ==
    /\ pc[p] = "init"
    /\ count' = num[p]
    /\ num' = [num EXCEPT ![p] = 0]
    /\ Goto(p, "idle")
    /\ UNCHANGED <<entry, deletes, faults, key, delta, todo, idx>>

-----------------------------------------------------------------------------
(* The calls. *)

\* get and __contains__: an expired file is removed, by name and without
\* touching the count.
Get(p) ==
    /\ pc[p] = "idle"
    /\ \E k \in Keys :
          /\ entry[k] = "expired"
          /\ key' = [key EXCEPT ![p] = k]
    /\ Goto(p, "unlink")
    /\ UNCHANGED <<entry, count, deletes, faults, delta, num, todo, idx>>

GetUnlink(p) ==
    /\ pc[p] = "unlink"
    /\ entry' = [entry EXCEPT ![key[p]] = "none"]
    /\ key' = [key EXCEPT ![p] = NoKey]
    /\ Goto(p, "idle")
    /\ UNCHANGED <<count, deletes, faults, delta, num, todo, idx>>

\* delete
Delete(p) ==
    /\ pc[p] = "idle"
    /\ deletes < MaxDeletes
    /\ deletes' = deletes + 1
    /\ \E k \in Files : entry' = [entry EXCEPT ![k] = "none"]
    /\ delta' = [delta EXCEPT ![p] = -1]
    /\ Goto(p, "load")
    /\ UNCHANGED <<count, faults, key, num, todo, idx>>

\* set begins with _prune, which begins with reading the count.
Set(p) ==
    /\ pc[p] = "idle"
    /\ \E k \in Keys : key' = [key EXCEPT ![p] = k]
    /\ Goto(p, IF count > Threshold THEN "list" ELSE "write")
    /\ UNCHANGED <<entry, count, deletes, faults, delta, num, todo, idx>>

\* Mutant: positions start from 0 as in Python, the rest does not.
PruneListZero(p) ==
    /\ pc[p] = "list"
    /\ \E s \in SetToSeqs(Files) : todo' = [todo EXCEPT ![p] = s]
    /\ idx' = [idx EXCEPT ![p] = 0]
    /\ Goto(p, "prune")
    /\ UNCHANGED <<entry, count, deletes, faults, key, delta, num>>

\* _prune lists the directory, in the order the operating system likes.
PruneList(p) ==
    /\ pc[p] = "list"
    /\ \E s \in SetToSeqs(Files) : todo' = [todo EXCEPT ![p] = s]
    /\ idx' = [idx EXCEPT ![p] = 1]
    /\ Goto(p, "prune")
    /\ UNCHANGED <<entry, count, deletes, faults, key, delta, num>>

Pruned(p) == todo[p][idx[p]]

\* A file goes if it has expired, and every third goes in any case.
IsDoomed(p) == entry[Pruned(p)] = "expired" \/ idx[p] % 3 = 1

\* A listed file is opened and stays, or is gone by now.
PruneKeep(p) ==
    /\ pc[p] = "prune"
    /\ idx[p] <= Len(todo[p])
    /\ entry[Pruned(p)] = "none" \/ ~IsDoomed(p)
    /\ idx' = [idx EXCEPT ![p] = @ + 1]
    /\ UNCHANGED <<entry, count, deletes, faults, pc, key, delta, num, todo,
                   disturbed>>

PruneOpen(p) ==
    /\ pc[p] = "prune"
    /\ idx[p] <= Len(todo[p])
    /\ entry[Pruned(p)] # "none" /\ IsDoomed(p)
    /\ Goto(p, "remove")
    /\ UNCHANGED <<entry, count, deletes, faults, local>>

PruneRemove(p) ==
    /\ pc[p] = "remove"
    /\ entry' = [entry EXCEPT ![Pruned(p)] = "none"]
    /\ idx' = [idx EXCEPT ![p] = @ + 1]
    /\ Goto(p, "prune")
    /\ UNCHANGED <<count, deletes, faults, key, delta, num, todo>>

\* The files left are counted, then the count is stored.
PruneCount(p) ==
    /\ pc[p] = "prune"
    /\ idx[p] > Len(todo[p])
    /\ num' = [num EXCEPT ![p] = Cardinality(Files)]
    /\ todo' = [todo EXCEPT ![p] = <<>>]
    /\ idx' = [idx EXCEPT ![p] = 1]
    /\ pc' = [pc EXCEPT ![p] = "recount"]
    /\ disturbed' = Others(p)
    /\ UNCHANGED <<entry, count, deletes, faults, key, delta>>

PruneStore(p) ==
    /\ pc[p] = "recount"
    /\ count' = num[p]
    /\ num' = [num EXCEPT ![p] = 0]
    /\ Goto(p, "write")
    /\ UNCHANGED <<entry, deletes, faults, key, delta, todo, idx>>

\* Mutant: a file that was there already is not counted again.
WriteNew(p) ==
    /\ pc[p] = "write"
    /\ entry' = [entry EXCEPT ![key[p]] = "fresh"]
    /\ delta' = [delta EXCEPT ![p] = IF key[p] \in Files THEN 0 ELSE 1]
    /\ key' = [key EXCEPT ![p] = NoKey]
    /\ Goto(p, "load")
    /\ UNCHANGED <<count, deletes, faults, num, todo, idx>>

\* Mutant: every element is taken for a management element.
WriteUncounted(p) ==
    /\ pc[p] = "write"
    /\ entry' = [entry EXCEPT ![key[p]] = "fresh"]
    /\ key' = [key EXCEPT ![p] = NoKey]
    /\ Goto(p, "idle")
    /\ UNCHANGED <<count, deletes, faults, delta, num, todo, idx>>

\* The value is written to a temporary file, which nobody else looks at and
\* which takes the name of the key's file.
Write(p) ==
    /\ pc[p] = "write"
    /\ entry' = [entry EXCEPT ![key[p]] = "fresh"]
    /\ delta' = [delta EXCEPT ![p] = 1]
    /\ key' = [key EXCEPT ![p] = NoKey]
    /\ Goto(p, "load")
    /\ UNCHANGED <<count, deletes, faults, num, todo, idx>>

\* _update_count(delta): the count is read, then the sum is stored.
CountLoad(p) ==
    /\ pc[p] = "load"
    /\ num' = [num EXCEPT ![p] = count]
    /\ Goto(p, "add")
    /\ UNCHANGED <<entry, count, deletes, faults, key, delta, todo, idx>>

CountStore(p) ==
    /\ pc[p] = "add"
    /\ count' = Min({num[p] + delta[p], MaxCount})
    /\ num' = [num EXCEPT ![p] = 0]
    /\ delta' = [delta EXCEPT ![p] = 0]
    /\ Goto(p, "idle")
    /\ UNCHANGED <<entry, deletes, faults, key, todo, idx>>

Expire(k) ==
    /\ entry[k] = "fresh"
    /\ entry' = [entry EXCEPT ![k] = "expired"]
    /\ UNCHANGED <<count, deletes, faults, pc, local, disturbed>>

-----------------------------------------------------------------------------
(* Faults: the operating system refuses a call (too many open files, no      *)
(* space, no permission), or a process is killed.                            *)

Fault == faults < MaxFaults /\ faults' = faults + 1

\* The process is about to store a number without which the count may be less
\* than the number of files.
Owes(p) ==
    \/ pc[p] \in {"init", "recount"}
    \/ pc[p] \in {"load", "add"} /\ delta[p] # -1

\* The process goes on, and the count may have lost an increment.
Lose(p, to, lost) ==
    /\ pc' = [pc EXCEPT ![p] = to]
    /\ disturbed' = (disturbed \/ Others(p) \/ lost)

\* get cannot open or remove the expired file: it stays.
GetFails(p) ==
    /\ Fault
    /\ pc[p] = "unlink"
    /\ Goto(p, "idle")
    /\ Forget(p)
    /\ UNCHANGED <<entry, count, deletes>>

\* The count cannot be read and is taken for 0: no pruning ...
SetUnread(p) ==
    /\ Fault
    /\ pc[p] = "idle"
    /\ \E k \in Keys : key' = [key EXCEPT ![p] = k]
    /\ Goto(p, "write")
    /\ UNCHANGED <<entry, count, deletes, delta, num, todo, idx>>

\* ... and increments of 0.
CountUnread(p) ==
    /\ Fault
    /\ pc[p] = "load"
    /\ num' = [num EXCEPT ![p] = 0]
    /\ Lose(p, "add", TRUE)
    /\ UNCHANGED <<entry, count, deletes, key, delta, todo, idx>>

\* The directory cannot be listed: _prune, and set with it, raises.
ListFails(p) ==
    /\ Fault
    /\ pc[p] = "list" \/ (pc[p] = "prune" /\ idx[p] > Len(todo[p]))
    /\ Goto(p, "idle")
    /\ Forget(p)
    /\ UNCHANGED <<entry, count, deletes>>

\* A listed file cannot be opened, or not be removed: it stays.
PruneFails(p) ==
    /\ Fault
    /\ pc[p] = "remove"
    /\ idx' = [idx EXCEPT ![p] = @ + 1]
    /\ Goto(p, "prune")
    /\ UNCHANGED <<entry, count, deletes, key, delta, num, todo>>

\* mkstemp, write or rename fails: set returns False.
WriteFails(p) ==
    /\ Fault
    /\ pc[p] = "write"
    /\ Goto(p, "idle")
    /\ Forget(p)
    /\ UNCHANGED <<entry, count, deletes>>

\* chmod fails: set returns False, but the file is there, and not counted.
ChmodFails(p) ==
    /\ Fault
    /\ pc[p] = "write"
    /\ entry' = [entry EXCEPT ![key[p]] = "fresh"]
    /\ Lose(p, "idle", TRUE)
    /\ Forget(p)
    /\ UNCHANGED <<count, deletes>>

\* The count file cannot be stored: _update_count takes no notice.
StoreFails(p) ==
    /\ Fault
    /\ pc[p] \in {"init", "recount", "add"}
    /\ Lose(p, IF pc[p] = "recount" THEN "write" ELSE "idle", Owes(p))
    /\ IF pc[p] = "recount"
       THEN num' = [num EXCEPT ![p] = 0] /\ UNCHANGED <<key, delta, todo, idx>>
       ELSE Forget(p)
    /\ UNCHANGED <<entry, count, deletes>>

\* The process is killed; what it has changed stays, and it is started again.
Kill(p) ==
    /\ Fault
    /\ pc[p] # "down"
    /\ Lose(p, "down", Owes(p))
    /\ Forget(p)
    /\ UNCHANGED <<entry, count, deletes>>

Failure(p) ==
    \/ GetFails(p) \/ SetUnread(p) \/ CountUnread(p) \/ ListFails(p)
    \/ PruneFails(p) \/ WriteFails(p) \/ ChmodFails(p) \/ StoreFails(p)
    \/ Kill(p)

\* A call that has begun goes on, a process that is down is started.
Continue(p) ==
    \/ Start(p) \/ InitStore(p)
    \/ GetUnlink(p)
    \/ PruneList(p) \/ PruneKeep(p) \/ PruneOpen(p) \/ PruneRemove(p)
    \/ PruneCount(p) \/ PruneStore(p)
    \/ Write(p) \/ CountLoad(p) \/ CountStore(p)

Next ==
    \/ \E p \in Procs : Get(p) \/ Delete(p) \/ Set(p) \/ Continue(p) \/ Failure(p)
    \/ \E k \in Keys : Expire(k)

Spec == Init /\ [][Next]_vars

\* Calls end, killed processes are started again, faults are not for ever, and
\* responses go on being cached by every process.
FairSpec == Spec /\ \A p \in Procs : WF_vars(Continue(p)) /\ SF_vars(Set(p))

-----------------------------------------------------------------------------
(* Properties. *)

Stages == {"down", "init", "idle", "unlink", "list", "prune", "remove",
           "recount", "write", "load", "add"}

\* Every variable keeps its type.
TypeOK ==
    /\ entry \in [Keys -> {"none", "fresh", "expired"}]
    /\ count \in Int
    /\ deletes \in 0 .. MaxDeletes
    /\ faults \in 0 .. MaxFaults
    /\ pc \in [Procs -> Stages]
    /\ key \in [Procs -> Keys \cup {NoKey}]
    /\ delta \in [Procs -> {-1, 0, 1}]
    /\ num \in [Procs -> Int]
    /\ todo \in [Procs -> Seq(Keys)]
    /\ idx \in [Procs -> Nat \ {0}]
    /\ disturbed \in BOOLEAN

\* Between calls the count covers the files, so that a cache that is too large
\* is noticed by the next set, unless since the files were counted last (by a
\* start or by _prune) calls have overlapped or a fault has cost an increment.
CountCovers ==
    ~disturbed /\ (\A p \in Procs : Quiet(p)) => Cardinality(Files) <= count

\* However many increments processes take from each other or faults cost, a
\* cache that has more files than it should have is pruned in the end.
PrunedInTheEnd ==
    Cardinality(Files) > Threshold ~> \E p \in Procs : pc[p] = "list"

=============================================================================
