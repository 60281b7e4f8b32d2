------------------------------ MODULE StreamEpochs ------------------------------
(***************************************************************************)
(* Streams, stream epochs and containers of them (utils/sncl.py), as the   *)
(* routing query and the request strategies use them.  An interval is a    *)
(* pair <<begin, end>> without its end; an interval tree is a set of them. *)
(* A handler, a dictionary from streams to trees, is the set of its items  *)
(* [stream, tree].  Location and channel code are one field.               *)
(***************************************************************************)
EXTENDS Integers, FiniteSets, FiniteSetsExt

CONSTANT EndOfTime      \* datetime.max

None == 0               \* an absent time; times are positive

Times       == 1 .. EndOfTime - 1
TimesOrNone == Times \cup {None}

Stream(net, sta, cha) == [net |-> net, sta |-> sta, cha |-> cha]

StreamEpoch(stream, start, end) == [stream |-> stream, start |-> start, end |-> end]

NoneAsMax(time) == IF time = None THEN EndOfTime ELSE time

Duration(se) ==
    LET d == NoneAsMax(se.end) - se.start IN IF d < 0 THEN -d ELSE d

Epoch(se) == <<se.start, NoneAsMax(se.end)>>

-----------------------------------------------------------------------------
(* Interval trees. *)

Begin(tree) == Min({iv[1] : iv \in tree})
End(tree)   == Max({iv[2] : iv \in tree})

Unmerged(tree) == tree

\* merge_overlaps(strict=False): what overlaps or only touches becomes one.
Merged(tree) ==
    LET Begins == {iv[1] : iv \in {i \in tree :
                      \A j \in tree : j[1] < i[1] => j[2] < i[1]}}
        Ends   == {iv[2] : iv \in {i \in tree :
                      \A j \in tree : j[2] > i[2] => j[1] > i[2]}}
    IN  {<<b, Min({e \in Ends : e > b})>> : b \in Begins}

Sliced(tree, t) ==
    LET Across == {iv \in tree : iv[1] < t /\ t < iv[2]}
    IN  (tree \ Across) \cup {<<iv[1], t>> : iv \in Across}
                        \cup {<<t, iv[2]>> : iv \in Across}

Overlap(tree, start, end) == {iv \in tree : iv[1] < end /\ start < iv[2]}

\* StreamEpochs.modify_with_temporal_constraints.
Constrained(tree, start, end) ==
    LET from == IF start = None THEN Begin(tree) ELSE start
        to   == IF end = None THEN End(tree) ELSE end
    IN  Overlap(Sliced(Sliced(tree, from), to), from, to)

\* StreamEpochs.__iter__: one stream epoch for each interval.
Each(stream, tree) == {StreamEpoch(stream, iv[1], iv[2]) : iv \in tree}

\* StreamEpoch.from_streamepochs: one stream epoch from begin to end.
Hull(stream, tree) == StreamEpoch(stream, Begin(tree), End(tree))

-----------------------------------------------------------------------------
(* Handlers. *)

Item(stream, tree) == [stream |-> stream, tree |-> tree]

\* add, of stream epochs: the union of trees, without merging.
Added(epochs) ==
    {Item(s, {Epoch(se) : se \in {e \in epochs : e.stream = s}}) :
        s \in {se.stream : se \in epochs}}

\* StreamEpochs.from_stream merges what it is given.
MergedItems(handler) == {Item(it.stream, Merged(it.tree)) : it \in handler}

\* modify_with_temporal_constraints
Modified(handler, start, end) ==
    {Item(it.stream, Constrained(it.tree, start, end)) : it \in MergedItems(handler)}

\* merge, of one handler after the other: add, and merge every tree.
MergedHandlers(handlers) ==
    LET items == UNION handlers
    IN  MergedItems({Item(s, UNION {it.tree : it \in {x \in items : x.stream = s}}) :
                         s \in {it.stream : it \in items}})

=============================================================================
