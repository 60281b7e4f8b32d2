----------------------------- MODULE BoundedSeries -----------------------------
(***************************************************************************)
(* What a response code time series promises, apart from redis and its     *)
(* transactions: response codes are appended one at a time, only the       *)
(* youngest Window entries are kept, entries grow old, and old ones may be *)
(* discarded.  An entry is a record [code, age]; ages are counted in       *)
(* ticks up to Ttl + 1, which stands for every greater age.                *)
(***************************************************************************)
EXTENDS Integers, Sequences

CONSTANTS Window, Ttl     \* naturals, Window > 0

VARIABLE series

Codes   == {"fine", "error"}
Entries == [code : Codes, age : 0 .. (Ttl + 1)]

Min(a, b) == IF a < b THEN a ELSE b
Max(a, b) == IF a > b THEN a ELSE b

\* The youngest n entries (all of them if there are fewer).
Youngest(s, n) == SubSeq(s, Max(0, Len(s) - n) + 1, Len(s))

Older(s) ==
    [i \in 1 .. Len(s) |-> [s[i] EXCEPT !.age = Min(s[i].age + 1, Ttl + 1)]]

Init == series = <<>>

Record(code) ==
    series' = Append(Youngest(series, Window - 1), [code |-> code, age |-> 0])

Discard == \E n \in 0 .. Len(series) : series' = Youngest(series, n)

Tick == series' = Older(series)

Next == Discard \/ Tick \/ \E code \in Codes : Record(code)

Spec == Init /\ [][Next]_series

=============================================================================
