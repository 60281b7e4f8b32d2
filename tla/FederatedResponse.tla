--------------------------- MODULE FederatedResponse ---------------------------
(***************************************************************************)
(* What a federated response promises, apart from pools, tasks and         *)
(* temporary files: every part of it (the data of a route or of a network) *)
(* is delivered whole, given up, or still open.  A response is accepted or *)
(* refused once; no part is delivered twice; "no data" is said only when   *)
(* every part has been given up; and a response completes only when none   *)
(* is open and at least one has been delivered.                            *)
(***************************************************************************)
EXTENDS FiniteSets

CONSTANT Parts

VARIABLES
    phase,      \* "pending", "streaming", "complete", "broken", "refused"
    code,       \* the HTTP status, 0 while pending
    delivered,  \* parts the client has been sent
    lost        \* parts given up: their endpoints failed

vars == <<phase, code, delivered, lost>>

Init ==
    /\ phase = "pending"
    /\ code = 0
    /\ delivered = {}
    /\ lost = {}

Open == Parts \ (delivered \cup lost)

Lose ==
    /\ phase \in {"pending", "streaming"}
    /\ \E p \in Open : lost' = lost \cup {p}
    /\ UNCHANGED <<phase, code, delivered>>

Refuse(c) ==
    /\ phase = "pending"
    /\ c = 204 => Open = {}
    /\ phase' = "refused"
    /\ code' = c
    /\ UNCHANGED <<delivered, lost>>

Accept ==
    /\ phase = "pending"
    /\ Open # {}
    /\ phase' = "streaming"
    /\ code' = 200
    /\ UNCHANGED <<delivered, lost>>

Send ==
    /\ phase = "streaming"
    /\ \E p \in Open : delivered' = delivered \cup {p}
    /\ UNCHANGED <<phase, code, lost>>

Complete ==
    /\ phase = "streaming"
    /\ Open = {}
    /\ delivered # {}
    /\ phase' = "complete"
    /\ UNCHANGED <<code, delivered, lost>>

Break ==
    /\ phase = "streaming"
    /\ phase' = "broken"
    /\ UNCHANGED <<code, delivered, lost>>

Next ==
    \/ Lose \/ Accept \/ Send \/ Complete \/ Break
    \/ \E c \in {204, 413, 500} : Refuse(c)

Spec == Init /\ [][Next]_vars

=============================================================================
