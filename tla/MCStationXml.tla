----------------------------- MODULE MCStationXml -----------------------------
(* StationXml for TLC: network A is combined from two routes whose documents *)
(* overlap in a station, network B is requested in bulk from one route.      *)
EXTENDS StationXml, TLC

MCRouteOrder == <<"r1", "r2">>
MCNetOf == [r \in {"r1", "r2"} |-> "A"]
MCDoc == ("r1" :> {<<"A", "s1", "c1">>}) @@
         ("r2" :> {<<"A", "s1", "c1">>, <<"A", "s1", "c2">>, <<"A", "s2", "c1">>})

=============================================================================
