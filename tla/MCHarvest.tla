------------------------------- MODULE MCHarvest -------------------------------
(* Two nodes for TLC.  Node 1 has one route, whose channel changes its end,  *)
(* its start, its status and whether it states one; node 2 has two routes    *)
(* that both tell about stream b, one of a station without a status of its   *)
(* own that follows a closed one.                                            *)
EXTENDS Harvest

Cha(s, from, to, rs) == [stream |-> s, start |-> from, end |-> to, rs |-> rs]
Sta(code, rs, chas) == [code |-> code, rs |-> rs, channels |-> chas]
Net(rs, stas) == [code |-> "N", rs |-> rs, stations |-> stas]
Svc(s, token, from) ==
    [service |-> s, url |-> "host", token |-> token, start |-> from, end |-> Open]

DocsA == {Net("none", <<Sta("S", "none", chas)>>) : chas \in
    { <<Cha("a", 1, 3, "open")>>,
      <<Cha("a", 1, Open, "open")>>,
      <<Cha("a", 1, 2, "none"), Cha("a", 2, Open, "none")>>,
      <<Cha("a", 2, Open, "closed")>> }}
DocsB == {Net("none", <<Sta("T", "closed", <<Cha("b", 1, 2, "closed")>>),
                        Sta("U", "none", <<Cha("c", 1, Open, "none")>>)>>)}
DocsC == {Net("closed", <<Sta("T", "closed", <<Cha("b", 2, Open, rs)>>)>>) :
              rs \in {"closed", "partial"}}

MCNodes ==
    << [routes |-> << [docs |-> DocsA,
                       services |-> {<<Svc("dataselect", "query", 1)>>,
                                     <<Svc("station", "query", 2)>>}] >>,
        vnets  |-> << [vnet |-> "V", streams |-> {"a", "b"}, start |-> 1, end |-> 3] >>],
       [routes |-> << [docs |-> DocsB, services |-> {<<Svc("dataselect", "query", 1)>>}],
                      [docs |-> DocsC, services |-> {<<Svc("dataselect", "query", 1),
                                                       Svc("station", "query", 1)>>}] >>,
        vnets  |-> << [vnet |-> "V", streams |-> {"b"}, start |-> 2, end |-> Open] >>] >>

=============================================================================
