--------------------------- MODULE MCRequestStrategy ---------------------------
(* Databases and requests for TLC.  Times are 1..5, it is 4 o'clock, 6 is    *)
(* the end of time.  Endpoint x serves network A and, with y, network B; the *)
(* virtual network V has streams of both.  Of the first station of A a       *)
(* channel has two epochs, one of them closed, with a gap or none.  Degrees  *)
(* are 1..3; station a of A is in the southwest, b in the northeast, and a   *)
(* of B has moved from the one to the other.                                 *)
EXTENDS RequestStrategy

MCLike ==
    [p \in {"*", "?", "A", "B", "V", "a", "b", "h", "z"} |->
        CASE p = "*" -> {"A", "B", "V", "a", "b", "h", "z"}
          [] p = "?" -> {"A", "B", "V", "a", "b", "h", "z"}
          [] OTHER   -> {p}]

At(lat, lon) == [lat |-> lat, lon |-> lon]

PositionsOf(stream) ==
    CASE stream.net = "B" -> {At(1, 1), At(3, 2)}
      [] stream.sta = "b" -> {At(2, 3)}
      [] OTHER            -> {At(1, 1)}

Rows(stream, start, end, rstart, rend, rs, url) ==
    {[stream |-> stream, start |-> start, end |-> end, rstart |-> rstart, rend |-> rend,
      rs |-> rs, service |-> s, url |-> url, positions |-> PositionsOf(stream)] : s \in Services}

Aa == Stream("A", "a", "h")
Ab == Stream("A", "b", "h")
Ba == Stream("B", "a", "h")
Bz == Stream("B", "a", "z")

Vnets == {[vnet |-> "V", stream |-> Aa, start |-> 1, end |-> 3],
          [vnet |-> "V", stream |-> Bz, start |-> 2, end |-> None]}

MCDatabases ==
    {[rows |-> {}, vnets |-> {}],
     \* adjacent epochs of a channel, a routing epoch shorter than the channel's
     [rows |-> Rows(Aa, 1, 2, 1, None, "open", "x") \cup Rows(Aa, 2, None, 1, None, "open", "x")
               \cup Rows(Ab, 1, None, 2, 3, "open", "x"),
      vnets |-> Vnets],
     \* a gap between epochs of a channel and one in the routing
     [rows |-> Rows(Aa, 1, 2, 1, None, "open", "x") \cup Rows(Aa, 3, None, 2, None, "open", "x")
               \cup Rows(Ab, 1, None, 1, 2, "closed", "y"),
      vnets |-> {}],
     \* a closed epoch between open ones, a network at two endpoints
     [rows |-> Rows(Aa, 1, 2, 1, None, "open", "x") \cup Rows(Aa, 2, 3, 1, None, "closed", "x")
               \cup Rows(Aa, 3, None, 1, None, "open", "x")
               \cup Rows(Ba, 1, 4, 1, None, "open", "x") \cup Rows(Bz, 1, None, 1, None, "open", "y"),
      vnets |-> Vnets]}

Args(nets, stas, start, end) ==
    [nets |-> nets, stas |-> stas, chas |-> {}, start |-> start, end |-> end]

Gets == {Args({}, {}, None, None), Args({"A", "B"}, {}, 2, None), Args({"A", "*"}, {"a"}, 1, 5),
         Args({"V"}, {}, 1, 3), Args({"?"}, {"b"}, None, 2), Args({"V", "A"}, {"a", "b"}, 2, 4),
         Args({"B"}, {}, 3, 2), Args({"A"}, {}, 5, None)}

PostedLine(n, s, start, end) == StreamEpoch(Stream(n, s, "*"), start, end)

Posts == {{PostedLine("A", "*", 1, 2), PostedLine("A", "a", 2, 3), PostedLine("A", "a", 1, 3)},
          {PostedLine("V", "*", 1, 5), PostedLine("B", "a", 3, 5)},
          {PostedLine("A", "a", 1, 2), PostedLine("A", "a", 3, 4), PostedLine("B", "*", 1, None)},
          {PostedLine("A", "a", 1, None)}}

Kinds == {[service |-> "dataselect", format |-> "miniseed", level |-> "channel"],
          [service |-> "station", format |-> "xml", level |-> "station"],
          [service |-> "station", format |-> "xml", level |-> "response"],
          [service |-> "station", format |-> "text", level |-> "network"],
          [service |-> "wfcatalog", format |-> "json", level |-> "channel"]}

RequestOf(kind, box, method, query, postlines) ==
    [service |-> kind.service, format |-> kind.format, level |-> kind.level, box |-> box,
     method |-> method, query |-> query, lines |-> postlines]

\* The north, the southwest, what is at one latitude or behind the date line,
\* and the far north, which has no area with the missing side.
Boxes == {[NoBox EXCEPT !.minlat = 2], [NoBox EXCEPT !.maxlat = 2, !.minlon = 1, !.maxlon = 2],
          [NoBox EXCEPT !.minlat = 1, !.maxlat = 1], [NoBox EXCEPT !.minlon = 3, !.maxlon = 1],
          [NoBox EXCEPT !.minlat = 3]}

MCRequests ==
    {RequestOf(k, NoBox, "GET", q, {}) : k \in Kinds, q \in Gets}
        \cup {RequestOf(k, NoBox, "POST", NoQuery, ls) : k \in Kinds, ls \in Posts}
        \cup {RequestOf(k, b, "GET", Args({}, {}, None, None), {}) :
                  k \in {x \in Kinds : x.service = "station"}, b \in Boxes}

Config(budget, x, y, maxEpoch, maxTotal) ==
    [budget |-> budget, ratios |-> ("x" :> x) @@ ("y" :> y),
     maxEpoch |-> maxEpoch, maxTotal |-> maxTotal]

MCConfigs == {Config(100, 0, 100, None, None), Config(50, 50, 60, None, 4),
              Config(50, 60, 0, 3, 3), Config(50, 60, 60, None, None)}

=============================================================================
