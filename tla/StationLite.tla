------------------------------ MODULE StationLite ------------------------------
(***************************************************************************)
(* The routing query of StationLite: engine/dbquery.py, the resource under *)
(* server/routes and the output stream.  A database is a record            *)
(*    [rows, vnets]: rows a set of [stream, start, end, rstart, rend, rs,  *)
(*    service, url, positions], each a channel epoch joined to one of its  *)
(*    routings and to the epochs of its station, whose positions these are;*)
(*    vnets a set of [vnet, stream, start, end].                           *)
(* Absent times are None.  The harvester's module says how they come about.*)
(***************************************************************************)
EXTENDS FdsnRequests, Sequences, SequencesExt

CONSTANT Like           \* the codes a pattern matches: [Patterns -> SUBSET Codes]

Patterns == DOMAIN Like
Codes    == Like["*"]

\* Codes hold no wildcards: they are patterns that match themselves.
ASSUME LikeAssumption ==
    /\ "*" \in Patterns
    /\ \A p \in Patterns : Like[p] \subseteq Codes
    /\ \A c \in Codes : c \in Patterns /\ Like[c] = {c}

CodeStream == [net : Codes, sta : Codes, cha : Codes]
Services   == {"dataselect", "station", "wfcatalog"}

Row  == [stream : CodeStream, start : Times, end : TimesOrNone,
         rstart : Times, rend : TimesOrNone, rs : {"open", "closed", "partial"},
         service : Services, url : STRING, positions : SUBSET Position]

VirtualEpoch == {v \in [vnet : Codes, stream : CodeStream, start : Times, end : TimesOrNone] :
                   v.start < NoneAsMax(v.end)}

Database == [rows : SUBSET Row, vnets : SUBSET VirtualEpoch]

\* fdsnws_to_sql_wildcards and LIKE.
Matches(pattern, stream) ==
    /\ stream.net \in Like[pattern.net]
    /\ stream.sta \in Like[pattern.sta]
    /\ stream.cha \in Like[pattern.cha]

\* The time filters of both queries.
InTime(start, end, se) ==
    /\ se.start # None => end = None \/ end > se.start
    /\ se.end # None => start < se.end

\* A network that is a wildcard only does not select virtual networks.
ResolvesVnets(se) == se.stream.net \notin {"*", "?", "??"}

\* resolve_vnetwork: the epochs of the virtual networks, cut to the request.
ResolveVnetwork(db, se) ==
    UNION {Each(v.stream, Constrained({<<v.start, NoneAsMax(v.end)>>}, se.start, se.end)) :
        v \in {w \in db.vnets :
                 /\ ResolvesVnets(se)
                 /\ Matches(se.stream, [w.stream EXCEPT !.net = w.vnet])
                 /\ InTime(w.start, w.end, se)}}

-----------------------------------------------------------------------------
(* find_streamepochs_and_routes *)

InBox(position, box) ==
    LET s == SidesOf(box)
    IN  /\ position.lat >= s.minlat /\ position.lat <= s.maxlat
        /\ position.lon >= s.minlon /\ position.lon <= s.maxlon

\* A station is in the box if it has ever been.
Selected(db, se, req) ==
    {r \in db.rows :
        /\ Matches(se.stream, r.stream)
        /\ r.service = req.service
        /\ \E p \in r.positions : InBox(p, req.box)
        /\ InTime(r.start, r.end, se)
        /\ req.access # "any" /\ req.service = "dataselect" => r.rs = req.access}

RowStart(row, se) == Max({row.start, se.start})

LatestStart(row, se) == Max({row.start, row.rstart, se.start})

EarliestEnd(row, se) ==
    LET Given == {row.end, row.rend, se.end} \ {None}
    IN  IF Given = {} THEN EndOfTime ELSE Min(Given)

\* The level reduction.
Reduced(stream, level) ==
    CASE level = "network" -> Stream(stream.net, "*", "*")
      [] level = "station" -> Stream(stream.net, stream.sta, "*")
      [] OTHER -> stream

\* A route of each endpoint with a handler of what it serves.
FindRoutes(db, se, req) ==
    LET Rows == {r \in Selected(db, se, req) : EarliestEnd(r, se) > LatestStart(r, se)}
    IN  {[url |-> u,
          streams |-> Added({StreamEpoch(Reduced(r.stream, req.level),
                                         LatestStart(r, se), EarliestEnd(r, se)) :
                                 r \in {x \in Rows : x.url = u}})] : u \in {r.url : r \in Rows}}

-----------------------------------------------------------------------------
(* StationLiteResource._process_request *)

\* The epochs asked for and those of virtual networks.
Queried(db, req, now) ==
    LET asked == RoutingLoaded(req, now)
    IN  asked \cup UNION {ResolveVnetwork(db, se) : se \in asked}

\* The routes of every epoch, cut to it.
CutRoutes(db, req, now) ==
    UNION {{[r EXCEPT !.streams = Modified(@, se.start, se.end)] : r \in FindRoutes(db, se, req)} :
               se \in Queried(db, req, now)}

\* One route of each endpoint, with the epochs of its merged handlers; at the
\* reduced levels one epoch of each stream, from begin to end.
MergedRoutes(cut, level) ==
    LET EpochsOf(it) == IF level \in {"network", "station"}
                      THEN {Hull(it.stream, it.tree)} ELSE Each(it.stream, it.tree)
    IN  {[url |-> u,
          streams |-> UNION {EpochsOf(it) : it \in
              MergedHandlers({r.streams : r \in {x \in cut : x.url = u}})}] :
             u \in {r.url : r \in cut}}

-----------------------------------------------------------------------------
(* PostStream.__str__ *)

UrlLine(url) == [kind |-> "url", url |-> url]
Blank == [kind |-> "blank"]

\* skip_empty_datetimes: no word for an end that is datetime.max.
EpochLine(se) ==
    [kind |-> "epoch", epoch |-> IF se.end = EndOfTime THEN [se EXCEPT !.end = None] ELSE se]

\* The code sorts the lines; their order does not matter.
Block(route) == <<UrlLine(route.url)>> \o SetToSeq({EpochLine(se) : se \in route.streams})

LinesTerminated(rs) ==
    LET Text[k \in 0 .. Len(rs)] ==
            IF k = 0 THEN <<>> ELSE Text[k - 1] \o Append(Block(rs[k]), Blank)
    IN  Text[Len(rs)]

\* The text for a list of routes.  The empty line that ends a block becomes the
\* end of the line before it where the text ends.
Lines(rs) ==
    LET Text[k \in 1 .. Len(rs)] ==
            IF k = 1 THEN Block(rs[1]) ELSE Append(Text[k - 1], Blank) \o Block(rs[k])
    IN  Text[Len(rs)]

=============================================================================
