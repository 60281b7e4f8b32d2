---------------------------- MODULE RequestStrategy ----------------------------
(***************************************************************************)
(* A federated request from its arrival until its tasks are issued: the    *)
(* resources parse and validate it, the request strategy asks StationLite  *)
(* for routes and reads the answer line by line, endpoints that have used  *)
(* up the client retry budget are dropped, and the strategy cuts what is   *)
(* left into download and combining tasks (federator/server/strategy.py,   *)
(* process.py).  What becomes of the tasks is the subject of the modules   *)
(* Federator and StationXml.                                               *)
(***************************************************************************)
EXTENDS StationLite

CONSTANTS
    Databases,      \* contents of StationLite's database
    Requests,       \* of clients, see FdsnRequests
    Configs,        \* records [budget, ratios, maxEpoch, maxTotal]: client
                    \* retry budget and the error ratio of each endpoint in
                    \* percent, the longest stream epoch and the longest
                    \* total, None for no limit
    Now,            \* when the request arrives
    Delays,         \* how much later StationLite may see it
    MaxDelta        \* timedelta.max

Arguments == [nets : SUBSET Patterns, stas : SUBSET Patterns, chas : SUBSET Patterns,
              start : TimesOrNone, end : TimesOrNone]

PostLine == [stream : [net : Patterns, sta : Patterns, cha : Patterns],
             start : TimesOrNone, end : TimesOrNone]

\* What the parameter schemas of the services let pass: a level, XML and a box
\* are of the station service.
Request == {r \in [service : Services, format : {"miniseed", "xml", "text", "json"},
                   level : {"network", "station", "channel", "response"},
                   box : Box, method : {"GET", "POST"}, query : Arguments,
                   lines : SUBSET PostLine] :
              r.level # "channel" \/ r.format \in {"xml", "text"} \/ r.box # NoBox =>
                  r.service = "station"}

ASSUME ConstantsAssumption ==
    /\ EndOfTime \in Nat
    /\ MaxDegree \in Nat /\ MaxDegree > 1
    /\ \A d \in Databases : d \in Database /\ IsFiniteSet(d.rows)
    /\ Requests \subseteq Request
    /\ Now \in Times
    /\ Delays \subseteq Nat
    /\ MaxDelta \in Nat

\* ALLOWED_STRATEGIES of the processor of a request.
Allowed(req) ==
    IF req.service = "station" /\ req.format = "xml"
    THEN {"combining", "adaptive-bulk"} ELSE {"granular", "bulk"}

VARIABLES
    db, request, config, strategy,  \* chosen once
    phase,      \* "new", "routing", "queried", "parsing", "parsed", "routed",
                \* "issued" or "answered"
    epochs,     \* the stream epochs of the request
    found,      \* StationLite: the routes of the epochs
    lines,      \* of the routing service's answer, not yet read
    urlline,    \* the line read as URL, or NoLine
    block,      \* stream epochs read since
    table,      \* the routing table: from endpoints to sequences of epochs
    total,      \* the total stream duration
    routes,     \* the routes left, demultiplexed
    tasks,      \* given to the pool
    code,       \* of the answer, or None
    failed      \* the routing service has failed

chosen == <<db, request, config, strategy>>
parser == <<lines, urlline, block, table, total>>
vars   == <<chosen, phase, epochs, found, parser, routes, tasks, code, failed>>

NoLine == [kind |-> "none"]
Eof    == [kind |-> "eof"]

Init ==
    /\ db \in Databases
    /\ request \in Requests
    /\ config \in Configs
    /\ strategy \in Allowed(request)
    /\ phase = "new"
    /\ epochs = {} /\ found = {} /\ routes = <<>>
    /\ lines = <<>> /\ urlline = NoLine /\ block = <<>>
    /\ table = [u \in {} |-> <<>>] /\ total = 0
    /\ tasks = <<>>
    /\ code = None
    /\ failed = FALSE

Answered(status) ==
    /\ phase' = "answered" /\ code' = status
    /\ UNCHANGED tasks

NoData == 204
TooLarge == 413

-----------------------------------------------------------------------------
(* The resource. *)

Reject ==
    /\ phase = "new" /\ ~Accepts(request, Now)
    /\ Answered(400)
    /\ UNCHANGED <<chosen, epochs, found, parser, routes, failed>>

Accept ==
    /\ phase = "new" /\ Accepts(request, Now)
    /\ phase' = "routing"
    /\ epochs' = Loaded(request, Now)
    /\ UNCHANGED <<chosen, found, parser, routes, tasks, code, failed>>

-----------------------------------------------------------------------------
(* StationLite, which may see the request later. *)

Ask == RoutingRequest(request, epochs)

Query ==
    /\ phase = "routing"
    /\ \E d \in Delays :
        /\ RoutingAccepts(Ask, Now + d)
        /\ found' = CutRoutes(db, Ask, Now + d)
    /\ phase' = "queried"
    /\ UNCHANGED <<chosen, epochs, parser, routes, tasks, code, failed>>

-----------------------------------------------------------------------------
(* RequestStrategyBase._route *)

Fetch ==
    /\ phase = "queried" /\ found # {}
    /\ lines' = Lines(SetToSeq(MergedRoutes(found, Ask.level)))
    /\ phase' = "parsing"
    /\ UNCHANGED <<chosen, epochs, found, urlline, block, table, total, routes,
                   tasks, code, failed>>

FetchNothing ==
    /\ phase = "queried" /\ found = {}
    /\ Answered(NoData)
    /\ UNCHANGED <<chosen, epochs, found, parser, routes, failed>>

\* Any other status, a timeout or a connection that breaks.
FetchFails ==
    /\ phase \in {"routing", "queried"}
    /\ \E fails \in BOOLEAN :
        /\ fails \/ \E d \in Delays : ~RoutingAccepts(Ask, Now + d)
        /\ failed' = fails
    /\ Answered(500)
    /\ UNCHANGED <<chosen, epochs, found, parser, routes>>

\* fd.readline(): empty, again and again, at the end of the answer.
Line == IF lines = <<>> THEN Eof ELSE Head(lines)
ReadLine == lines' = IF lines = <<>> THEN lines ELSE Tail(lines)

IsEmpty(line) == line.kind \in {"blank", "eof"}

ReadUrl ==
    /\ phase = "parsing" /\ urlline = NoLine
    /\ ReadLine
    /\ urlline' = IF IsEmpty(Line) THEN NoLine ELSE Line
    /\ UNCHANGED <<chosen, phase, epochs, found, block, table, total, routes, tasks, code, failed>>

\* An empty line ends a block, the end of the answer the last one.
ReadEnd ==
    /\ phase = "parsing" /\ urlline # NoLine /\ IsEmpty(Line)
    /\ ReadLine
    /\ table' = IF block = <<>> THEN table
                ELSE [u \in DOMAIN table \cup {urlline.url} |->
                         IF u = urlline.url THEN block ELSE table[u]]
    /\ urlline' = NoLine /\ block' = <<>>
    /\ phase' = IF Line = Eof THEN "parsed" ELSE "parsing"
    /\ UNCHANGED <<chosen, epochs, found, total, routes, tasks, code, failed>>

\* from_snclline: a POST request gets the time of the request for a missing end.
FromLine(line) ==
    [line.epoch EXCEPT !.end =
        IF line.epoch.end = None /\ request.method = "POST" THEN Now ELSE line.epoch.end]

Exceeds(duration, limit) == limit # None /\ duration > limit

\* A sum that overflows is timedelta.max.
Sum2(a, b) == Min({a + b, MaxDelta})

ReadEpoch ==
    /\ phase = "parsing" /\ urlline # NoLine /\ ~IsEmpty(Line)
    /\ ReadLine
    /\ LET se == FromLine(Line)
       IN  IF Exceeds(Duration(se), config.maxEpoch)
           THEN /\ Answered(TooLarge)
                /\ UNCHANGED <<block, total>>
           ELSE /\ total' = Sum2(total, Duration(se))
                /\ block' = Append(block, se)
                /\ UNCHANGED <<phase, tasks, code>>
    /\ UNCHANGED <<chosen, epochs, found, urlline, table, routes, failed>>

-----------------------------------------------------------------------------
(* The routes left, and their tasks.                                       *)

\* _filter_by_client_retry_budget: none with a budget of 100 percent.
InBudget(url) == config.budget = 100 \/ config.ratios[url] <= config.budget

Filtered == [u \in {v \in DOMAIN table : InBudget(v)} |-> table[u]]

Route(url, streams) == [url |-> url, streams |-> streams]

\* demux_routes
Demuxed(rs) ==
    FlattenSeq([i \in DOMAIN rs |->
        [k \in DOMAIN rs[i].streams |-> Route(rs[i].url, <<rs[i].streams[k]>>)]])

Demux(tab) ==
    LET urls == SetToSeq(DOMAIN tab)
    IN  Demuxed([i \in DOMAIN urls |-> Route(urls[i], tab[urls[i]])])

Filter ==
    /\ phase = "parsed"
    /\ table' = Filtered
    /\ routes' = Demux(Filtered)
    /\ phase' = "routed"
    /\ UNCHANGED <<chosen, epochs, found, lines, urlline, block, total, tasks, code, failed>>

\* What a sequence holds at some places; here the order does not matter.
Picked(s, places) == LET p == SetToSeq(places) IN [i \in DOMAIN p |-> s[p[i]]]

\* group_routes_by(key='network'): the groups, each a sequence of routes.
Network(route) == route.streams[1].stream.net

Groups ==
    {Picked(routes, {i \in DOMAIN routes : Network(routes[i]) = n}) :
        n \in {Network(r) : r \in ToSet(routes)}}

\* _mux_routes, of a group: one route of each endpoint.
Muxed(group) ==
    LET Of(u) == Picked(group, {i \in DOMAIN group : group[i].url = u})
    IN  SetToSeq({Route(u, [i \in DOMAIN Of(u) |-> Of(u)[i].streams[1]]) :
                     u \in {r.url : r \in ToSet(group)}})

Default(route) == [kind |-> "default", routes |-> <<route>>]
Combining(rs) == [kind |-> "combining", routes |-> rs]

DefaultEach(rs) == [i \in DOMAIN rs |-> Default(rs[i])]

\* The tasks of request(), by strategy.
GranularTasks == DefaultEach(routes)

BulkTasks == FlattenSeq(SetToSeq({DefaultEach(Muxed(g)) : g \in Groups}))

\* A network of several endpoints is left to a task that combines them.
AdaptiveTasks ==
    SetToSeq({IF Len(m) > 1 THEN Combining(Demuxed(m)) ELSE Default(m[1]) :
                m \in {Muxed(g) : g \in Groups}})

CombiningTasks == SetToSeq({Combining(g) : g \in Groups})

Tasks ==
    CASE strategy = "granular"      -> GranularTasks
      [] strategy = "bulk"          -> BulkTasks
      [] strategy = "adaptive-bulk" -> AdaptiveTasks
      [] strategy = "combining"     -> CombiningTasks

\* RequestProcessor._create_response; the total is that of all routes, also
\* of those the budget has removed.
NoRoutes ==
    /\ phase = "routed" /\ routes = <<>>
    /\ Answered(NoData)
    /\ UNCHANGED <<chosen, epochs, found, parser, routes, failed>>

TotalTooLarge ==
    /\ phase = "routed" /\ routes # <<>> /\ Exceeds(total, config.maxTotal)
    /\ Answered(TooLarge)
    /\ UNCHANGED <<chosen, epochs, found, parser, routes, failed>>

Issue ==
    /\ phase = "routed" /\ routes # <<>> /\ ~Exceeds(total, config.maxTotal)
    /\ tasks' = Tasks
    /\ phase' = "issued"
    /\ UNCHANGED <<chosen, epochs, found, parser, routes, code, failed>>

Next ==
    \/ Reject \/ Accept
    \/ Query \/ Fetch \/ FetchNothing \/ FetchFails
    \/ ReadUrl \/ ReadEnd \/ ReadEpoch
    \/ Filter \/ NoRoutes \/ TotalTooLarge \/ Issue

\* One thread runs the request; requests to the routing service have a timeout.
Spec == Init /\ [][Next]_vars /\ WF_vars(Next)

-----------------------------------------------------------------------------
(* Properties. *)

\* What the client asks for, in the words of the request.
Asked ==
    LET q == request.query
        OrAny(S) == IF S = {} THEN {"*"} ELSE S
    IN  IF request.method = "POST" THEN {l \in request.lines : None \notin {l.start, l.end}}
        ELSE [stream : [net : OrAny(q.nets), sta : OrAny(q.stas), cha : OrAny(q.chas)],
              start : {q.start}, end : {q.end}]

Within(t, start, end) == start <= t /\ (end = None \/ t < end)

\* The request names a stream by its network or by a virtual one at a time.
Names(a, stream, t) ==
    \/ Matches(a.stream, stream)
    \/ \E v \in db.vnets :
        /\ a.stream.net \notin {"*", "?", "??"}
        /\ v.stream = stream /\ Within(t, v.start, v.end)
        /\ Matches(a.stream, [stream EXCEPT !.net = v.vnet])

\* The position is beyond no side of the box that the client names.
Inside(position) ==
    LET box == request.box
    IN  /\ box.minlat = None \/ box.minlat <= position.lat
        /\ box.maxlat = None \/ position.lat <= box.maxlat
        /\ box.minlon = None \/ box.minlon <= position.lon
        /\ box.maxlon = None \/ position.lon <= box.maxlon

\* Times of streams an endpoint serves of what is asked for, by the database.
Wanted ==
    UNION {{<<r.url, Reduced(r.stream, request.level), t>> :
              t \in {x \in 1..(Now - 1) :
                  /\ Within(x, r.start, r.end) /\ Within(x, r.rstart, r.rend)
                  /\ \E a \in Asked : Within(x, a.start, a.end) /\ Names(a, r.stream, x)}} :
           r \in {y \in db.rows :
                  /\ InBudget(y.url) /\ y.service = request.service
                  /\ \E p \in y.positions : Inside(p)
                  /\ request.service = "dataselect" => y.rs = "open"}}

\* Every route of every task with each of its stream epochs.
Issued ==
    UNION {UNION {{<<i, j, k>> : k \in DOMAIN tasks[i].routes[j].streams} :
                      j \in DOMAIN tasks[i].routes} : i \in DOMAIN tasks}

Url(x) == tasks[x[1]].routes[x[2]].url
Se(x)  == tasks[x[1]].routes[x[2]].streams[x[3]]

Requested ==
    UNION {{<<Url(x), Se(x).stream, t>> :
              t \in {y \in 1..(Now - 1) : Within(y, Se(x).start, Se(x).end)}} :
           x \in Issued}

\* What the tasks ask the endpoints for, up to now, is what the request asks
\* for and the database says the endpoints within the budget serve: nothing
\* is missing, and at channel level nothing is added.  Network and station
\* level fill the gaps of a stream but add none.
RoutedAsStored ==
    phase = "issued" =>
        /\ Wanted \subseteq Requested
        /\ IF request.level \in {"network", "station"}
           THEN {<<w[1], w[2]>> : w \in Requested} = {<<w[1], w[2]>> : w \in Wanted}
           ELSE Requested = Wanted

\* No endpoint is asked twice for a time of a stream, also if lines of the
\* request or virtual networks name it twice: its data would be sent twice.
\* Where StationXML is combined, no network is split between tasks, for the
\* response writes the network of every task as an element of its own.
TasksPartition ==
    /\ \A x, y \in Issued :
        x # y /\ Url(x) = Url(y) /\ Se(x).stream = Se(y).stream =>
            \/ NoneAsMax(Se(x).end) <= Se(y).start
            \/ NoneAsMax(Se(y).end) <= Se(x).start
    /\ request.format = "xml" =>
        \A x, y \in Issued :
            Se(x).stream.net = Se(y).stream.net => x[1] = y[1]

\* A request is told that there is no data only if no endpoint within the
\* budget serves any, and that the federator has failed only if its routing
\* service has, or if StationLite refuses the request.  Of what the federator
\* has taken it refuses boxes whose sides are not in order, and nothing else.
RefusalIsTrue ==
    /\ code = NoData => Wanted = {}
    /\ code = 500 => failed \/ ~Ordered(request.box)

\* The parser comes to the end of every answer of StationLite, and the
\* request is answered or its tasks are issued.
RouteEnds == <>(phase \in {"issued", "answered"})

=============================================================================
