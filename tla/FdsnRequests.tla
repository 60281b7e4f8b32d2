------------------------------ MODULE FdsnRequests ------------------------------
(***************************************************************************)
(* What federator and StationLite make of an FDSN request (utils/fdsnws.py,*)
(* utils/schema.py, the resources under server/routes) and the request the *)
(* federator derives from it for the routing service (server/request.py).  *)
(*                                                                         *)
(* A request is a record [method, service, format, level, box, query,      *)
(* lines], the one for the routing service has an access and no format:    *)
(* query is [nets, stas, chas, start, end], sets of patterns and times, of *)
(* a GET; lines is the set of lines of a POST, stream epochs of patterns   *)
(* that lack a word where a time is None; box has minlatitude to           *)
(* maxlongitude, each of which may be None.                                *)
(***************************************************************************)
EXTENDS StreamEpochs

CONSTANT MaxDegree      \* the largest latitude and longitude, 1 is the least

Degrees  == 1 .. MaxDegree
Position == [lat : Degrees, lon : Degrees]

Sides == {"minlat", "maxlat", "minlon", "maxlon"}
Box   == [Sides -> Degrees \cup {None}]
NoBox == [side \in Sides |-> None]

\* A list that names the wildcard, or nothing, is the wildcard.
Absorbed(patterns) == IF patterns = {} \/ "*" \in patterns THEN {"*"} ELSE patterns

\* _parse_streamepochs_from_argdict: the product of the lists, with the times.
FromArgs(query) ==
    {StreamEpoch(Stream(n, s, c), query.start, query.end) :
        n \in Absorbed(query.nets), s \in Absorbed(query.stas), c \in Absorbed(query.chas)}

\* _parse_postfile: lines of six words, without duplicates.
FromPostfile(lines) == {l \in lines : l.start # None /\ l.end # None}

Epochs(req) ==
    IF req.method = "GET" THEN FromArgs(req.query) ELSE FromPostfile(req.lines)

\* validate_temporal_constraints, the checks.
ValidTimes(se, method, now) ==
    LET end == IF method = "GET" /\ (se.end = None \/ se.end > now) THEN now ELSE se.end
    IN  /\ method = "POST" => se.start # None /\ se.end # None
        /\ se.start # None => se.start <= now /\ se.start < end

\* ... and what it assigns: a GET request that ends in the future is open.
Reset(se, method, keepsEnd, now) ==
    IF method = "GET" /\ se.end > now /\ ~keepsEnd
    THEN [se EXCEPT !.end = None] ELSE se

\* ManyStreamEpochSchema.validate_schema.
SomeEpoch(req) == req.method = "POST" => Epochs(req) # {}

\* WFCatalogResource.get asks for both times.
BothTimes(req) ==
    req.method = "GET" /\ req.service = "wfcatalog" =>
        req.query.start # None /\ req.query.end # None

\* The federator's resources.  Its StationSchema does not compare the sides of
\* a box.
Accepts(req, now) ==
    /\ SomeEpoch(req)
    /\ \A se \in Epochs(req) : ValidTimes(se, req.method, now)
    /\ BothTimes(req)

Loaded(req, now) ==
    {Reset(se, req.method, req.service = "wfcatalog", now) : se \in Epochs(req)}

\* StationLiteSchema: sides that are missing are those of the globe.
SidesOf(box) ==
    [side \in Sides |-> IF box[side] # None THEN box[side]
                       ELSE IF side \in {"minlat", "minlon"} THEN 1 ELSE MaxDegree]

\* validate_spatial: no box without an area, nor one across the antimeridian.
Ordered(box) ==
    /\ SidesOf(box).minlat < SidesOf(box).maxlat
    /\ SidesOf(box).minlon < SidesOf(box).maxlon

\* StationLite's resource.  StationLiteSchema wants a level only of station
\* requests and an access only of dataselect requests.
RoutingAccepts(req, now) ==
    /\ SomeEpoch(req)
    /\ \A se \in Epochs(req) : ValidTimes(se, req.method, now)
    /\ Ordered(req.box)
    /\ req.level # "channel" => req.service = "station"
    /\ req.access # "any" => req.service = "dataselect"

RoutingLoaded(req, now) == {Reset(se, req.method, FALSE, now) : se \in Epochs(req)}

\* RequestProcessor.ACCESS of the processor of a service.
AccessOpen(service) == "open"
Access(service) == IF service = "dataselect" THEN "open" ELSE "any"

\* convert_sncl_dicts_to_query_params: the values of each key together.  The
\* epochs of a GET share their times, or it raises ValueError.
QueryParams(epochs) ==
    LET some == CHOOSE se \in epochs : TRUE
    IN  [nets |-> {se.stream.net : se \in epochs}, stas |-> {se.stream.sta : se \in epochs},
         chas |-> {se.stream.cha : se \in epochs}, start |-> some.start, end |-> some.end]

NoQuery == [nets |-> {}, stas |-> {}, chas |-> {}, start |-> None, end |-> None]

\* RoutingRequestHandler: service, level and box pass, nodata does not.
RoutingRequest(req, epochs) ==
    [method  |-> req.method,
     service |-> req.service,
     level   |-> req.level,
     box     |-> req.box,
     access  |-> Access(req.service),
     query   |-> IF req.method = "GET" THEN QueryParams(epochs) ELSE NoQuery,
     lines   |-> IF req.method = "POST" THEN epochs ELSE {}]

=============================================================================
