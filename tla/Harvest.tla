-------------------------------- MODULE Harvest --------------------------------
(***************************************************************************)
(* eida-stationlite-harvest: runs that copy the routing information of     *)
(* EIDA nodes into StationLite's database (stationlite/harvest/harvest.py, *)
(* stationlite/engine/db.py and orm.py).  A run visits node after node,    *)
(* one transaction each, first for routes, then for virtual networks, and  *)
(* may then truncate what has not been seen for some time.  The inventory  *)
(* and the routing configuration of a node change from run to run.  Time   *)
(* of lastseen is counted in runs.                                         *)
(***************************************************************************)
EXTENDS Integers, Sequences, FiniteSets, FiniteSetsExt, SequencesExt

CONSTANTS
    Nodes,          \* the sequence of nodes, see Node
    Open,           \* later than every time, stands for a missing end
    Streams,        \* network, station, location and channel code in one
    Stricts,        \* --strict-restricted: subset of BOOLEAN
    Truncations,    \* --truncate: how many runs back, a set of naturals
    MaxRuns         \* bound on the number of runs

\* "none" stands for a missing restrictedStatus.
Statuses == {"none", "open", "closed", "partial"}

Starts == 0 .. Open - 1
Ends   == 0 .. Open

Channel  == [stream : Streams, start : Starts, end : Ends, rs : Statuses]
Station  == [code : STRING, rs : Statuses, channels : Seq(Channel)]

\* A StationXML document of a route's station service.
Document == [code : STRING, rs : Statuses, stations : Seq(Station)]

\* A <service/> element of priority 1, and a <stream/> element of a virtual
\* network with the streams it matches.
Service  == [service : STRING, url : STRING, token : STRING,
             start : Starts, end : Ends]
VNet     == [vnet : STRING, streams : SUBSET Streams, start : Starts, end : Ends]

\* The documents and sequences of services a route may have in a run.
Route    == [docs : SUBSET Document, services : SUBSET Seq(Service)]
Node     == [routes : Seq(Route), vnets : Seq(VNet)]

ASSUME ConstantsAssumption ==
    /\ MaxRuns \in Nat \ {0}
    /\ Open \in Nat
    /\ Stricts \subseteq BOOLEAN
    /\ Truncations \subseteq Nat
    /\ Nodes \in Seq(Node) \ {<<>>}

VARIABLES
    db,         \* the committed database
    work,       \* what the open transaction sees
    phase,      \* "idle", "routes", "vnets" or "truncate"
    todo,       \* phases of this run still to come
    node, route,\* where the run is
    strict,     \* this run corrects no method tokens
    run,        \* number of the run, its time
    cut,        \* the latest time up to which a truncation has removed rows
    committed   \* nodes whose routes this run has committed

vars == <<db, work, phase, todo, node, route, strict, run, cut, committed>>

\* The tables, and two ghosts: streams an IntegrityError has been logged for,
\* and the last document that has told about a stream.
Empty == [chans |-> {}, routs |-> {}, bases |-> {}, endpoints |-> {},
          vnets |-> {}, vepochs |-> {}, warned |-> {},
          latest |-> [s \in Streams |-> [run |-> 0, epochs |-> {}]]]

Init ==
    /\ db = Empty /\ work = Empty
    /\ phase = "idle" /\ todo = <<>>
    /\ node = 1 /\ route = 1
    /\ strict = FALSE
    /\ run = 0 /\ cut = 0
    /\ committed = {}

-----------------------------------------------------------------------------
(* Merging an element into a table. *)

\* The integer primary key of SQLite: ids of deleted rows at the end of the
\* table are given out again.
NewId(rows) == Max({0} \cup {x.id : x \in rows}) + 1

\* Mutant: epochs that begin inside the new one are overlooked.
OverlapsLeft(x, start, end) == x.start < start /\ start < x.end

\* The filter of _emerge_channelepoch, _emerge_routing, _emerge_streamepoch:
\* overlapping, but not if both begin at the same time.
Overlaps(x, start, end) ==
    \/ x.start < start /\ start < x.end
    \/ x.start > start /\ end > x.start

\* The emerge pattern: of the rows that differ from new ones in their epoch
\* only, the overlapping are deleted, the identical are seen.
Emerge(rows, rivals, epoch, new) ==
    (rows \ {x \in rivals : \/ Overlaps(x, epoch.start, epoch.end)
                            \/ <<x.start, x.end>> = <<epoch.start, epoch.end>>})
        \cup new

\* _emerge_network and _emerge_station: epochs are identified by all they say,
\* those of stations except for the status, which is updated.
EmergeBase(bases, level, code, raw, rs, now) ==
    LET known == {b \in bases : b.level = level /\ b.code = code}
        same  == IF level = "station" THEN known ELSE {b \in known : b.rs = rs}
        first == level = "station" /\ known = {}
    IN  (bases \ same) \cup
           {[level |-> level, code |-> code, rs |-> IF first THEN raw ELSE rs,
             seen |-> now]}

Gone(objs, ids) ==
    [i \in DOMAIN objs |-> [objs[i] EXCEPT !.gone = @ \/ objs[i].id \in ids]]

\* Mutant: the routings of a deleted epoch are not deleted.
AllRoutings(routs, ids) == routs

WithoutRoutings(routs, ids) == {r \in routs : r.ch \notin ids}

\* _emerge_channelepoch.  Overlapping epochs and those of another restricted
\* status than the document's (any status, if it has none) are deleted with
\* their routings.  w.objs are the ORM objects this document has yielded; an
\* object whose row is deleted is marked.
EmergeChannel(w, c, now) ==
    LET old  == {x \in w.chans : x.stream = c.stream
                    /\ (Overlaps(x, c.start, c.end) \/ x.rs # c.raw)}
        ids  == {x.id : x \in old}
        kept == w.chans \ old
        same == {x \in kept : /\ x.stream = c.stream /\ x.rs = c.raw
                              /\ x.start = c.start /\ x.end = c.end}
        new  == [id     |-> IF same = {} THEN NewId(kept)
                            ELSE (CHOOSE x \in same : TRUE).id,
                 stream |-> c.stream, start |-> c.start, end |-> c.end,
                 rs     |-> c.rs, seen |-> now]
    IN  [w EXCEPT !.chans = (kept \ same) \cup {new},
                  !.routs = WithoutRoutings(@, ids),
                  !.objs = Append(Gone(@, ids), [id |-> new.id,
                              stream |-> c.stream, rs |-> c.rs, gone |-> FALSE])]

\* _harvest_from_stationxml.  base_node is overwritten station by station: one
\* without a status inherits that of the station before it.
BaseStatus(doc) ==
    LET base[i \in 0 .. Len(doc.stations)] ==
            IF i = 0 THEN (IF doc.rs = "none" THEN "open" ELSE doc.rs)
            ELSE IF doc.stations[i].rs = "none" THEN base[i - 1]
            ELSE doc.stations[i].rs
    IN  base

Channels(doc) ==
    LET of(i) == [j \in DOMAIN doc.stations[i].channels |->
                    LET c == doc.stations[i].channels[j] IN
                    [stream |-> c.stream, start |-> c.start, end |-> c.end,
                     raw |-> c.rs,
                     rs  |-> IF c.rs = "none" THEN BaseStatus(doc)[i] ELSE c.rs]]
    IN  FlattenSeq([i \in DOMAIN doc.stations |-> of(i)])

Bases(w, doc, now) ==
    LET base == BaseStatus(doc)
        net  == EmergeBase(w.bases, "network", doc.code, doc.rs, base[0], now)
    IN  FoldLeft(LAMBDA b, i : EmergeBase(b, "station", doc.stations[i].code,
                                          doc.stations[i].rs, base[i], now),
                 net, [i \in DOMAIN doc.stations |-> i])

-----------------------------------------------------------------------------
(* Routings. *)

\* validate_cha_epoch
Invalid(obj, svc) ==
    \/ obj.gone
    \/ /\ svc.service = "dataselect"
       /\ \/ obj.rs = "partial"
          \/ strict /\ <<obj.rs, svc.token>> \in
                 {<<"open", "queryauth">>, <<"closed", "query">>}

\* The row with the object's id is deleted, whatever it is by now; its
\* routings are not.
Discard(w, obj, now) ==
    [w EXCEPT !.chans = {x \in @ : x.id # obj.id},
              !.objs = Gone(@, {obj.id}),
              !.warned = @ \cup {<<now, obj.stream>>}]

\* force_restricted: the method token follows the status of the epoch.
Token(obj, svc) ==
    IF svc.service # "dataselect" \/ strict THEN svc.token
    ELSE IF obj.rs = "closed" THEN "queryauth" ELSE "query"

\* _emerge_endpoint, _emerge_routing
EmergeRouting(w, obj, svc, now) ==
    LET ep == [service |-> svc.service, url |-> svc.url,
               token |-> Token(obj, svc)]
    IN  [w EXCEPT
           !.endpoints = @ \cup {ep},
           !.routs = Emerge(@, {r \in @ : r.ch = obj.id /\ r.ep = ep}, svc,
                        {[ch |-> obj.id, ep |-> ep, start |-> svc.start,
                          end |-> svc.end, seen |-> now, stream |-> obj.stream]})]

\* One object, then all of the document, for a <service/> element.
RouteOne(w, i, svc, now) ==
    IF Invalid(w.objs[i], svc) THEN Discard(w, w.objs[i], now)
                               ELSE EmergeRouting(w, w.objs[i], svc, now)

RouteAll(w, svc, now) ==
    FoldLeft(LAMBDA v, i : RouteOne(v, i, svc, now),
             [w EXCEPT !.endpoints = @ \cup {[service |-> svc.service,
                                      url |-> svc.url, token |-> svc.token]}],
             [i \in DOMAIN w.objs |-> i])

\* The channel epochs of a document.
Read(t, chans, now) ==
    FoldLeft(LAMBDA w, c : EmergeChannel(w, c, now),
             [chans |-> t.chans, routs |-> t.routs, objs |-> <<>>,
              endpoints |-> t.endpoints, warned |-> t.warned],
             chans)

Routed(w, services, now) ==
    FoldLeft(LAMBDA v, svc : RouteAll(v, svc, now), w, services)

Told(chans, s) ==
    {[start |-> c.start, end |-> c.end, rs |-> c.rs] :
        c \in {d \in ToSet(chans) : d.stream = s}}

\* RoutingHarvester.harvest for one <route/> element: its StationXML, then its
\* services.
Harvested(t, doc, services, now) ==
    LET chans == Channels(doc)
        done  == Routed(Read(t, chans, now), services, now)
    IN  [t EXCEPT !.chans = done.chans, !.routs = done.routs,
                  !.endpoints = done.endpoints, !.warned = done.warned,
                  !.bases = Bases(t, doc, now),
                  !.latest = [s \in Streams |->
                      IF Told(chans, s) # {}
                      THEN [run |-> now, epochs |-> Told(chans, s)] ELSE @[s]]]

\* VNetHarvester.harvest for a <stream/> element: a virtual stream epoch for
\* every stream with a matching channel epoch; the group is made even if there
\* is none.
EmergeVNet(t, v, now) ==
    LET matched == {c.stream : c \in {d \in t.chans : /\ d.stream \in v.streams
                                            /\ d.end > v.start /\ d.start < v.end}}
    IN  [t EXCEPT !.vnets = @ \cup {v.vnet},
                  !.vepochs = Emerge(@,
                      {x \in @ : x.vnet = v.vnet /\ x.stream \in matched}, v,
                      {[vnet |-> v.vnet, stream |-> s, start |-> v.start,
                        end |-> v.end, seen |-> now] : s \in matched})]

VNetHarvested(t, vnets, now) == FoldLeft(LAMBDA u, v : EmergeVNet(u, v, now), t, vnets)

\* Mutant: what was seen at the very time is removed, too.
FreshStrict(rows, time) == {x \in rows : x.seen > time}

Fresh(rows, time) == {x \in rows : x.seen >= time}

\* db.clean
Clean(t, time) ==
    LET left == Fresh(t.vepochs, time) IN
    [t EXCEPT !.chans = Fresh(@, time), !.routs = Fresh(@, time),
              !.bases = Fresh(@, time), !.vepochs = left,
              !.vnets = {x.vnet : x \in left}]

-----------------------------------------------------------------------------
(* Runs: StationLiteHarvestApp. *)

Config == Nodes[node]

\* The next phase of the run, or its end.
Proceed ==
    /\ node' = 1 /\ route' = 1
    /\ IF todo = <<>> THEN phase' = "idle" /\ todo' = <<>>
                      ELSE phase' = Head(todo) /\ todo' = Tail(todo)

NextNode ==
    IF node = Len(Nodes)
      THEN Proceed
      ELSE node' = node + 1 /\ route' = 1 /\ UNCHANGED <<phase, todo>>

\* run(): the PID lock is free, and there is something to do.  --no-routes and
\* --no-vnetworks leave phases out.
BeginRun ==
    /\ phase = "idle"
    /\ run < MaxRuns
    /\ \E phases \in {<<"routes", "vnets">>, <<"routes">>, <<"vnets">>,
                      <<"routes", "vnets", "truncate">>, <<"routes", "truncate">>,
                      <<"truncate">>} :
           phase' = Head(phases) /\ todo' = Tail(phases)
    /\ strict' \in Stricts
    /\ run' = run + 1
    /\ committed' = {}
    /\ work' = db
    /\ node' = 1 /\ route' = 1
    /\ UNCHANGED <<db, cut>>

InRoutes == phase = "routes" /\ route <= Len(Config.routes)

HarvestRoute ==
    /\ InRoutes
    /\ \E doc \in Config.routes[route].docs :
          \E services \in Config.routes[route].services :
              work' = Harvested(work, doc, services, run)
    /\ route' = route + 1
    /\ UNCHANGED <<db, phase, todo, node, strict, run, cut, committed>>

\* NoContent, or a route of priority 2 services only.
SkipRoute ==
    /\ InRoutes
    /\ route' = route + 1
    /\ UNCHANGED <<db, work, phase, todo, node, strict, run, cut, committed>>

\* Mutant: session_guard commits in any case.
NodeFailsCommitting ==
    /\ InRoutes
    /\ db' = work
    /\ NextNode
    /\ UNCHANGED <<work, strict, run, cut, committed>>

\* RequestsError or HarvesterError: rolled back, the next node follows.
NodeFails ==
    /\ InRoutes
    /\ work' = db
    /\ NextNode
    /\ UNCHANGED <<db, strict, run, cut, committed>>

\* session_guard: commit.
CommitNode ==
    /\ phase = "routes"
    /\ route > Len(Config.routes)
    /\ db' = work
    /\ committed' = committed \cup {node}
    /\ NextNode
    /\ UNCHANGED <<work, strict, run, cut>>

HarvestVNets ==
    /\ phase = "vnets"
    /\ db' = VNetHarvested(db, Config.vnets, run)
    /\ work' = db'
    /\ NextNode
    /\ UNCHANGED <<strict, run, cut, committed>>

VNetsFail ==
    /\ phase = "vnets"
    /\ NextNode
    /\ UNCHANGED <<db, work, strict, run, cut, committed>>

Truncate ==
    /\ phase = "truncate"
    /\ \E back \in Truncations :
          /\ db' = Clean(db, run - back)
          /\ cut' = Max({cut, run - back})
    /\ work' = db'
    /\ Proceed
    /\ UNCHANGED <<strict, run, committed>>

\* Any other exception (a route without a station service: KeyError), or the
\* process is killed: nothing else of this run is done.
Abort ==
    /\ phase # "idle"
    /\ phase' = "idle" /\ todo' = <<>>
    /\ work' = db
    /\ node' = 1 /\ route' = 1
    /\ UNCHANGED <<db, strict, run, cut, committed>>

Next ==
    \/ BeginRun \/ HarvestRoute \/ SkipRoute \/ NodeFails \/ CommitNode
    \/ HarvestVNets \/ VNetsFail \/ Truncate \/ Abort

Spec == Init /\ [][Next]_vars

-----------------------------------------------------------------------------
(* Properties. *)

Overlap(x, y) == x.start < y.end /\ y.start < x.end

\* Pairs of rows of one table that are about the same thing.
Pairs(rows) == {p \in rows \X rows : p[1] # p[2]}

Rivals(t) ==
    {p \in Pairs(t.chans) : p[1].stream = p[2].stream}
    \cup {p \in Pairs(t.routs) : p[1].ch = p[2].ch /\ p[1].ep = p[2].ep}
    \cup {p \in Pairs(t.vepochs) :
              p[1].vnet = p[2].vnet /\ p[1].stream = p[2].stream}

\* However inventories change, epochs of one stream (routings of one epoch to
\* one endpoint, virtual epochs of one stream) never overlap unless they begin
\* together, and none is stored twice: the "identical" queries of the emerge
\* methods never find several rows.
OverlapsShareStart ==
    \A p \in Rivals(db) : Overlap(p[1], p[2]) =>
        p[1].start = p[2].start /\ p[1].end # p[2].end

\* "Overlapping orm.ChannelEpochs regarding time constraints are updated": no
\* two epochs of a stream overlap.
NoOverlaps == \A p \in Rivals(db) : ~Overlap(p[1], p[2])

\* A routing leads to the channel epoch it was harvested for, although ids are
\* given out again; streams with an inventory error, whose epochs are deleted
\* without their routings, are the exception.
RoutedAsHarvested ==
    \A r \in db.routs :
        \/ \E x \in db.chans : x.id = r.ch /\ x.stream = r.stream
        \/ \E n \in 1 .. run : <<n, r.stream>> \in db.warned

\* What a node has told last about a stream is in the database, whatever other
\* runs, nodes and truncations do, unless it is older than a truncation or an
\* inventory error has been logged.
ToldIsStored ==
    \A s \in Streams :
        LET told == db.latest[s] IN
        told.run > 0 /\ told.run >= cut /\ <<told.run, s>> \notin db.warned =>
            \A e \in told.epochs : \E x \in db.chans :
                x.stream = s /\ [start |-> x.start, end |-> x.end, rs |-> x.rs] = e

StreamsOf(n) ==
    UNION {UNION {{c.stream : c \in ToSet(Channels(doc))} : doc \in r.docs} :
               r \in ToSet(Nodes[n].routes)}

\* A node is harvested as a whole or not at all, even if the run is killed:
\* rows seen in this run are of nodes this run has committed.
NodesAreAtomic ==
    \A x \in db.chans : x.seen = run =>
        \E n \in committed : x.stream \in StreamsOf(n)

=============================================================================
