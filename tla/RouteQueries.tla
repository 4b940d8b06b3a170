---------------------------- MODULE RouteQueries ----------------------------
(***************************************************************************)
(* The route patterns of an imported feed, read by the requests for a      *)
(* route's patterns, stops and shape, and derived a second time by         *)
(* migration 0004 for databases that were loaded before there were any.    *)
(***************************************************************************)
EXTENDS GtfsImport

-----------------------------------------------------------------------------
(* Migration 0004 *)

\* The key of a trip, from its row and its stop events.
Signature(t, trip) ==
  [route_id     |-> t.trips[trip].route_id,
   direction_id |-> t.trips[trip].direction_id,
   shape_id     |-> t.trips[trip].shape_id,
   stops        |-> InOrder(t.stop_times, EventsOf(t, trip), "stop_sequence", "stop_id")]

\* upgrade groups the trips that have stop events by their signatures.
MigratedPatterns(t) ==
  {Signature(t, trip) : trip \in {i \in DOMAIN t.trips : EventsOf(t, i) # {}}}

-----------------------------------------------------------------------------
(* RouteRepository and RouteService *)

TripsOf(t, pattern) == {i \in DOMAIN t.trips : t.trips[i].route_pattern_id = pattern}

\* The patterns of a route that have a trip; direction Null asks for either.
PatternIds(t, route, direction) ==
  {p \in DOMAIN t.route_patterns :
     /\ t.route_patterns[p].route_id = route
     /\ direction = Null \/ t.route_patterns[p].direction_id = direction
     /\ TripsOf(t, p) # {}}

\* More trips first, then more stops, then the lower id.
ComesFirst(t, p, q) ==
  LET trips(r) == Cardinality(TripsOf(t, r))
      stops(r) == Len(t.route_patterns[r].stops)
  IN  \/ trips(p) > trips(q)
      \/ trips(p) = trips(q) /\ stops(p) > stops(q)
      \/ trips(p) = trips(q) /\ stops(p) = stops(q) /\ p < q

\* Faulty: the direction is not asked for.
FaultyDefaultPatternId(t, route, direction) ==
  LET ids == PatternIds(t, route, Null)
  IN  IF ids = {} THEN Null ELSE CHOOSE p \in ids : \A q \in ids \ {p} : ComesFirst(t, p, q)

DefaultPatternId(t, route, direction) ==
  LET ids == PatternIds(t, route, direction)
  IN  IF ids = {} THEN Null ELSE CHOOSE p \in ids : \A q \in ids \ {p} : ComesFirst(t, p, q)

\* The list of patterns is ordered by direction first; one without comes last.
Patterns(t, route, direction) ==
  LET ids     == PatternIds(t, route, direction)
      rank(p) == IF t.route_patterns[p].direction_id = Null THEN 2
                 ELSE t.route_patterns[p].direction_id
  IN  Sorted(ids, {p \in ids \X ids :
                     \/ rank(p[1]) < rank(p[2])
                     \/ rank(p[1]) = rank(p[2]) /\ ComesFirst(t, p[1], p[2])})

\* The pattern a request is about; NotFound and InvalidRequest are Junk.
ResolvePatternId(t, route, direction, pattern) ==
  IF pattern = Null THEN DefaultPatternId(t, route, direction)
  ELSE IF /\ pattern \in DOMAIN t.route_patterns
          /\ t.route_patterns[pattern].route_id = route
          /\ direction = Null \/ t.route_patterns[pattern].direction_id = direction
       THEN pattern
       ELSE Junk

OrderedStops(t, route, direction, pattern) ==
  LET resolved == ResolvePatternId(t, route, direction, pattern)
  IN  IF resolved = Junk THEN Junk
      ELSE IF resolved = Null THEN <<>> ELSE t.route_patterns[resolved].stops

\* Without a pattern, a request that names no direction is about direction 0.
ShapeGeometry(t, route, direction, pattern) ==
  LET effective == IF pattern = Null /\ direction = Null THEN 0 ELSE direction
      resolved  == ResolvePatternId(t, route, effective, pattern)
      shape     == IF resolved \in {Null, Junk} THEN Null
                   ELSE t.route_patterns[resolved].shape_id
  IN  IF shape = Null THEN Junk ELSE t.shapes[shape].geom

-----------------------------------------------------------------------------
(* Properties *)

\* The importer and migration 0004 derive patterns from different sources, the
\* files' rows and the loaded tables, but the same ones, and give every trip its
\* own (docs/database.md 104, "unique by route, direction, shape and ordered stop
\* IDs").
PatternsMatch ==
  /\ ToSet(committed.route_patterns) = MigratedPatterns(committed)
  /\ \A trip \in DOMAIN committed.trips :
       committed.route_patterns[committed.trips[trip].route_pattern_id]
         = Signature(committed, trip)

\* Asked about a direction of a route, the three requests speak of one pattern:
\* the first of the list; the stops and the line shown are those of a trip
\* (docs/database.md 106-108, "choose the most-used matching pattern by default").
RouteViewsAgree ==
  LET t == committed
  IN  \A route \in DOMAIN t.routes, direction \in {0, 1} :
        LET ids   == Patterns(t, route, direction)
            stops == OrderedStops(t, route, direction, Null)
            shape == ShapeGeometry(t, route, direction, Null)
        IN  IF ids = <<>> THEN stops = <<>> /\ shape = Junk
            ELSE /\ stops = OrderedStops(t, route, Null, ids[1])
                 /\ shape = ShapeGeometry(t, route, Null, ids[1])
                 /\ \E trip \in DOMAIN t.trips :
                      /\ t.trips[trip].route_id = route
                      /\ t.trips[trip].direction_id = direction
                      /\ stops = Signature(t, trip).stops
                      /\ shape = IF t.trips[trip].shape_id = Null THEN Junk
                                 ELSE t.shapes[t.trips[trip].shape_id].geom
=============================================================================
