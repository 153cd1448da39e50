----------------------------- MODULE RouteTable -----------------------------
(***************************************************************************)
(* The route table of router.c as data, and what is computed from it: the  *)
(* table router_optimise makes of it, the destinations router_route finds  *)
(* for a metric, and what router_test prints for one.                      *)
(*                                                                         *)
(* A route is [matchtype, pattern, strmatch, nmatch, dests, stop, masq].   *)
(* A destination has the type and the name of its cluster, and for the     *)
(* clusters without a name what they hold: GROUP and the stubs routes,     *)
(* REWRITE a replacement, VALIDATION a rule, AGGREGATION the number of     *)
(* the aggregator.  cls gives for every cluster with a name its type, its  *)
(* replication factor and its servers, in the order of the configuration.  *)
(***************************************************************************)
EXTENDS Pattern

CONSTANT RetSize     \* CONN_DESTS_SIZE: the destinations one metric can have

ASSUME RouteTableAssumption == RetSize \in Nat \ {0}

HashTypes == {"CARBON_CH", "FNV1A_CH", "JUMP_CH"}
ListTypes == {"FORWARD", "FILELOG", "FILELOGIP"}
StubTypes == {"AGGRSTUB", "STATSTUB"}
NoMasq == <<>>

\* fnv1a_32: some function of the name; ch_get_nodes has a model of its own,
\* here the ring starts at the server the hash of the key selects.
fnv1a(key) == Len(key) + (IF key # <<>> /\ key[1] \in Lower THEN 1 ELSE 0)
ch_get_nodes(servers, replcnt, key) ==
    [i \in 1 .. replcnt |-> servers[((fnv1a(key) + i) % Len(servers)) + 1]]

----------------------------------------------------------------------------
(* router_optimise                                                         *)

Block(tail, seqnr, r) == [tail |-> tail, seqnr |-> seqnr, routes |-> <<r>>]

\* A route that cannot be in a group gets a block of its own, and what follows
\* is not moved across it.
SkipRoute(o, r) ==
    [blocks |-> Append(o.blocks, Block(<<>>, o.seq, r)),
     bstart |-> Len(o.blocks) + 1, seq |-> o.seq + 1, rlast |-> <<>>]

\* Mutant: a route with stop does not end the groups in front of it.
NewGroupOpen(o, r, tail) ==
    [o EXCEPT !.blocks = Append(@, Block(tail, o.seq, r))]

NewGroup(o, r, tail) ==
    LET new == [o EXCEPT !.blocks = Append(@, Block(tail, o.seq, r))]
    IN  IF r.stop THEN [new EXCEPT !.bstart = 0, !.rlast = <<>>, !.seq = @ + 1] ELSE new

\* A route with stop takes its group to the end and closes it.
JoinGroup(o, r, i) ==
    LET grown == [o.blocks[i] EXCEPT !.routes = Append(@, r)]
        atend == Append(RemoveAt(o.blocks, i), grown)
        inplace == [o.blocks EXCEPT ![i] = grown]
    IN  IF o.rlast # <<>> /\ o.rlast # Reverse(grown.tail)
        THEN [blocks |-> inplace, bstart |-> Len(inplace), seq |-> o.seq + 1, rlast |-> <<>>]
        ELSE IF r.stop
        THEN [blocks |-> atend, bstart |-> 0, seq |-> o.seq + 1, rlast |-> r.pattern]
        ELSE [o EXCEPT !.blocks = inplace]

PlaceRoute(o, r) ==
    LET tail == TailBlock(r.pattern)
        same == {i \in DOMAIN o.blocks :
                    o.bstart # 0 /\ i >= o.bstart /\ o.blocks[i].tail = tail}
    IN  IF r.matchtype = "MATCHALL" \/ r.dests[1].type = "REWRITE" \/ tail = <<>>
        THEN SkipRoute(o, r)
        ELSE IF same = {} THEN NewGroup(o, r, tail)
        ELSE JoinGroup(o, r, CHOOSE i \in same : \A j \in same : i <= j)

GroupRoute(b) ==
    [matchtype |-> "CONTAINS", pattern |-> <<>>, strmatch |-> <<>>, nmatch |-> 0,
     dests |-> <<[type |-> "GROUP", name |-> b.tail, routes |-> b.routes]>>,
     stop |-> FALSE, masq |-> NoMasq]

\* Three routes are worth a group; the others go back in the table.
ReduceBlock(g, b) ==
    IF g.lost \/ b.seqnr < g.seq THEN [g EXCEPT !.lost = TRUE]
    ELSE [g EXCEPT !.seq = b.seqnr,
                   !.routes = @ \o (IF Len(b.routes) < 3 THEN b.routes ELSE <<GroupRoute(b)>>)]

router_optimise(routes, threshold) ==
    LET dummy == [tail |-> <<>>, seqnr |-> 0, routes |-> <<>>]
        o == FoldLeft(PlaceRoute,
                      [blocks |-> <<dummy>>, bstart |-> 1, seq |-> 1, rlast |-> <<>>], routes)
    IN  IF threshold < 0 \/ Len(routes) < threshold THEN routes
        ELSE FoldLeft(ReduceBlock, [routes |-> <<>>, seq |-> 1, lost |-> FALSE],
                      Tail(o.blocks)).routes

----------------------------------------------------------------------------
(* router_route_intern.  s is the state of the loop: ret with curlen, the  *)
(* flag blackholed, stop, wassent, the metric's name, pmatch, what went to *)
(* aggregators, whether the rest of the destinations is skipped, and       *)
(* whether ret was full, upon which the code returns at once (cut keeps    *)
(* that for the caller).                                                   *)

Entry(s, name, srv) == [cl |-> name, srv |-> srv, as |-> s.name]

\* FORWARD and the files take servers one by one, until ret is full.
SendEach(s, name, servers) ==
    LET room == RetSize - Len(s.ret)
        taken == SubSeq(servers, 1, IF Len(servers) < room THEN Len(servers) ELSE room)
    IN  [s EXCEPT !.ret = @ \o [i \in DOMAIN taken |-> Entry(s, name, taken[i])],
                  !.full = Len(servers) > room, !.cut = @ \/ Len(servers) > room,
                  !.stop = @ \/ Len(servers) > room, !.wassent = TRUE]

Full(s) == [s EXCEPT !.full = TRUE, !.cut = TRUE, !.stop = TRUE]

\* The other types first make sure that all of their servers fit.
SendAll(s, name, servers) ==
    IF Len(s.ret) + Len(servers) > RetSize THEN Full(s)
    ELSE SendEach(s, name, servers)

HashKey(s, w) ==
    IF w.masq = NoMasq THEN s.name ELSE router_rewrite_metric(s.name, w.masq, w.nmatch, s.pm, DataLen)

SendKeyed(c, s, name, key) ==
    IF key = NoFit THEN s ELSE SendAll(s, name, ch_get_nodes(c.servers, c.repl, key))

SendHashed(cls, s, w, name) ==
    IF Len(s.ret) + cls[name].repl > RetSize THEN Full(s)
    ELSE SendKeyed(cls[name], s, name, HashKey(s, w))

\* Mutant: a metric that validation drops is taken for sent.
ValidateSent(s, w, d, data) ==
    IF metric_matches(d.rule, data) THEN s
    ELSE [s EXCEPT !.wassent = TRUE, !.stop = @ \/ Len(w.dests) = 1, !.skip = TRUE]

\* Data that fails validation ends the destinations, and the rules as well when
\* there are no destinations.
Validate(s, w, d, data) ==
    IF metric_matches(d.rule, data) THEN [s EXCEPT !.pm = pmatch(d.rule, data, @)]
    ELSE [s EXCEPT !.wassent = @ \/ ~d.drop, !.stop = @ \/ Len(w.dests) = 1, !.skip = TRUE]

Renamed(s, new) == IF new = NoFit THEN s ELSE [s EXCEPT !.name = new]
Rewrite(s, w, d) == Renamed(s, router_rewrite_metric(s.name, d.name, w.nmatch, s.pm, DataLen))

RECURSIVE RouteIntern(_, _, _, _, _)

\* The metric behind the stub in front of it.
Stripped(name, w) == SubSeq(name, Len(w.pattern) + 1, Len(name))

\* What the routes of a group or a stub did to the caller's ret and flags.
Nested(s, inner) ==
    [s EXCEPT !.ret = inner.ret, !.bh = inner.bh, !.aggr = inner.aggr, !.cut = inner.cut]

\* #405: what the stub's routes sent counts as sent
RouteStub(s, inner) == [Nested(s, inner) EXCEPT !.wassent = @ \/ ~inner.bh]

RouteDest(cls, data, w, s, d) ==
    LET c == cls[d.name]
    IN  CASE s.skip \/ s.full        -> s
          [] d.type = "BLACKHOLE"    -> [s EXCEPT !.bh = TRUE]
          [] d.type \in ListTypes    -> SendEach(s, d.name, c.servers)
          [] d.type = "ANYOF"        ->
               SendAll(s, d.name, <<c.servers[(fnv1a(s.name) % Len(c.servers)) + 1]>>)
          [] d.type \in {"FAILOVER", "LB"} -> SendAll(s, d.name, <<c.servers[1]>>)
          [] d.type \in HashTypes    -> SendHashed(cls, s, w, d.name)
          [] d.type = "AGGREGATION"  ->
               [s EXCEPT !.aggr = Append(@, <<d.name, s.name>>), !.wassent = TRUE, !.skip = TRUE]
          [] d.type = "REWRITE"      -> Rewrite(s, w, d)
          [] d.type \in StubTypes    ->
               RouteStub(s, RouteIntern(cls, d.routes, Stripped(s.name, w), data, s))
          [] d.type = "VALIDATION"   -> Validate(s, w, d, data)

RouteGroup(s, inner) == [Nested(s, inner) EXCEPT !.stop = inner.stop]

RouteRule(cls, data, s, w) ==
    LET d == w.dests[1]
    IN  IF s.stop THEN s
        ELSE IF d.type = "GROUP"
        THEN IF Occurs(d.name, s.name)
             THEN RouteGroup(s, RouteIntern(cls, d.routes, s.name, data, s)) ELSE s
        ELSE IF metric_matches(w, s.name)
        THEN FoldLeft(LAMBDA t, e : RouteDest(cls, data, w, t, e),
                      [s EXCEPT !.stop = w.stop, !.pm = pmatch(w, s.name, @), !.skip = FALSE],
                      w.dests)
        ELSE s

Routed(s) == [s EXCEPT !.bh = IF s.full THEN @ ELSE @ \/ ~s.wassent]

RouteIntern(cls, routes, name, data, outer) ==
    Routed(FoldLeft(LAMBDA t, w : RouteRule(cls, data, t, w),
                      [ret |-> outer.ret, bh |-> outer.bh, aggr |-> outer.aggr, cut |-> outer.cut,
                       name |-> name, stop |-> FALSE, wassent |-> FALSE, pm |-> Unset, skip |-> FALSE,
                       full |-> FALSE],
                      routes))

router_route(cls, routes, name, data) ==
    RouteIntern(cls, routes, name, data, [ret |-> <<>>, bh |-> FALSE, aggr |-> <<>>, cut |-> FALSE])

----------------------------------------------------------------------------
(* router_test_intern, without -d.  s is what was printed, the bits of     *)
(* gotmatch (a match, a stop, an aggregation), stop, the metric's name and *)
(* pmatch; done ends the loop.                                             *)

Shown(s, d, servers) ==
    [s EXCEPT !.out = @ \o [i \in DOMAIN servers |->
                               [cl |-> d.name, srv |-> servers[i], as |-> s.name, aggr |-> s.ag]]]

\* The servers behind an aggregation depend on the metric it will send.
ShownKeyed(c, s, d, key) ==
    IF key = NoFit THEN s ELSE Shown(s, d, ch_get_nodes(c.servers, c.repl, key))

ShownHashed(cls, s, w, d) ==
    IF s.ag THEN Shown(s, d, <<"-">>) ELSE ShownKeyed(cls[d.name], s, d, HashKey(s, w))

\* Mutant: data that fails validation does not end the destinations.
TestValidateGoesOn(s, w, d, data) == s

TestValidate(s, w, d, data) ==
    IF metric_matches(d.rule, data) THEN [s EXCEPT !.pm = pmatch(d.rule, data, @)]
    ELSE [s EXCEPT !.stop = @ \/ Len(w.dests) = 1, !.skip = TRUE]

TestDest(cls, data, w, s, d) ==
    LET c == cls[d.name]
        anyof == IF d.type = "ANYOF" THEN c.servers[(fnv1a(s.name) % Len(c.servers)) + 1]
                 ELSE c.servers[1]
    IN  CASE s.skip                 -> s
          [] d.type = "BLACKHOLE"   -> s
          [] d.type \in ListTypes   -> Shown(s, d, c.servers)
          [] d.type \in {"ANYOF", "FAILOVER"} -> Shown(s, d, <<IF s.ag THEN "-" ELSE anyof>>)
          [] d.type = "LB"          -> Shown(s, d, <<"-">>)
          [] d.type \in HashTypes   -> ShownHashed(cls, s, w, d)
          [] d.type = "AGGREGATION" -> [s EXCEPT !.ag = TRUE]
          [] d.type = "REWRITE"     -> Rewrite(s, w, d)
          [] d.type = "VALIDATION"  -> TestValidate(s, w, d, data)

RECURSIVE TestIntern(_, _, _, _, _)

TestGroup(s, inner) ==
    [s EXCEPT !.out = inner.out, !.got = @ \/ inner.got, !.st = @ \/ inner.st,
              !.ag = @ \/ inner.ag, !.done = s.st \/ inner.st]

TestStub(s, inner) ==
    [s EXCEPT !.out = inner.out, !.st = inner.st, !.ag = inner.ag, !.done = TRUE]

TestStop(s) == IF s.stop THEN [s EXCEPT !.st = TRUE, !.ag = FALSE, !.done = TRUE] ELSE s

TestHit(s, w) ==
    [s EXCEPT !.got = TRUE, !.st = FALSE, !.ag = FALSE, !.stop = w.stop, !.skip = FALSE,
              !.pm = pmatch(w, s.name, @)]

TestRule(cls, data, s, w) ==
    LET d == w.dests[1]
    IN  IF s.done THEN s
        ELSE IF d.type = "GROUP"
        THEN TestGroup(s, TestIntern(cls, d.routes, s.name, data, s.out))
        ELSE IF ~metric_matches(w, s.name) THEN s
        ELSE IF d.type \in StubTypes
        THEN TestStub(TestHit(s, w), TestIntern(cls, d.routes, Stripped(s.name, w), data, s.out))
        ELSE TestStop(FoldLeft(LAMBDA u, e : TestDest(cls, data, w, u, e), TestHit(s, w), w.dests))

TestIntern(cls, routes, name, data, out) ==
    FoldLeft(LAMBDA t, w : TestRule(cls, data, t, w),
             [out |-> out, got |-> FALSE, st |-> FALSE, ag |-> FALSE, name |-> name,
              stop |-> FALSE, pm |-> Unset, skip |-> FALSE, done |-> FALSE],
             routes)

router_test(cls, routes, name, data) == TestIntern(cls, routes, name, data, <<>>)
=============================================================================
