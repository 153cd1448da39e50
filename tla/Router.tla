------------------------------- MODULE Router -------------------------------
(***************************************************************************)
(* The router: how a configuration file becomes clusters, servers, routes, *)
(* aggregators and listeners (router_readconfig, the semantic actions of   *)
(* the grammar, the router_add_* functions), and what the relay then does  *)
(* with them: optimise the routes, route metrics, or print what it would   *)
(* do with one (-t).                                                       *)
(*                                                                         *)
(* A configuration is read statement by statement.  A statement is a       *)
(* record with the fields the grammar collects for it; the text of the     *)
(* file, scanning and the report of an error are left out.  Statements     *)
(* come from Inputs: first the ones an input lists, then up to `more`      *)
(* rules of its family.  A statement that is refused ends the reading.     *)
(***************************************************************************)
EXTENDS RouteTable

CONSTANTS
    Inputs,      \* set of [fam, stmts |-> Seq(statement), more |-> Nat]
    Rules,       \* for a family of inputs the statements that may follow
    Names,       \* for a family of inputs the metric names that arrive
    Datas,       \* for a family of inputs the values that arrive with them
    Files,       \* what an include path names: a sequence of files
    Resolve,     \* what getaddrinfo() says of a host: its addresses
    Inet6,       \* the addresses that are IPv6
    Writable,    \* the paths that can be opened for writing
    Features,    \* the transports that are compiled in
    MaxPort,     \* UINT16_MAX
    ListenPort,  \* -p
    Hostname,    \* relay_hostname
    Threshold    \* -O

VARIABLES
    phase,       \* "reading", "read", "ready" or "failed"
    fam,         \* the family of the input
    input,       \* statements of the input not read yet
    more,        \* statements of Rules that may still follow
    rtr,         \* struct _router
    asread,      \* the routes before they were optimised
    out          \* the outcome of the last metric

vars == <<phase, fam, input, more, rtr, asread, out>>

StubOf == <<"A1", "A2", "A3", "A4", "A5">>   \* _aggregator_stub_%p__
StatStub == "S"                              \* _collector_stub_%p__
None == [kind |-> "none"]
Sharing == {"ANYOF", "FAILOVER", "LB"}

----------------------------------------------------------------------------
(* Hosts and paths                                                         *)

\* A host is looked up at once; one that does not resolve is kept all the same
\* and has no addresses.
router_validate_address(host, port) ==
    [ok |-> port \in 1 .. MaxPort, ip |-> host, port |-> port, saddrs |-> Resolve[host]]

\* A path must be one that can be written to, or a socket.
router_validate_path(path) == [ok |-> path \in Writable, ip |-> path, port |-> 0, saddrs |-> <<>>]

\* Compression and encryption need the library to be compiled in.
Transport(trnsp) == trnsp \subseteq Features

\* <host>[:port][=instance] [proto ...] [type ...] [transport ...]
ReadHost(h) ==
    LET v == router_validate_address(h.host, h.port)
    IN  [ok |-> v.ok /\ Transport(h.trnsp), ip |-> v.ip, port |-> v.port, saddrs |-> v.saddrs,
         inst |-> h.inst, proto |-> h.proto, type |-> h.type]

\* The members of a file cluster are paths.
ReadPath(h) ==
    LET v == router_validate_path(h.host)
    IN  [ok |-> v.ok, ip |-> v.ip, port |-> v.port, saddrs |-> v.saddrs,
         inst |-> "none", proto |-> "file", type |-> "line"]

----------------------------------------------------------------------------
(* Servers and clusters                                                    *)

\* Whether server s is the one at this address; without an address its name
\* decides.
server_cmp(s, saddr, ip, h, conns) ==
    /\ s.conns = conns /\ s.port = h.port /\ s.proto = h.proto
    /\ IF "none" \in {saddr, s.saddr} THEN s.ip = ip ELSE s.saddr = saddr

\* Mutant: a server that is defined already may join any cluster.
ShareableAny(refcnt, cl) == TRUE

\* A server that is defined already cannot become a member of a cluster that
\* shares out the queues of its members.
Shareable(refcnt, cl) == refcnt = 1 \/ cl.type \notin Sharing

\* The server joins the ring, the list or the members of its cluster.
JoinCluster(cl, i) == [cl EXCEPT !.servers = Append(@, i)]

\* One turn of router_add_server.  A server that is defined again must have the
\* type and the instance it has.
AddAddress(a, h, saddr, ip) ==
    LET same == {i \in DOMAIN a.srvrs : server_cmp(a.srvrs[i], saddr, ip, h, a.cl.conns)}
        i == IF same = {} THEN Len(a.srvrs) + 1 ELSE CHOOSE j \in same : \A k \in same : j <= k
        new == [ip |-> ip, saddr |-> saddr, port |-> h.port, proto |-> h.proto,
                conns |-> a.cl.conns, type |-> h.type, inst |-> h.inst,
                queue |-> a.cl.queue, ttl |-> a.cl.ttl, refcnt |-> 1]
        srvrs == IF same = {} THEN Append(a.srvrs, new) ELSE [a.srvrs EXCEPT ![i].refcnt = @ + 1]
    IN  [err |-> \/ a.err
                 \/ srvrs[i].type # h.type \/ srvrs[i].inst # h.inst
                 \/ ~Shareable(srvrs[i].refcnt, a.cl),
         srvrs |-> srvrs,
         cl |-> JoinCluster(a.cl, i)]

\* useall takes each address for a server, otherwise the first stands for it.
router_add_server(a, h, useall) ==
    IF useall THEN FoldLeft(LAMBDA b, saddr : AddAddress(b, h, saddr, saddr), a, h.saddrs)
    ELSE AddAddress(a, h, IF h.saddrs = <<>> THEN "none" ELSE Head(h.saddrs), h.ip)

router_add_cluster(r, cl) ==
    IF \/ cl.name \in DOMAIN r.clusters
       \/ cl.type \in HashTypes /\ Len(cl.servers) < cl.repl
    THEN [r |-> r, err |-> TRUE]
    ELSE [r |-> [r EXCEPT !.clusters = (cl.name :> cl) @@ @], err |-> FALSE]

cluster_ttl(minutes) == IF minutes <= 0 THEN 0 ELSE minutes * 60

cluster_new(name, type, ttl) ==
    [name |-> name, type |-> type, repl |-> 0, conns |-> 1, servers |-> <<>>, ttl |-> ttl,
     queue |-> IF type \in {"FAILOVER", "LB"} THEN name ELSE "own"]

cluster_set_threshold(start, end) == /\ start \in 0 .. 100 /\ end \in 0 .. 100
                                     /\ start <= end

\* The members of a cluster become servers, the cluster is added last.
AddMembers(r, st, cl, hosts) ==
    LET a == FoldLeft(LAMBDA b, h : router_add_server(b, h, st.useall),
                      [err |-> FALSE, srvrs |-> r.srvrs, cl |-> cl], hosts)
    IN  IF \/ \E i \in DOMAIN hosts : ~hosts[i].ok
           \/ ~cluster_set_threshold(st.start, st.end)
           \/ a.err
        THEN [r |-> r, err |-> TRUE]
        ELSE router_add_cluster([r EXCEPT !.srvrs = a.srvrs], a.cl)

\* cluster <name> <type> ... <hosts>
ReadCluster(r, st) ==
    LET new == cluster_new(st.name, st.type, cluster_ttl(st.ttl))
        cl == [new EXCEPT !.conns = st.conns, !.repl = st.repl]
    IN  IF st.type \in HashTypes /\ (st.repl \notin 1 .. 255 \/ Len(st.hosts) > RetSize)
        THEN [r |-> r, err |-> TRUE]
        ELSE AddMembers(r, st, cl, [i \in DOMAIN st.hosts |-> ReadHost(st.hosts[i])])

\* cluster <name> file [ip] ... <paths>
ReadFileCluster(r, st) ==
    LET cl == [cluster_new(st.name, st.type, cluster_ttl(st.ttl)) EXCEPT !.conns = st.conns]
    IN  AddMembers(r, st, cl, [i \in DOMAIN st.hosts |-> ReadPath(st.hosts[i])])

----------------------------------------------------------------------------
(* Routes                                                                  *)

\* router_validate_cluster finds only clusters with a name.
Known(r, dsts) == \A i \in DOMAIN dsts : dsts[i] \in DOMAIN r.clusters
Dests(r, dsts) == [i \in DOMAIN dsts |-> [type |-> r.clusters[dsts[i]].type, name |-> dsts[i]]]

Route(expr, dests, stop, masq) ==
    [matchtype |-> expr.matchtype, pattern |-> expr.pattern, strmatch |-> expr.strmatch,
     nmatch |-> expr.nmatch, dests |-> dests, stop |-> stop, masq |-> masq]

router_add_route(r, rte) == [r EXCEPT !.routes = Append(@, rte)]

AddRoutes(r, exprs, dests, stop, masq) ==
    FoldLeft(LAMBDA b, e : router_add_route(b, Route(router_validate_expression(e), dests, stop, masq)),
             r, exprs)

Valid(exprs) == \A i \in DOMAIN exprs : router_validate_expression(exprs[i]).ok

\* match <exprs> [validate ...] [route using ...] [send to ...] [stop]
ReadMatch(r, st) ==
    LET check == [i \in DOMAIN st.validate |->
                     [type |-> "VALIDATION", drop |-> st.drop,
                      rule |-> router_validate_expression(st.validate[i])]]
        stop == CASE st.dsts = <<>> -> FALSE
                  [] st.dsts # <<>> -> r.clusters[st.dsts[1]].type = "BLACKHOLE" \/ st.stop
    IN  IF ~(Valid(st.exprs) /\ Valid(st.validate) /\ Known(r, st.dsts))
        THEN [r |-> r, err |-> TRUE]
        ELSE [r |-> AddRoutes(r, st.exprs, check \o Dests(r, st.dsts), stop, st.masq),
              err |-> FALSE]

\* rewrite <expr> into <replacement>
ReadRewrite(r, st) ==
    IF ~Valid(<<st.expr>>) THEN [r |-> r, err |-> TRUE]
    ELSE [r |-> AddRoutes(r, <<st.expr>>, <<[type |-> "REWRITE", name |-> st.into]>>, FALSE, NoMasq),
          err |-> FALSE]

\* The route that catches what an aggregator or the collector sends comes first.
StubRoute(r, type, stub, dests) ==
    LET inner == Route(router_validate_expression(<<"*">>), dests, TRUE, NoMasq)
    IN  [matchtype |-> "STARTS_WITH", pattern |-> <<stub>>, strmatch |-> <<stub>>, nmatch |-> 0,
         dests |-> <<[type |-> type, name |-> <<>>, routes |-> <<inner>>]>>,
         stop |-> TRUE, masq |-> NoMasq]

\* Mutant: the route that catches the stub is added like any other.
StubRouteLast(r, type, stub, dests) ==
    [r EXCEPT !.routes = Append(@, StubRoute(r, type, stub, dests))]

router_add_stubroute(r, type, stub, dests) ==
    [r EXCEPT !.routes = <<StubRoute(r, type, stub, dests)>> \o @]

\* A percentile is between 1 and 99; the other computations have no argument.
Computes(computes) ==
    \A i \in DOMAIN computes : computes[i].ctype = "PCTL" => computes[i].pctl \in 1 .. 99

\* aggregate <exprs> every ... expire after ... compute ... [send to ...] [stop]
ReadAggregate(r, st) ==
    LET n == Len(r.aggregators) + 1
        stubbed == st.dsts # <<>>
        a == [r EXCEPT !.aggregators =
                 Append(@, [interval |-> st.intv, expire |-> st.expire, stub |-> stubbed,
                            dsts |-> st.dsts])]
        b == AddRoutes(a, st.exprs, <<[type |-> "AGGREGATION", name |-> n]>> \o Dests(r, st.dsts),
                       st.stop, NoMasq)
    IN  IF \/ ~Valid(st.exprs) \/ ~Known(r, st.dsts)
           \/ st.intv <= 0 \/ st.expire <= 0 \/ st.expire <= st.intv
           \/ ~Computes(st.computes)
        THEN [r |-> r, err |-> TRUE]
        ELSE [r |-> IF stubbed
                    THEN router_add_stubroute(b, "AGGRSTUB", StubOf[n], Dests(r, st.dsts)) ELSE b,
              err |-> FALSE]

----------------------------------------------------------------------------
(* Statistics and listeners                                                *)

router_set_statistics(r, dsts) ==
    IF r.collector.stub # "none" THEN [r |-> r, err |-> TRUE]
    ELSE [r |-> [router_add_stubroute(r, "STATSTUB", StatStub, Dests(r, dsts))
                    EXCEPT !.collector.stub = StatStub],
          err |-> FALSE]

\* The prefix may refer to the host name, whole and up to its first dot.
HostSpans ==
    LET dots == {i \in DOMAIN Hostname : Hostname[i] = "."}
        short == IF dots = {} THEN Len(Hostname)
                 ELSE (CHOOSE i \in dots : \A j \in dots : i <= j) - 1
    IN  [k \in 0 .. 2 |-> <<0, IF k = 2 THEN short ELSE Len(Hostname)>>]

router_set_collectorvals(r, st) ==
    LET prefix == router_rewrite_metric(Hostname, st.prefix, 3, HostSpans, 0)
    IN  IF st.prefix # <<>> /\ prefix = NoFit THEN [r |-> r, err |-> TRUE]
        ELSE [r |-> [r EXCEPT !.collector.interval = IF st.intv >= 0 THEN st.intv ELSE @,
                              !.collector.prefix = IF st.prefix # <<>> THEN prefix ELSE @,
                              !.collector.mode = st.mode],
              err |-> FALSE]

\* statistics ..., and send statistics to ...
ReadStatistics(r, st) ==
    LET a == IF st.only THEN [r |-> r, err |-> FALSE] ELSE router_set_collectorvals(r, st)
    IN  IF (st.intv # -1 /\ st.intv <= 0) \/ ~Known(r, st.dsts) \/ a.err THEN [r |-> r, err |-> TRUE]
        ELSE IF st.dsts = <<>> THEN a ELSE router_set_statistics(a.r, st.dsts)

\* Two addresses are one to listen on when they are equal or one stands for all
\* of its family.
Overlap(a, b) == (a \in Inet6) = (b \in Inet6) /\ (a = b \/ {"0.0.0.0", "::"} \cap {a, b} # {})

Collide(l, m) ==
    /\ l.proto = m.proto
    /\ IF l.proto = "unix" THEN l.ip = m.ip
       ELSE /\ l.port = m.port
            /\ \E i \in DOMAIN l.saddrs, j \in DOMAIN m.saddrs : Overlap(l.saddrs[i], m.saddrs[j])

router_add_listener(a, l) ==
    IF \/ a.err
       \/ l.proto # "unix" /\ l.saddrs = <<>>
       \/ \E i \in DOMAIN a.listeners : Collide(l, a.listeners[i])
    THEN [a EXCEPT !.err = TRUE]
    ELSE [a EXCEPT !.listeners = Append(@, l)]

\* <address> proto tcp | udp, or <path> proto unix
ReadReceptor(p, trnsp) ==
    LET v == IF p.proto = "unix" THEN router_validate_path(p.host)
             ELSE router_validate_address(p.host, p.port)
    IN  [ok |-> v.ok, trnsp |-> trnsp, proto |-> p.proto, ip |-> v.ip, port |-> v.port,
         saddrs |-> v.saddrs]

\* listen type linemode [transport ...] <receptors>
ReadListen(r, st) ==
    LET rcptrs == [i \in DOMAIN st.rcptrs |-> ReadReceptor(st.rcptrs[i], st.trnsp)]
        a == FoldLeft(router_add_listener, [err |-> FALSE, listeners |-> r.listeners], rcptrs)
    IN  IF \/ ~Transport(st.trnsp)
           \/ \E i \in DOMAIN rcptrs : ~rcptrs[i].ok
           \/ st.trnsp # {} /\ \E i \in DOMAIN rcptrs : rcptrs[i].proto = "udp"
           \/ a.err
        THEN [r |-> r, err |-> TRUE]
        ELSE [r |-> [r EXCEPT !.listeners = a.listeners], err |-> FALSE]

----------------------------------------------------------------------------
(* Reading a file                                                          *)

EmptyRouter ==
    [clusters |-> "blackhole" :> cluster_new("blackhole", "BLACKHOLE", 0),
     srvrs |-> <<>>, routes |-> <<>>, aggregators |-> <<>>, listeners |-> <<>>,
     collector |-> [stub |-> "none", interval |-> 60, mode |-> "CUM",
                    prefix |-> router_rewrite_metric(Hostname, <<"\\", ".", "1">>, 3, HostSpans, 0)]]

RECURSIVE ReadStatement(_, _)

\* An include reads each file its path names into the same router.
ReadInclude(r, st) ==
    IF Files[st.path] = <<>> THEN [r |-> r, err |-> TRUE]
    ELSE FoldLeft(LAMBDA a, s : IF a.err THEN a ELSE ReadStatement(a.r, s),
                  [r |-> r, err |-> FALSE], FlattenSeq(Files[st.path]))

ReadStatement(r, st) ==
    CASE st.st = "cluster"    -> ReadCluster(r, st)
      [] st.st = "file"       -> ReadFileCluster(r, st)
      [] st.st = "match"      -> ReadMatch(r, st)
      [] st.st = "rewrite"    -> ReadRewrite(r, st)
      [] st.st = "aggregate"  -> ReadAggregate(r, st)
      [] st.st = "statistics" -> ReadStatistics(r, st)
      [] st.st = "listen"     -> ReadListen(r, st)
      [] st.st = "include"    -> ReadInclude(r, st)

\* Without a listen statement the relay listens on its port for all addresses.
DefaultListeners ==
    LET On(proto) == ReadReceptor([host |-> "any", port |-> ListenPort, proto |-> proto], {})
    IN  <<On("tcp"), On("udp"), On("unix")>>

Init ==
    /\ \E i \in Inputs : fam = i.fam /\ input = i.stmts /\ more = i.more
    /\ phase = "reading"
    /\ rtr = EmptyRouter
    /\ asread = <<>>
    /\ out = None

Available == IF input # <<>> THEN {Head(input)} ELSE IF more > 0 THEN Rules[fam] ELSE {}

\* The action of the grammar for one statement of the given kind.
Read(kind) ==
    /\ phase = "reading"
    /\ \E st \in Available :
        /\ st.st = kind
        /\ \E a \in {ReadStatement(rtr, st)} :
               /\ phase' = IF a.err THEN "failed" ELSE phase
               /\ rtr' = IF a.err THEN EmptyRouter ELSE a.r
    /\ input' = IF input # <<>> THEN Tail(input) ELSE input
    /\ more' = IF input # <<>> THEN more ELSE more - 1
    /\ UNCHANGED <<fam, asread, out>>

EndOfFile ==
    /\ phase = "reading" /\ input = <<>>
    /\ phase' = "read"
    /\ rtr' = IF rtr.listeners = <<>> THEN [rtr EXCEPT !.listeners = DefaultListeners] ELSE rtr
    /\ UNCHANGED <<fam, input, more, asread, out>>

\* main() and do_reload() optimise what they have read.
Optimise ==
    /\ phase = "read"
    /\ phase' = "ready"
    /\ asread' = rtr.routes
    /\ rtr' = [rtr EXCEPT !.routes = router_optimise(@, Threshold)]
    /\ UNCHANGED <<fam, input, more, out>>

\* The metrics that can arrive: names, and what aggregators and the collector
\* of this router send with their stub in front.
Arriving ==
    Names[fam]
      \cup {<<StubOf[i]>> \o n : i \in {j \in DOMAIN rtr.aggregators : rtr.aggregators[j].stub},
                                n \in Names[fam]}
      \cup {<<s>> \o n : s \in {rtr.collector.stub} \ {"none"}, n \in Names[fam]}

Outcome(name, data, s) ==
    [kind |-> "route", name |-> name, data |-> data,
     ret |-> s.ret, aggr |-> s.aggr, bh |-> s.bh, cut |-> s.cut]

RouteMetric ==
    /\ phase = "ready" /\ out = None
    /\ \E name \in Arriving, data \in Datas[fam] :
        out' = Outcome(name, data, router_route(rtr.clusters, rtr.routes, name, data))
    /\ UNCHANGED <<phase, fam, input, more, rtr, asread>>

TestMetric ==
    /\ phase = "ready" /\ out = None
    /\ \E name \in Names[fam], data \in Datas[fam] :
        out' = [kind |-> "test", name |-> name, data |-> data,
                out |-> router_test(rtr.clusters, rtr.routes, name, data).out]
    /\ UNCHANGED <<phase, fam, input, more, rtr, asread>>

\* The destinations are taken over by the dispatcher, the next metric follows.
NextMetric ==
    /\ phase = "ready" /\ out # None
    /\ out' = None
    /\ UNCHANGED <<phase, fam, input, more, rtr, asread>>

\* A configuration that is refused is thrown away; it can be read again.
ReadAgain ==
    /\ phase = "failed"
    /\ \E i \in Inputs : fam' = i.fam /\ input' = i.stmts /\ more' = i.more
    /\ phase' = "reading"
    /\ UNCHANGED <<rtr, asread, out>>

Next ==
    \/ Read("cluster") \/ Read("file") \/ Read("match") \/ Read("rewrite")
    \/ Read("aggregate") \/ Read("statistics") \/ Read("listen") \/ Read("include")
    \/ EndOfFile \/ Optimise \/ RouteMetric \/ TestMetric \/ NextMetric \/ ReadAgain

Spec == Init /\ [][Next]_vars

----------------------------------------------------------------------------
(* Properties                                                              *)

\* The code compares strings where an expression has no need of the regular
\* expression library (determine_if_regex).  For every name at least as long as
\* the string this decides what the library would decide.
ShortcutAgrees ==
    phase = "read" =>
        \A i \in DOMAIN rtr.routes : \A n \in Names[fam] :
            LET r == rtr.routes[i]
            IN  r.matchtype # "MATCHALL" /\ regcomp[r.pattern].ok /\ Len(n) >= Len(r.strmatch)
                => (metric_matches(r, n) <=> regexec[<<r.pattern, n>>] # NoMatch)

\* What the manual says becomes of a name.
Meant(n, pm, repl) ==
    Part(n, <<0, pm[0][1]>>) \o Filled(n, pm, repl, 1) \o Part(n, <<pm[0][2], Len(n)>>)
RewrittenTo(new, want) == Len(want) + DataLen < MetricBuf => new = want
RewrittenRight(r, n, pm, repl) ==
    pm = Unset \/ RewrittenTo(router_rewrite_metric(n, repl, r.nmatch, pm, DataLen), Meant(n, pm, repl))

\* A rewrite whose expression is a string or has groups, and whose result fits the
\* buffer, puts the replacement the manual describes where the match was
\* (router_rewrite_metric).
RewriteMeans ==
    phase = "read" =>
        \A i \in DOMAIN rtr.routes : \A n \in Names[fam] :
            LET r == rtr.routes[i]
                repl == r.dests[1].name
            IN  /\ r.dests[1].type = "REWRITE"
                /\ metric_matches(r, n)
                /\ Plain(repl, r.nmatch - 1)
                => RewrittenRight(r, n, pmatch(r, n, Unset), repl)

SameElements(s, t) ==
    /\ Len(s) = Len(t)
    /\ \A e \in ToSet(s) : Cardinality({i \in DOMAIN s : s[i] = e})
                             = Cardinality({i \in DOMAIN t : t[i] = e})

\* Every name an expression matches has the tail the optimiser takes from it.
TailsNecessary(routes) ==
    \A i \in DOMAIN routes : \A n \in Names[fam] :
        metric_matches(routes[i], n) /\ routes[i].matchtype # "MATCHALL"
        => Occurs(TailBlock(routes[i].pattern), n)

\* A rule that only validates is a stop rule for data that fails, which the
\* optimiser does not know.
OnlyValidates(r) == Len(r.dests) = 1 /\ r.dests[1].type = "VALIDATION"

\* The outcome of the last metric is r, unless one of them had no room in ret.
SameSent(r) == out.cut \/ r.cut \/ SameElements(out.ret, r.ret)
SameAggregated(r) == out.cut \/ r.cut \/ SameElements(out.aggr, r.aggr)
Alike(r) == SameSent(r) /\ SameAggregated(r)

Unoptimised == router_route(rtr.clusters, asread, out.name, out.data)
NoneOnlyValidates == \A i \in DOMAIN asread : ~OnlyValidates(asread[i])

\* Grouping routes by their tail (router_optimise) changes for no metric where it
\* is sent and which aggregators it is given to.  This takes tails that every
\* matching name has, no rule that only validates, and room in ret.
OptimisedAlike ==
    out.kind = "route" /\ TailsNecessary(asread) /\ NoneOnlyValidates => Alike(Unoptimised)

\* "is used to reduce the amount of comparisons done before determining that an
\* input metric cannot match any expression we have defined" (router_optimise): a
\* metric that matches an expression is not left out by its group.
GroupsLoseNothing ==
    out.kind = "route" /\ NoneOnlyValidates => SameSent(Unoptimised)

\* A load balancing cluster has no server of its own choice.
Masked(e) == [cl |-> e.cl, as |-> e.as,
              srv |-> IF rtr.clusters[e.cl].type = "LB" THEN "-" ELSE e.srv]
Printed(r, printed) ==
    r.cut \/ [i \in DOMAIN printed |-> Masked(printed[i])] = [i \in DOMAIN r.ret |-> Masked(r.ret[i])]

\* What -t prints for a metric (router_test) is where router_route sends it, up to
\* what stands behind an aggregation; for a load balancing cluster it names no server.
TestModeAgrees ==
    out.kind = "test" /\ TailsNecessary(asread) =>
        Printed(router_route(rtr.clusters, rtr.routes, out.name, out.data),
                SelectSeq(out.out, LAMBDA e : ~e.aggr))

\* What an aggregator with destinations of its own sends goes to these, without the
\* stub, and nowhere else, whatever rules there are (router_add_stubroute).
AggregatesPrivate ==
    out.kind = "route" =>
        \A i \in DOMAIN rtr.aggregators :
            out.name # <<>> /\ out.name[1] = StubOf[i] =>
                LET own == Route(router_validate_expression(<<"*">>),
                                 Dests(rtr, rtr.aggregators[i].dsts), TRUE, NoMasq)
                IN  /\ out.ret = router_route(rtr.clusters, <<own>>, Tail(out.name), out.data).ret
                    /\ out.aggr = <<>>

\* A metric that is sent nowhere and given to no aggregator is counted as
\* blackholed, unless ret was full or a validation logged it (router_route).
NowhereIsCounted ==
    out.kind = "route" /\ out.ret = <<>> /\ out.aggr = <<>> /\ ~out.cut =>
        \/ out.bh
        \/ \E i \in DOMAIN asread : LET d == asread[i].dests[1]
                                     IN  /\ d.type = "VALIDATION" /\ ~d.drop
                                         /\ ~metric_matches(d.rule, out.data)

\* A ring has at least as many servers as it is to deliver, without which
\* ch_get_nodes does not return, and a server whose queue is shared out among
\* the members of a cluster is in one such cluster only (router_add_server,
\* router_add_cluster).
ClustersSound ==
    /\ \A n \in DOMAIN rtr.clusters :
        LET c == rtr.clusters[n]
        IN  c.type \in HashTypes => c.repl \in 1 .. Len(c.servers)
    /\ \A n, m \in DOMAIN rtr.clusters :
        LET c == rtr.clusters[n]
            d == rtr.clusters[m]
        IN  n # m /\ {c.type, d.type} \subseteq Sharing
            => ToSet(c.servers) \cap ToSet(d.servers) = {}
=============================================================================
