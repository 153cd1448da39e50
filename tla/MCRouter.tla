------------------------------ MODULE MCRouter ------------------------------
(***************************************************************************)
(* Four families of configurations: every short expression, every short    *)
(* replacement, every list of a few rules of a pool in any order, and      *)
(* every few clusters, listeners and other statements of a pool.           *)
(***************************************************************************)
EXTENDS Router

R1 == INSTANCE PosixRegex

CONSTANTS MaxPat, MaxRepl, MaxRules, MaxStmts

Strings(S, n) == UNION {[1 .. m -> S] : m \in 1 .. n}

Host(host) == [host |-> host, port |-> 2, proto |-> "tcp", type |-> "line", inst |-> "none",
               trnsp |-> {}]
Cluster(name, type, repl, hosts) ==
    [st |-> "cluster", name |-> name, type |-> type, repl |-> repl, conns |-> 1, ttl |-> 1,
     start |-> 0, end |-> 0, useall |-> FALSE, hosts |-> [i \in DOMAIN hosts |-> Host(hosts[i])]]
Match(exprs, dsts, stop) ==
    [st |-> "match", exprs |-> exprs, validate |-> <<>>, drop |-> TRUE, masq |-> NoMasq,
     dsts |-> dsts, stop |-> stop]
RewriteInto(expr, into) == [st |-> "rewrite", expr |-> expr, into |-> into]
Aggregate(exprs, intv, expire, dsts, stop) ==
    [st |-> "aggregate", exprs |-> exprs, intv |-> intv, expire |-> expire,
     computes |-> <<[ctype |-> "PCTL", pctl |-> 99]>>, dsts |-> dsts, stop |-> stop]
Statistics(only, intv, prefix, dsts) ==
    [st |-> "statistics", only |-> only, intv |-> intv, prefix |-> prefix,
     mode |-> "CUM", dsts |-> dsts]
Listen(trnsp, proto, host) ==
    [st |-> "listen", trnsp |-> trnsp, rcptrs |-> <<[proto |-> proto, host |-> host, port |-> 1]>>]
Include(path) == [st |-> "include", path |-> path]

A == Cluster("A", "FORWARD", 0, <<"h1">>)
B == Cluster("B", "LB", 0, <<"h2", "h3">>)
R == Cluster("R", "CARBON_CH", 2, <<"h4", "h5">>)
N == Cluster("N", "ANYOF", 0, <<"h6", "h7">>)

abc == <<"a", "b", "c">>
xyz == <<"x", "y", "z">>

\* The rules of the pool have the tails abc and xyz, some of them with stop.
RulePool ==
    { Match(<<abc \o <<"$">>>>, <<"B">>, TRUE),
      [Match(<<<<"x", ".", "*">> \o abc>>, <<"R">>, FALSE) EXCEPT !.masq = <<"x">>],
      [Match(<<xyz>>, <<"N">>, TRUE) EXCEPT !.validate = <<<<"1">>>>],
      Match(<<<<"*">>>>, <<"A">>, TRUE),
      RewriteInto(<<"x", "(">> \o abc \o <<")">>, <<"\\", "1", "x">>),
      Aggregate(<<abc>>, 1, 2, <<"B">>, FALSE),
      Match(<<<<"^">> \o abc, xyz>>, <<"blackhole">>, FALSE) }

StmtPool ==
    { A, B, R, N,
      Cluster("A", "FORWARD", 0, <<"h2">>),
      Cluster("C", "FNV1A_CH", 3, <<"h1", "h4">>),
      Cluster("D", "FAILOVER", 0, <<"h9", "gone">>),
      [Cluster("E", "FORWARD", 0, <<"h1h8">>) EXCEPT !.useall = TRUE, !.hosts[1].trnsp = {"gzip"}],
      [Cluster("F", "FILELOG", 0, <<"log", "root">>) EXCEPT !.st = "file"],
      [Cluster("G", "FILELOGIP", 0, <<"log">>) EXCEPT !.st = "file"],
      Match(<<abc>>, <<"A">>, FALSE),
      Match(<<<<"(", "a", ")", "(", "b", ")", "(", "c", ")">>>>, <<"blackhole">>, FALSE),
      [Match(<<xyz>>, <<>>, FALSE) EXCEPT !.validate = <<<<"1">>>>, !.drop = FALSE],
      Aggregate(<<abc>>, 2, 2, <<>>, FALSE),
      Statistics(FALSE, 1, <<"\\", "2", "x">>, <<"A">>),
      Statistics(TRUE, -1, <<>>, <<"A">>),
      Listen({}, "tcp", "h1"), Listen({"gzip"}, "tcp", "any"), Listen({"gzip"}, "udp", "h1"),
      Listen({"ssl"}, "unix", "log"), Listen({}, "unix", "log"),
      Include("two"), Include("none") }

MCFiles == [two |-> << <<A>>, <<N, Match(<<xyz>>, <<"N">>, TRUE)>> >>, none |-> <<>>]

MCInputs ==
    {[fam |-> "pattern", stmts |-> <<A, Match(<<p>>, <<"A">>, FALSE)>>, more |-> 0] :
        p \in Strings({"a", ".", "*", "^", "$", "\\"}, MaxPat)}
    \cup
    {[fam |-> "rewrite", stmts |-> <<A, RewriteInto(e, p), Match(<<<<"*">>>>, <<"A">>, FALSE)>>,
      more |-> 0] :
        e \in {<<"(", "a", ")", "(", ".", "*", ")">>, <<"a", ".", "(", "B", ")", "?">>},
        p \in Strings({"\\", "1", "2", "_", "^", ".", "x"}, MaxRepl)}
    \cup
    {[fam |-> "rules", stmts |-> <<A, B, R, N, Match(<<<<"^">> \o abc>>, <<"A">>, FALSE)>>,
      more |-> MaxRules],
     [fam |-> "stmts", stmts |-> <<>>, more |-> MaxStmts]}

\* Three rules whose expressions end in an optional letter.
TailInputs ==
    LET opt == abc \o <<"x", "?">>
    IN  {[fam |-> "rules", more |-> 0,
          stmts |-> <<A, Match(<<opt, <<"^">> \o opt, <<"x", ".", "*">> \o opt>>, <<"A">>, FALSE)>>]}

MCRules == [pattern |-> {}, rewrite |-> {}, rules |-> RulePool, stmts |-> StmtPool]

MCNames ==
    [pattern |-> { <<"a">>, <<"b">>, <<"a", "a">>, <<"a", "b">>, <<"b", "a">>, <<".", "a">>,
                   <<"a", ".">>, <<"a", "*">>, <<"a", "$">>, <<"a", "\\">>, <<"^", "a">>,
                   <<"a", "a", "a">>, <<"a", "a", "b">>, <<"b", "a", "a">>, <<"a", "b", "a">> },
     rewrite |-> { <<"x", "a", ".", "B", "b">>, <<"a", "B", ".">>, <<"x">> },
     rules |-> { abc, <<"x">> \o abc, xyz \o abc, abc \o <<"x">> },
     stmts |-> { abc, xyz }]

MCregcomp == [p \in Seq(STRING) |-> [ok |-> R1!Compiles(p), re_nsub |-> R1!re_nsub(p)]]
MCregexec == [ps \in Seq(STRING) \X Seq(STRING) |->
                IF R1!Regex(ps[1], ps[2]) THEN R1!Spans(ps[1], ps[2]) ELSE NoMatch]

MCResolve == [h \in {"h1", "h2", "h3", "h4", "h5", "h6", "h7", "h9", "h1h8", "any", "gone"} |->
                CASE h = "h1h8" -> <<"h1", "h8">>
                  [] h = "any"  -> <<"0.0.0.0", "::">>
                  [] h = "h9"   -> <<"h3">>
                  [] h = "gone" -> <<>>
                  [] OTHER      -> <<h>>]
MCHostname == <<"a", ".", "b">>
MCDatas == [pattern |-> {}, rewrite |-> {}, rules |-> {<<"1">>, <<"x">>}, stmts |-> {<<"x">>}]
=============================================================================
