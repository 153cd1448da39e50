------------------------------- MODULE MCRelay -------------------------------
(***************************************************************************)
(* Instances of Relay.  The ports "any" and "one" share an address, so one *)
(* can only replace the other; "any" has an address of a family the system *)
(* does not support; "tls" and "tls2" are listed next to each other, so    *)
(* that only the first one's certificate is printed; "taken" cannot be     *)
(* bound.  Reload (three slots, filled by it) exchanges listeners, members *)
(* and types of clusters.                                                  *)
(***************************************************************************)
EXTENDS Relay

Lsnr(key, ctype, trnsp, pem) == [key |-> key, ctype |-> ctype, trnsp |-> trnsp, pem |-> pem]
Tcp(key) == Lsnr(key, "tcp", "plain", "none")
Tls(key, pem) == Lsnr(key, "tcp", "ssl", pem)
Path == Lsnr("path", "unix", "plain", "none")
Udp == Lsnr("one", "udp", "plain", "none")
Cl(name, type, servers) == [name |-> name, type |-> type, servers |-> servers]
Conf(lsnrs, cls, aggr, rules, dns) ==
    [lsnrs |-> lsnrs, stats |-> "60s", cls |-> cls, aggr |-> aggr, rules |-> rules, dns |-> dns]

MCAddrs == [any |-> <<"v6", "v4">>, one |-> <<"v4">>, tls |-> <<"tls">>, tls2 |-> <<"tls2">>,
            path |-> <<"path">>, taken |-> <<"spare", "used">>]

First ==
    Conf(<<Tcp("one"), Udp, Tls("tls", "old")>>,
         <<Cl("A", "FORWARD", <<"s1", "s2">>), Cl("B", "LB", <<"s3", "s4">>)>>, FALSE, "r1", "x")
FirstMoved == [First EXCEPT !.dns = "y"]
Exchanged ==
    Conf(<<Tcp("any"), Tls("tls", "old"), Path>>,
         <<Cl("A", "FORWARD", <<"s1">>), Cl("B", "LB", <<"s5", "s3">>)>>, TRUE, "r1", "x")
NewCertificate == [Exchanged EXCEPT !.lsnrs = <<Tls("tls", "new"), Tls("tls2", "old"), Path>>]
HiddenCertificate == [NewCertificate EXCEPT !.lsnrs[2].pem = "new"]
Retyped ==
    Conf(<<Tcp("taken"), Tls("tls", "bad"), Path>>,
         <<Cl("A", "FAILOVER", <<"s1">>), Cl("B", "LB", <<"s3">>), Cl("C", "FORWARD", <<"s3", "s2">>)>>,
         TRUE, "r1", "x")

MCConfigs == {First, FirstMoved, Exchanged, NewCertificate, HiddenCertificate, Retyped}

\* One server in two clusters, and a rule that changes.
Twice ==
    Conf(<<Tcp("one")>>, <<Cl("A", "FORWARD", <<"s1">>), Cl("C", "FORWARD", <<"s1", "s2">>)>>,
         FALSE, "r1", "x")
MCTwice == {Twice, [Twice EXCEPT !.rules = "r2"]}
=============================================================================
