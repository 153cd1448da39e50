------------------------- MODULE MCConsistentHash -------------------------
(* ConsistentHash for TLC: every hash function into three positions, for   *)
(* clusters of two or three servers with two entries each.  "a" and "d"    *)
(* are one host on two ports, which carbon_ch cannot tell apart.           *)
EXTENDS ConsistentHash

None == -1
MCServer == {"a", "b", "c", "d"}
MCIp == [s \in MCServer |-> IF s = "b" THEN 2 ELSE 1]
MCPort == [s \in MCServer |-> IF s = "d" THEN 2 ELSE 1]
MCInst == [s \in MCServer |-> IF s = "c" THEN 1 ELSE None]

MCLists == {<<"a", "b", "c">>, <<"b", "a">>, <<"c", "a">>, <<"a", "d", "b">>}
TwoPorts == {<<"a", "d">>}
=============================================================================
