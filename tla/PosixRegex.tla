----------------------------- MODULE PosixRegex -----------------------------
(***************************************************************************)
(* The part of POSIX extended regular expressions that the rules of a      *)
(* configuration are made of: characters, ".", "\", "^", "$", groups, "|", *)
(* "[...]", "*", "+" and "?".  regcomp() and regexec() belong to the C      *)
(* library; router.c calls them in determine_if_regex and                  *)
(* router_metric_matches.                                                  *)
(***************************************************************************)
EXTENDS Integers, Sequences, FiniteSets

Quantifiers == {"*", "+", "?"}

RECURSIVE AtomEnd(_, _), Close(_, _), WellFormed(_, _, _), Bar(_, _, _)

\* the last position of the atom that starts at l, 0 if it is never closed
AtomEnd(p, l) ==
    CASE p[l] = "\\" -> IF l < Len(p) THEN l + 1 ELSE 0
      [] p[l] = "("  -> Close(p, l + 1)
      [] p[l] = "["  -> LET closing == {k \in l + 2 .. Len(p) : p[k] = "]"}
                        IN  IF closing = {} THEN 0
                            ELSE CHOOSE k \in closing : \A j \in closing : k <= j
      [] OTHER       -> l

Close(p, k) ==
    IF k > Len(p) THEN 0
    ELSE IF p[k] = ")" THEN k
    ELSE IF AtomEnd(p, k) = 0 THEN 0 ELSE Close(p, AtomEnd(p, k) + 1)

\* the first position in l..h behind the atom that ends at a, and its quantifier
Next1(p, a, h) == IF a < h /\ p[a + 1] \in Quantifiers THEN a + 2 ELSE a + 1

WellFormed(p, l, h) ==
    \/ l > h
    \/ /\ p[l] \notin Quantifiers \cup {")"}
       /\ AtomEnd(p, l) # 0
       /\ LET a == AtomEnd(p, l)
          IN  /\ p[l] = "(" => WellFormed(p, l + 1, a - 1)
              /\ p[l] \in {"^", "$", "|"} => Next1(p, a, h) = a + 1
              /\ WellFormed(p, Next1(p, a, h), h)

\* the first "|" of l..h that is in no group, 0 if there is none
Bar(p, l, h) ==
    IF l > h THEN 0 ELSE IF p[l] = "|" THEN l ELSE Bar(p, AtomEnd(p, l) + 1, h)

\* regcomp(): what POSIX leaves undefined counts as refused
Compiles(p) == WellFormed(p, 1, Len(p))

GroupNo(p, l) == Cardinality({j \in 1 .. l : p[j] = "(" /\ (j = 1 \/ p[j - 1] # "\\")})
re_nsub(p) == GroupNo(p, Len(p))

RECURSIVE Runs(_, _, _, _, _), Star(_, _, _, _, _)

\* A thread is a position in s and the spans its groups took.  Atom gives the
\* threads that p[l..a] leads to from c, Runs those that p[l..h] leads to from S.
Atom(p, s, l, a, c) ==
    LET fits == /\ c.at <= Len(s)
                /\ CASE p[l] = "."  -> TRUE
                     [] p[l] = "\\" -> s[c.at] = p[a]
                     [] p[l] = "["  -> s[c.at] \in {p[j] : j \in l + 1 .. a - 1}
                     [] OTHER       -> s[c.at] = p[l]
    IN  CASE p[l] = "^" -> IF c.at = 1 THEN {c} ELSE {}
          [] p[l] = "$" -> IF c.at = Len(s) + 1 THEN {c} ELSE {}
          [] p[l] = "(" -> {[d EXCEPT !.g[GroupNo(p, l)] = <<c.at - 1, d.at - 1>>] :
                               d \in Runs(p, s, l + 1, a - 1, {c})}
          [] OTHER      -> IF fits THEN {[c EXCEPT !.at = @ + 1]} ELSE {}

Star(p, s, l, a, S) ==
    LET more == UNION {Atom(p, s, l, a, c) : c \in S} \ S
    IN  IF more = {} THEN S ELSE Star(p, s, l, a, S \cup more)

Runs(p, s, l, h, S) ==
    IF S = {} \/ l > h THEN S
    ELSE IF Bar(p, l, h) # 0
    THEN Runs(p, s, l, Bar(p, l, h) - 1, S) \cup Runs(p, s, Bar(p, l, h) + 1, h, S)
    ELSE LET a == AtomEnd(p, l)
             q == IF Next1(p, a, h) = a + 2 THEN p[a + 1] ELSE "1"
             once == UNION {Atom(p, s, l, a, c) : c \in S}
         IN  Runs(p, s, Next1(p, a, h), h,
                  CASE q = "1" -> once
                    [] q = "?" -> S \cup once
                    [] q = "+" -> Star(p, s, l, a, once)
                    [] q = "*" -> Star(p, s, l, a, S))

Thread(p, i) == [at |-> i, g |-> [k \in 1 .. re_nsub(p) |-> <<-1, -1>>]]
From(p, s, i) == Runs(p, s, 1, Len(p), {Thread(p, i)})

\* regexec(): whether some part of s is in the language of p
Regex(p, s) == \E i \in 1 .. Len(s) + 1 : From(p, s, i) # {}

\* The spans regexec() reports: the leftmost match, the longest of these, its
\* groups as long as can be, the first one first.  Offsets count from 0.
Spans(p, s) ==
    LET i == CHOOSE i \in 1 .. Len(s) + 1 :
                /\ From(p, s, i) # {}
                /\ \A j \in 1 .. i - 1 : From(p, s, j) = {}
        Longer(c, d) == \/ c.at > d.at
                        \/ /\ c.at = d.at
                           /\ \/ c.g = d.g
                              \/ \E k \in DOMAIN c.g :
                                    /\ \A j \in 1 .. k - 1 : c.g[j] = d.g[j]
                                    /\ c.g[k][2] - c.g[k][1] > d.g[k][2] - d.g[k][1]
        best == CHOOSE c \in From(p, s, i) : \A d \in From(p, s, i) : Longer(c, d)
    IN  [k \in 0 .. re_nsub(p) |-> IF k = 0 THEN <<i - 1, best.at - 1>> ELSE best.g[k]]
=============================================================================
