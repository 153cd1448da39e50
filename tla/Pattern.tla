------------------------------ MODULE Pattern ------------------------------
(***************************************************************************)
(* What router.c does with the text of a rule: how an expression is turned *)
(* into a string comparison or a regular expression (determine_if_regex),  *)
(* how a metric name is held against it (router_metric_matches), which     *)
(* part of it router_optimise takes for its tail, and how a replacement is *)
(* filled in (router_rewrite_metric).                                      *)
(*                                                                         *)
(* Expressions, names and replacements are sequences of characters, a      *)
(* character being a string of length one.  "\0" is the terminator that    *)
(* the C code reads behind the last one.  regcomp() and regexec() belong   *)
(* to the C library and are parameters.                                    *)
(***************************************************************************)
EXTENDS Integers, Sequences, FiniteSets, SequencesExt

CONSTANTS
    regcomp,     \* for an expression, whether it compiles and its number of groups
    regexec,     \* for an expression and a string, the spans it matches, or NoMatch
    RE_MAX_MATCHES, \* the most groups, the whole expression included
    PatBuf,      \* sizeof(patbuf) in determine_if_regex
    MetricBuf,   \* METRIC_BUFSIZ
    DataLen      \* length of a metric's value and timestamp, with its spaces

ASSUME PatternAssumption ==
    /\ RE_MAX_MATCHES \in Nat \ {0}
    /\ PatBuf \in Nat \ {0}
    /\ MetricBuf \in Nat \ {0}
    /\ DataLen \in Nat

NoMatch == <<>>

Lower == {"a", "b", "c", "x", "y", "z"}
UpperOf == [c \in Lower |-> CASE c = "a" -> "A" [] c = "b" -> "B" [] c = "c" -> "C"
                              [] c = "x" -> "X" [] c = "y" -> "Y" [] c = "z" -> "Z"]
Upper == {UpperOf[c] : c \in Lower}
Digits == {"0", "1", "2", "3"}
Letters == Lower \cup Upper \cup {"_"}
Quantifiers == {"*", "+", "?"}

toupper(c) == IF c \in Lower THEN UpperOf[c] ELSE c
tolower(c) == IF c \in Upper THEN CHOOSE l \in Lower : UpperOf[l] = c ELSE c

\* t occurs in s
Occurs(t, s) ==
    \E i \in 0 .. Len(s) - Len(t) : SubSeq(s, i + 1, i + Len(t)) = t

----------------------------------------------------------------------------
(* determine_if_regex and router_validate_expression                       *)

\* Mutant: an escaped dollar sign at the end anchors as well.
DollarAnchors(pat, a, e) ==
    IF e # Len(pat) THEN "REGEX"
    ELSE IF a.type = "STARTS_WITH" THEN "MATCHES" ELSE "ENDS_WITH"

\* An unescaped dollar sign at the end anchors; any other needs the library.
ScanDollar(pat, a, e) ==
    IF a.escape \/ e # Len(pat) THEN "REGEX"
    ELSE IF a.type = "STARTS_WITH" THEN "MATCHES" ELSE "ENDS_WITH"

\* One turn of the loop over the expression; a is [type, pb, escape].
ScanChar(pat, a, e) ==
    LET c == pat[e]
        next ==
          CASE c = "\\" ->
                 [a EXCEPT !.pb = IF a.escape THEN Append(@, c) ELSE @, !.escape = ~@]
            [] c \in {".", "^", "*", "+"} ->
                 [type |-> IF a.escape THEN a.type ELSE "REGEX",
                  pb |-> Append(a.pb, c), escape |-> FALSE]
            [] c = "$" ->
                 [a EXCEPT !.type = ScanDollar(pat, a, e), !.escape = FALSE]
            [] OTHER ->
                 IF ~a.escape /\ c \in Letters \cup Digits \cup {"-"}
                 THEN [a EXCEPT !.pb = Append(@, c)]
                 ELSE [a EXCEPT !.type = "REGEX", !.escape = FALSE]
    IN  IF a.type = "REGEX" THEN a
        ELSE IF Len(next.pb) = PatBuf THEN [next EXCEPT !.type = "REGEX"] ELSE next

determine_if_regex(pat) ==
    LET caret == pat # <<>> /\ pat[1] = "^"
        a == FoldLeft(LAMBDA b, e : IF caret /\ e = 1 THEN b ELSE ScanChar(pat, b, e),
                      [type |-> IF caret THEN "STARTS_WITH" ELSE "CONTAINS",
                       pb |-> <<>>, escape |-> FALSE],
                      [e \in 1 .. Len(pat) |-> e])
    IN  [ok |-> a.type # "REGEX" \/ (regcomp[pat].ok /\ regcomp[pat].re_nsub < RE_MAX_MATCHES),
         matchtype |-> a.type, pattern |-> pat,
         strmatch |-> IF a.type = "REGEX" THEN <<>> ELSE a.pb,
         nmatch |-> IF a.type = "REGEX" /\ regcomp[pat].re_nsub > 0
                    THEN regcomp[pat].re_nsub + 1 ELSE 0]

router_validate_expression(pat) ==
    IF pat = <<"*">>
    THEN [ok |-> TRUE, matchtype |-> "MATCHALL", pattern |-> <<>>, strmatch |-> <<>>, nmatch |-> 0]
    ELSE determine_if_regex(pat)

----------------------------------------------------------------------------
(* router_metric_matches.  For a name shorter than the string an           *)
(* expression ends with, the code compares bytes in front of the name; the *)
(* model takes these for different from the string's.                      *)

Suffix(m, s) == Len(m) <= Len(s) /\ SubSeq(s, Len(s) - Len(m) + 1, Len(s)) = m

metric_matches(r, s) ==
    CASE r.matchtype = "MATCHALL"    -> TRUE
      [] r.matchtype = "REGEX"       -> regexec[<<r.pattern, s>>] # NoMatch
      [] r.matchtype = "CONTAINS"    -> Occurs(r.strmatch, s)
      [] r.matchtype = "STARTS_WITH" -> IsPrefix(r.strmatch, s)
      [] r.matchtype = "ENDS_WITH"   -> Suffix(r.strmatch, s)
      [] r.matchtype = "MATCHES"     -> s = r.strmatch

\* What pmatch holds after the match.  regexec() is not asked for spans when
\* the expression has no group, and "*" sets none: pmatch keeps what it held.
pmatch(r, s, old) ==
    LET so == CASE r.matchtype = "CONTAINS" ->
                     CHOOSE i \in 0 .. Len(s) :
                        /\ SubSeq(s, i + 1, i + Len(r.strmatch)) = r.strmatch
                        /\ \A j \in 0 .. i - 1 :
                              SubSeq(s, j + 1, j + Len(r.strmatch)) # r.strmatch
                [] r.matchtype = "ENDS_WITH" -> Len(s) - Len(r.strmatch)
                [] OTHER -> 0
    IN  CASE r.matchtype = "MATCHALL" -> old
          [] r.matchtype = "REGEX" -> IF r.nmatch = 0 THEN old ELSE regexec[<<r.pattern, s>>]
          [] OTHER -> [k \in {0} |-> <<so, so + Len(r.strmatch)>>]

----------------------------------------------------------------------------
(* The tail router_optimise finds in an expression                         *)

At(pat, p) == IF p > Len(pat) THEN "NUL" ELSE pat[p]

\* Walk back from p over what belongs to no block, skipping groups whole.
\* bsum is unsigned: one "(" too many leaves it above zero for good.
RECURSIVE StripTail(_, _, _)
StripTail(pat, p, bsum) ==
    IF p = 1 \/ (bsum = 0 /\ At(pat, p) \in Letters) THEN p
    ELSE IF At(pat, p) \notin {"(", ")"} THEN StripTail(pat, p - 1, bsum)
    ELSE LET q == CHOOSE q \in 1 .. p - 1 :
                     /\ q = 1 \/ pat[q] # "\\"
                     /\ \A j \in q + 1 .. p - 1 : pat[j] = "\\"
             escaped == (p - 1 - q) % 2 = 1
         IN  StripTail(pat, q, IF escaped THEN bsum
                               ELSE IF pat[p] = ")" THEN bsum + 1 ELSE bsum - 1)

\* The tail, <<>> for an expression that has none worth a group.
TailBlock(pat) ==
    LET p == StripTail(pat, Len(pat) + 1, 0)
        first == CHOOSE f \in 1 .. p + 1 :
                    /\ \A j \in f .. p : pat[j] \in Letters
                    /\ f = 1 \/ pat[f - 1] \notin Letters
    IN  IF p = 1 \/ p - first + 1 < 3 THEN <<>> ELSE SubSeq(pat, first, p)

----------------------------------------------------------------------------
(* router_rewrite_metric                                                   *)

Unset == [k \in {0} |-> <<-1, -1>>]   \* pmatch before any match wrote to it
Garbage == <<"?">>                     \* read through a pmatch nobody set
NoFit == <<"NUL">>                     \* the result 0: it does not fit

\* metric[so .. eo - 1]
Part(metric, span) ==
    IF span[1] < 0 \/ span[2] > Len(metric) THEN Garbage
    ELSE SubSeq(metric, span[1] + 1, span[2])

\* Mutant: a change of case leaves the dots alone.
ConvertedCaseOnly(part, rcase) ==
    [i \in DOMAIN part |->
        IF rcase \in {"LOWER", "LOWER_DOT"} THEN tolower(part[i])
        ELSE IF rcase \in {"UPPER", "UPPER_DOT"} THEN toupper(part[i])
        ELSE IF rcase = "RETAIN_DOT" /\ part[i] = "." THEN "_"
        ELSE part[i]]

Converted(part, rcase) ==
    [i \in DOMAIN part |->
        IF part[i] = "." /\ rcase \in {"RETAIN_DOT", "LOWER_DOT", "UPPER_DOT"} THEN "_"
        ELSE IF rcase \in {"LOWER", "LOWER_DOT"} THEN tolower(part[i])
        ELSE IF rcase \in {"UPPER", "UPPER_DOT"} THEN toupper(part[i])
        ELSE part[i]]

\* Append a group, when it fits.
AppendPart(s, part) == IF Len(s) + Len(part) < MetricBuf THEN s \o part ELSE s

\* Append the group a reference names, when it took part in the match.
InsertRef(metric, nmatch, pm, a) ==
    LET span == IF a.ref \in DOMAIN pm THEN pm[a.ref] ELSE <<0, Len(metric) + 1>>
    IN  IF a.escape # 0 /\ a.ref > 0 /\ a.ref <= nmatch /\ span[1] >= 0
        THEN AppendPart(a.s, Converted(Part(metric, span), a.rcase)) ELSE a.s

Value == [c \in Digits |-> CASE c = "0" -> 0 [] c = "1" -> 1 [] c = "2" -> 2 [] c = "3" -> 3]

\* A character that is no part of a reference ends the one before it.
EndRef(a, s, c) ==
    LET ref == IF a.escape # 0 THEN 0 ELSE a.ref
    IN  IF c = "\\" THEN [a EXCEPT !.s = s, !.ref = ref]
        ELSE [s |-> IF Len(s) + 1 < MetricBuf THEN Append(s, c) ELSE s,
              escape |-> 0, ref |-> ref, rcase |-> "RETAIN"]

\* One turn of the loop over the replacement; a is [s, escape, ref, rcase].
RewriteChar(metric, nmatch, pm, a, c) ==
    CASE c = "\\" /\ a.escape = 0 ->
           [a EXCEPT !.escape = 1, !.rcase = "RETAIN"]
      [] a.escape = 1 /\ a.rcase = "RETAIN" /\ c \in {"_", "^"} ->
           [a EXCEPT !.rcase = IF c = "_" THEN "LOWER" ELSE "UPPER"]
      [] a.escape = 1 /\ c = "." ->
           [a EXCEPT !.rcase = IF @ = "LOWER" THEN "LOWER_DOT"
                               ELSE IF @ = "UPPER" THEN "UPPER_DOT" ELSE "RETAIN_DOT"]
      [] a.escape # 0 /\ c \in Digits ->
           [a EXCEPT !.escape = 2, !.ref = @ * 10 + Value[c]]
      [] OTHER -> EndRef(a, InsertRef(metric, nmatch, pm, a), c)

\* What follows the match is kept; the whole must fit with its data.
Rest(metric, pm, s, datalen) ==
    LET new == Front(s) \o Part(metric, <<pm[0][2], Len(metric)>>)
    IN  IF Len(new) + datalen >= MetricBuf THEN NoFit ELSE new

router_rewrite_metric(metric, replacement, nmatch, pm, datalen) ==
    IF pm = Unset \/ pm[0][2] > Len(metric) THEN Garbage
    ELSE IF pm[0][1] >= MetricBuf THEN NoFit
    ELSE Rest(metric, pm,
              FoldLeft(LAMBDA b, c : RewriteChar(metric, nmatch, pm, b, c),
                       [s |-> Part(metric, <<0, pm[0][1]>>), escape |-> 0, ref |-> 0,
                        rcase |-> "RETAIN"],
                       Append(replacement, "NUL")).s,
              datalen)

----------------------------------------------------------------------------
(* What the manual says of a replacement: "\\" n stands for group n, in    *)
(* lower case behind "_", in upper case behind "^", and with its dots      *)
(* turned into underscores behind ".".                                     *)

RECURSIVE Filled(_, _, _, _)
Filled(metric, pm, repl, i) ==
    IF i > Len(repl) THEN <<>>
    ELSE IF repl[i] # "\\" THEN <<repl[i]>> \o Filled(metric, pm, repl, i + 1)
    ELSE LET j == CHOOSE j \in i + 1 .. Len(repl) :
                     repl[j] \in Digits /\ \A k \in i + 1 .. j - 1 : repl[k] \notin Digits
             marks == {repl[k] : k \in i + 1 .. j - 1}
             span == pm[Value[repl[j]]]
             part == IF span[1] < 0 THEN <<>> ELSE Part(metric, span)
             cased == [k \in DOMAIN part |->
                          IF "_" \in marks THEN tolower(part[k])
                          ELSE IF "^" \in marks THEN toupper(part[k]) ELSE part[k]]
             new == [k \in DOMAIN part |->
                        IF "." \in marks /\ part[k] = "." THEN "_" ELSE cased[k]]
         IN  new \o Filled(metric, pm, repl, j + 1)

\* Every reference is one digit that names a group, and none with a mark adjoins
\* another reference.
Plain(repl, groups) ==
    \A i \in DOMAIN repl : repl[i] = "\\" =>
        \E j \in i + 1 .. Len(repl) :
            /\ repl[j] \in Digits /\ Value[repl[j]] \in 1 .. groups
            /\ SubSeq(repl, i + 1, j - 1) \in
                  {<<>>, <<"_">>, <<"^">>, <<".">>, <<"_", ".">>, <<"^", ".">>}
            /\ j < Len(repl) => repl[j + 1] \notin Digits
            /\ j < Len(repl) /\ repl[j + 1] = "\\" =>
                  /\ j = i + 1
                  /\ j + 2 <= Len(repl) /\ repl[j + 2] \in Digits
=============================================================================
