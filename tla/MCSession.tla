------------------------------ MODULE MCSession ------------------------------
(* Instances of Session for TLC: names over a small alphabet of tokens.    *)
EXTENDS Session

Tokens == {"ex", "EX", "not", "com", ".", ":", "#", "443", "[", "1]"}
MCLowerOf == [t \in Tokens |-> IF t = "EX" THEN "ex" ELSE t]
MCDigits == {"443", "1]"}

\* Two labels end alike; one is an IPv6 literal, whose last colon precedes a digit.
MCLabels == {<<"ex">>, <<"EX">>, <<"not", "ex">>, <<"com">>}
IPv6 == <<"[", ":", ":", "1]">>
MCTargets ==
  [labels: BoundedSeq(MCLabels, 3) \ {<<>>}, dot: BOOLEAN, port: BOOLEAN]
    \cup [labels: {<<IPv6>>}, dot: {FALSE}, port: BOOLEAN]

Entry(labels, dotted) == [labels |-> labels, dotted |-> dotted, comment |-> FALSE]
Comment(labels) == [labels |-> labels, dotted |-> FALSE, comment |-> TRUE]

\* Single labels with and without a dot, a domain, a literal, from the environment
\* and from a file.
Lists ==
  << <<{Entry(<<<<"ex">>>>, FALSE)}, {Comment(<<<<"com">>>>)}>>,
     <<{}, {Entry(<<<<"EX">>>>, TRUE), Entry(<<IPv6>>, FALSE)}>>,
     <<{Entry(<<<<"ex">>, <<"com">>>>, FALSE)}, {Entry(<<<<"com">>>>, FALSE)}>>,
     <<{}, {}>> >>

\* Every list on either side, next to another one.
MCEnvs ==
  {[mode |-> m, directDomains |-> Lists[i][1], directFile |-> Lists[i][2],
    proxyDomains |-> Lists[(i % 4) + 1][1], proxyFile |-> Lists[(i % 4) + 1][2]] :
      m \in RouteModes, i \in 1 .. 4}
=============================================================================
