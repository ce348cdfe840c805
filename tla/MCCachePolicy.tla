--------------------------- MODULE MCCachePolicy ---------------------------
EXTENDS CachePolicy

Line(flags, maxAge, swr) == [flags |-> flags, maxAge |-> maxAge, swr |-> swr]

Reply(ordinary, lines, age, expires, validator) ==
    [ordinary |-> ordinary, lines |-> lines, age |-> age,
     expires |-> expires, validator |-> validator]

\* A request that may be answered from the cache, one that may not by its kind,
\* and one that may not by its directives.
AllRequests ==
    {[ordinary |-> TRUE,  lines |-> <<>>],
     [ordinary |-> FALSE, lines |-> <<>>],
     [ordinary |-> TRUE,  lines |-> <<Line({"no-cache"}, Absent, Absent)>>]}

PlainRequest == {[ordinary |-> TRUE, lines |-> <<>>]}

\* Numbers whose products with Second fit an int64, and an Age next to its
\* limit where no max-age is subtracted from it.
FittingResponses ==
    {Reply(o, <<Line(d, m, w)>>, a, e, v) :
        o \in {TRUE}, d \in {{}, {"private"}}, m \in {Bad, 0, 2, 3},
        w \in {Absent, Bad, 0, 2}, a \in {Absent, Bad, 0, 1, 3},
        e \in {Absent, 4}, v \in {TRUE}}
    \cup
    {Reply(o, ls, a, e, v) :
        o \in BOOLEAN, ls \in {<<>>, <<Line({}, Absent, 2)>>},
        a \in {Absent, Half - 1}, e \in {Absent, Bad, 0, 4}, v \in BOOLEAN}

\* The field comes in two lines.
TwoLineResponses ==
    {Reply(TRUE, <<Line({}, 2, Absent), Line(d, Absent, Absent)>>,
           Absent, Absent, TRUE) : d \in {{}, {"private"}, {"no-store"}}}
=============================================================================
