------------------------- MODULE MCTrustedRouting -------------------------
EXTENDS TrustedRouting

CONSTANTS app, local, t1, t2, q1, q2

\* app is a public name and local a denied one; t1 and t2 are local targets.
AddressesDef == {app, local, t1, t2}
DeniedDef    == {local, t1, t2}

Route(a, l) == [h \in AddressesDef |-> CASE h = app -> a [] h = local -> l
                                         [] OTHER -> None]
RoutersDef == {Route(a, l) : a \in {None, t1, t2}, l \in {None, t2}}
=============================================================================
