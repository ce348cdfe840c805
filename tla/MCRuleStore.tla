---------------------------- MODULE MCRuleStore ----------------------------
EXTENDS RuleStore, TLC

CONSTANTS r1, r2, r3, r4

\* r1 and r3 route the same domain.
DomainsDef  == {"a", "b", "c"}
DomainOfDef == [r \in Rules |-> CASE r = r2 -> "b" [] r = r4 -> "c" [] OTHER -> "a"]

\* Two lemmingds, and two rules of one domain, that nothing tells apart.
Twins == Permutations(Daemons) \cup Permutations(Rules)
=============================================================================
