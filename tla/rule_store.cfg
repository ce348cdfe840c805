CONSTANTS
    r1 = r1
    r2 = r2
    r3 = r3
    r4 = r4
    Daemons = {d1}
    Mergers = {m1, m2}
    Rules = {r1, r2, r3, r4}
    Domains <- DomainsDef
    DomainOf <- DomainOfDef
    MaxAutoRules = 2
    FirstConfig = {}
    Failing = {"save", "backup", "config"}
    Environment = {"crash", "editConfig"}
    None = None
SPECIFICATION Spec
INVARIANTS AcceptedKept NextStartRoutes LiveMatchesFile MergeAsksRunning
PROPERTY MergedMatches
