CONSTANTS
    r1 = r1
    r2 = r2
    r3 = r3
    r4 = r4
    Daemons = {d1, d2}
    Mergers = {m1}
    Rules = {r1, r3}
    Domains <- DomainsDef
    DomainOf <- DomainOfDef
    MaxAutoRules = 2
    FirstConfig = {}
    Failing = {"save", "backup", "config", "remove"}
    Environment = {"crash", "overlap", "hasty", "editConfig", "removeAuto"}
    None = None
SPECIFICATION Spec
INVARIANT OneRulePerDomain
SYMMETRY Twins
