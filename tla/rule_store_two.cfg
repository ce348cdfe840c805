CONSTANTS
    r1 = r1
    r2 = r2
    r3 = r3
    r4 = r4
    Daemons = {d1, d2}
    Mergers = {m1}
    Rules = {r1}
    Domains <- DomainsDef
    DomainOf <- DomainOfDef
    MaxAutoRules = 2
    FirstConfig = {}
    Failing = {}
    Environment = {"overlap"}
    None = None
SPECIFICATION Spec
INVARIANT MergeAsksRunning
