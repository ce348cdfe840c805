CONSTANTS
    app = app
    local = local
    t1 = t1
    t2 = t2
    q1 = q1
    q2 = q2
    Addresses <- AddressesDef
    Denied <- DeniedDef
    Routers <- RoutersDef
    Requests = {q1, q2}
    None = None
SPECIFICATION Spec
INVARIANTS TrustCoversRouter TrustIsTight DeniedOnlyByRule
PROPERTY RefusedOnlyWhenRemoved
