--------------------------- MODULE TrustedRouting ---------------------------
(***************************************************************************)
(* How lemmingd with remote clients handles requests while its rules change *)
(* (internal/proxycore/proxy.go, internal/redirect/redirect.go, and install *)
(* of internal/lemming/service.go).                                         *)
(*                                                                          *)
(* The router and the trust list are two atomic pointers that a change      *)
(* replaces one after the other, and a request loads them several times on  *)
(* its way from the check of its host to the dial.  A router is a map from  *)
(* hosts to addresses; None stands for a host without a rule.  The rules'   *)
(* path prefixes are a choice of the environment.                           *)
(***************************************************************************)
EXTENDS Integers, FiniteSets

CONSTANTS
    Addresses,   \* host names and addresses a request can name
    Denied,      \* addresses that remote clients may not reach
    Routers,     \* the routers the rules can make
    Requests,
    None

ASSUME AddressAssumption ==
    /\ Denied \subseteq Addresses
    /\ None \notin Addresses
    /\ Routers \subseteq [Addresses -> Addresses \cup {None}]

VARIABLES
    router,    \* Service.router
    targets,   \* trustSets.targets
    hosts,     \* trustSets.hosts
    installed, \* the router that is being installed, or None
    stage,     \* where its installation is
    pc, host, kind, addr,  \* each request: place, host, method, address dialed
    seen       \* history: targets that rules had since the request came

ruleVars == <<router, targets, hosts, installed, stage>>
vars == <<ruleVars, pc, host, kind, addr, seen>>

\* Router.Targets and Router.Domains
TargetsOf(r) == {r[h] : h \in Addresses} \ {None}
HostsOf(r)   == {h \in Addresses : r[h] # None}

Init ==
    /\ router \in Routers
    /\ targets = TargetsOf(router) /\ hosts = HostsOf(router)
    /\ installed = None /\ stage = "idle"
    /\ pc = [q \in Requests |-> "new"]
    /\ host = [q \in Requests |-> None]
    /\ kind = [q \in Requests |-> None]
    /\ addr = [q \in Requests |-> None]
    /\ seen = [q \in Requests |-> {}]

(***************************************************************************)
(* install, under Service.mu: the trust list is widened, the router         *)
(* replaced, the trust list narrowed.  A definition named Bug... is its     *)
(* successor with a mistake; no action uses it.                             *)
(***************************************************************************)
BugWidenToNew(new) ==
    targets' = TargetsOf(new) /\ hosts' = HostsOf(new)

WidenTrust(new) ==
    /\ targets' = TargetsOf(router) \cup TargetsOf(new)
    /\ hosts' = HostsOf(router) \cup HostsOf(new)

BugTrustKept == UNCHANGED <<targets, hosts>>

NarrowTrust ==
    targets' = TargetsOf(installed) /\ hosts' = HostsOf(installed)

Underway(q) == pc[q] \notin {"new", "connected", "refused"}

Install(new) ==
    /\ stage = "idle"
    /\ installed' = new
    /\ WidenTrust(new)
    /\ stage' = "widened"
    /\ seen' = [q \in Requests |->
                   IF Underway(q) THEN seen[q] \cup TargetsOf(new) ELSE seen[q]]
    /\ UNCHANGED <<router, pc, host, kind, addr>>

StoreRouter ==
    /\ stage = "widened"
    /\ router' = installed
    /\ stage' = "stored"
    /\ UNCHANGED <<targets, hosts, installed, pc, host, kind, addr, seen>>

Narrow ==
    /\ stage = "stored"
    /\ NarrowTrust
    /\ stage' = "idle"
    /\ installed' = None
    /\ UNCHANGED <<router, pc, host, kind, addr, seen>>

(***************************************************************************)
(* A request: deniedHost loads the trust list twice, Rewrite loads the      *)
(* router once, DialContext loads the trust list.                           *)
(***************************************************************************)
Goto(q, l) == pc' = [pc EXCEPT ![q] = l]
At(q, l)   == pc[q] = l

RequestFrame == UNCHANGED <<ruleVars, host, kind, seen>>

Arrive(q, h, k) ==
    /\ At(q, "new")
    /\ host' = [host EXCEPT ![q] = h]
    /\ kind' = [kind EXCEPT ![q] = k]
    /\ seen' = [seen EXCEPT ![q] = targets \cup TargetsOf(router)]
    /\ Goto(q, "check target")
    /\ UNCHANGED <<ruleVars, addr>>

CheckTarget(q) ==
    /\ At(q, "check target")
    /\ Goto(q, IF host[q] \in targets THEN "handle" ELSE "check host")
    /\ UNCHANGED addr /\ RequestFrame

CheckHost(q) ==
    /\ At(q, "check host")
    /\ Goto(q, IF host[q] \in hosts \/ host[q] \notin Denied
               THEN "handle" ELSE "refused")
    /\ UNCHANGED addr /\ RequestFrame

\* Router.Rewrite, where m tells whether the path matches the rule.
Destination(h, m) == IF m /\ router[h] # None THEN router[h] ELSE h

Handle(q, m) ==
    /\ At(q, "handle") /\ kind[q] = "GET"
    /\ addr' = [addr EXCEPT ![q] = Destination(host[q], m)]
    /\ Goto(q, "dial")
    /\ RequestFrame

Intercepts(h) == router[h] # None

\* A CONNECT to a host with a rule is intercepted, and the request in it, which
\* has to name the same host, goes the whole way; one to another host is a
\* tunnel.
HandleConnect(q) ==
    /\ At(q, "handle") /\ kind[q] = "CONNECT"
    /\ IF Intercepts(host[q])
       THEN /\ kind' = [kind EXCEPT ![q] = "GET"]
            /\ Goto(q, "check target")
            /\ UNCHANGED addr
       ELSE /\ addr' = [addr EXCEPT ![q] = host[q]]
            /\ Goto(q, "dial")
            /\ UNCHANGED kind
    /\ UNCHANGED <<ruleVars, host, seen>>

BugUnguarded(q) == TRUE

Permitted(q) == addr[q] \in targets \/ addr[q] \notin Denied

Dial(q) ==
    /\ At(q, "dial")
    /\ Goto(q, IF Permitted(q) THEN "connected" ELSE "refused")
    /\ UNCHANGED addr /\ RequestFrame

-----------------------------------------------------------------------------
RequestStep(q) ==
    \/ \E h \in Addresses, k \in {"GET", "CONNECT"} : Arrive(q, h, k)
    \/ CheckTarget(q) \/ CheckHost(q)
    \/ \E m \in BOOLEAN : Handle(q, m)
    \/ HandleConnect(q) \/ Dial(q)

Next ==
    \/ \E new \in Routers : Install(new)
    \/ StoreRouter \/ Narrow
    \/ \E q \in Requests : RequestStep(q)

Spec == Init /\ [][Next]_vars

-----------------------------------------------------------------------------
\* The sorts of the variables; a request that is dialed has an address.
TypeOK ==
    /\ router \in Routers
    /\ installed \in Routers \cup {None}
    /\ stage \in {"idle", "widened", "stored"}
    /\ targets \subseteq Addresses /\ hosts \subseteq Addresses
    /\ pc \in [Requests -> {"new", "check target", "check host", "handle",
                            "dial", "connected", "refused"}]
    /\ host \in [Requests -> Addresses \cup {None}]
    /\ kind \in [Requests -> {"GET", "CONNECT", None}]
    /\ addr \in [Requests -> Addresses \cup {None}]
    /\ seen \in [Requests -> SUBSET Addresses]
    /\ \A q \in Requests : At(q, "dial") => addr[q] \in Addresses

\* "No request is routed to a target that is not yet trusted" (install): at every
\* instant of a change the targets and the hosts of the router that requests
\* load are trusted.
TrustCoversRouter == TargetsOf(router) \subseteq targets /\ HostsOf(router) \subseteq hosts

\* When no change is under way nothing else is trusted.
TrustIsTight ==
    stage = "idle" => targets = TargetsOf(router) /\ hosts = HostsOf(router)

\* A request is refused at its dial only when no rule has its target by then, and
\* before that only when no rule has its host: it never fails because of a change
\* that leaves its rule alone.
RefusedOnlyWhenRemoved ==
    [][\A q \in Requests :
          /\ At(q, "dial") /\ pc'[q] = "refused" => addr[q] \notin TargetsOf(router)
          /\ At(q, "check host") /\ pc'[q] = "refused" => host[q] \notin HostsOf(router)]_vars

\* A connection to a denied address goes to the target of a rule that was there,
\* or was being installed, while the request was handled.
DeniedOnlyByRule ==
    \A q \in Requests :
        At(q, "connected") /\ addr[q] \in Denied => addr[q] \in seen[q]
=============================================================================
