------------------------ MODULE TrustedRoutingProofs ------------------------
(***************************************************************************)
(* Proofs about TrustedRouting for every set of addresses, routers and      *)
(* requests: the trust list covers the router at every instant of a change, *)
(* is exact between changes, and a request is refused or let through to a   *)
(* denied address only by a rule that the change concerns.                  *)
(***************************************************************************)
EXTENDS TrustedRouting, TLAPS

-----------------------------------------------------------------------------
(***************************************************************************)
(* The inductive invariant: what the trust list holds at each stage of an   *)
(* installation, and what it means to the requests that are under way.      *)
(***************************************************************************)
IdleInv ==
    stage = "idle" => targets = TargetsOf(router) /\ hosts = HostsOf(router)

WidenedInv ==
    stage = "widened" =>
        /\ installed \in Routers
        /\ targets = TargetsOf(router) \cup TargetsOf(installed)
        /\ hosts = HostsOf(router) \cup HostsOf(installed)

StoredInv ==
    stage = "stored" =>
        /\ router = installed
        /\ TargetsOf(router) \subseteq targets
        /\ HostsOf(router) \subseteq hosts

\* Whatever is trusted now was a target of a rule since the request came.
SeenInv == \A q \in Requests : Underway(q) => targets \subseteq seen[q]

\* A request that is under way knows its host.
HostInv == \A q \in Requests : Underway(q) => host[q] \in Addresses

IInv ==
    TypeOK /\ IdleInv /\ WidenedInv /\ StoredInv /\ SeenInv /\ HostInv
        /\ DeniedOnlyByRule

-----------------------------------------------------------------------------
\* Router.Targets and Router.Domains return addresses.
LEMMA RouterSorts ==
    ASSUME NEW r \in Routers
    PROVE  /\ TargetsOf(r) \subseteq Addresses
           /\ HostsOf(r) \subseteq Addresses
           /\ \A h \in Addresses : r[h] \in Addresses \cup {None}
  BY AddressAssumption DEF TargetsOf, HostsOf

\* The trust list covers the router at each of the three stages.
LEMMA Covered ==
    ASSUME IInv PROVE TrustCoversRouter
  BY DEF IInv, TypeOK, IdleInv, WidenedInv, StoredInv, TrustCoversRouter

LEMMA Initially == Init => IInv
  <1> SUFFICES ASSUME Init PROVE IInv
    OBVIOUS
  <1> USE DEF Init
  <1>1. TypeOK
    BY RouterSorts DEF TypeOK, At
  <1>2. IdleInv /\ WidenedInv /\ StoredInv
    BY DEF IdleInv, WidenedInv, StoredInv
  <1>3. SeenInv /\ HostInv /\ DeniedOnlyByRule
    BY DEF SeenInv, HostInv, DeniedOnlyByRule, Underway, At
  <1> QED
    BY <1>1, <1>2, <1>3 DEF IInv

\* A request whose step changes no rule keeps what is said of the rules.
LEMMA RulesKept ==
    ASSUME IInv, UNCHANGED ruleVars
    PROVE  IdleInv' /\ WidenedInv' /\ StoredInv'
  BY DEF IInv, IdleInv, WidenedInv, StoredInv, ruleVars, TargetsOf, HostsOf

-----------------------------------------------------------------------------
(***************************************************************************)
(* The steps of install.                                                    *)
(***************************************************************************)
LEMMA InstallKeeps ==
    ASSUME IInv, NEW new \in Routers, Install(new)
    PROVE  IInv'
  <1> USE DEF IInv, Install, WidenTrust
  <1>1. TypeOK'
    BY RouterSorts DEF TypeOK, At
  <1>2. IdleInv' /\ WidenedInv' /\ StoredInv'
    BY DEF IdleInv, WidenedInv, StoredInv, TargetsOf, HostsOf
  <1>3. SeenInv'
    <2> SUFFICES ASSUME NEW q \in Requests, Underway(q)'
                 PROVE  targets' \subseteq seen'[q]
      BY DEF SeenInv
    <2>1. Underway(q) /\ seen'[q] = seen[q] \cup TargetsOf(new)
      BY DEF Underway
    <2>2. TargetsOf(router) \subseteq targets /\ targets \subseteq seen[q]
      BY <2>1, Covered DEF TrustCoversRouter, SeenInv
    <2> QED
      BY <2>1, <2>2
  <1>4. HostInv'
    BY DEF HostInv, Underway
  <1>5. DeniedOnlyByRule'
    BY DEF DeniedOnlyByRule, At, TypeOK
  <1> QED
    BY <1>1, <1>2, <1>3, <1>4, <1>5

LEMMA StoreRouterKeeps ==
    ASSUME IInv, StoreRouter
    PROVE  IInv'
  <1> USE DEF IInv, StoreRouter
  <1>1. TypeOK'
    BY DEF TypeOK, WidenedInv, At
  <1>2. IdleInv' /\ WidenedInv' /\ StoredInv'
    BY DEF IdleInv, WidenedInv, StoredInv, TargetsOf, HostsOf
  <1>3. SeenInv' /\ HostInv' /\ DeniedOnlyByRule'
    BY DEF SeenInv, HostInv, DeniedOnlyByRule, Underway, At
  <1> QED
    BY <1>1, <1>2, <1>3

LEMMA NarrowKeeps ==
    ASSUME IInv, Narrow
    PROVE  IInv'
  <1> USE DEF IInv, Narrow, NarrowTrust
  <1>1. TypeOK'
    BY RouterSorts DEF TypeOK, StoredInv, At
  <1>2. IdleInv' /\ WidenedInv' /\ StoredInv'
    BY DEF IdleInv, WidenedInv, StoredInv, TargetsOf, HostsOf
  <1>3. SeenInv'
    BY DEF SeenInv, StoredInv, Underway
  <1>4. HostInv' /\ DeniedOnlyByRule'
    BY DEF HostInv, DeniedOnlyByRule, Underway, At
  <1> QED
    BY <1>1, <1>2, <1>3, <1>4

-----------------------------------------------------------------------------
(***************************************************************************)
(* The steps of a request.                                                  *)
(***************************************************************************)
LEMMA ArriveKeeps ==
    ASSUME IInv, NEW q \in Requests, NEW h \in Addresses,
           NEW k \in {"GET", "CONNECT"}, Arrive(q, h, k)
    PROVE  IInv'
  <1> USE DEF IInv, Arrive
  <1>1. TypeOK'
    BY RouterSorts DEF TypeOK, Goto, At, ruleVars
  <1>2. IdleInv' /\ WidenedInv' /\ StoredInv'
    BY RulesKept
  <1>3. SeenInv'
    BY DEF SeenInv, Underway, Goto, TypeOK, ruleVars
  <1>4. HostInv'
    BY DEF HostInv, Underway, Goto, TypeOK
  <1>5. DeniedOnlyByRule'
    BY DEF DeniedOnlyByRule, At, Goto, TypeOK
  <1> QED
    BY <1>1, <1>2, <1>3, <1>4, <1>5

LEMMA CheckKeeps ==
    ASSUME IInv, NEW q \in Requests, CheckTarget(q) \/ CheckHost(q)
    PROVE  IInv'
  <1> USE DEF IInv, CheckTarget, CheckHost, RequestFrame
  <1>1. TypeOK'
    BY DEF TypeOK, Goto, At, ruleVars
  <1>2. IdleInv' /\ WidenedInv' /\ StoredInv'
    BY RulesKept
  <1>3. SeenInv' /\ HostInv'
    BY DEF SeenInv, HostInv, Underway, Goto, At, TypeOK, ruleVars
  <1>4. DeniedOnlyByRule'
    BY DEF DeniedOnlyByRule, At, Goto, TypeOK
  <1> QED
    BY <1>1, <1>2, <1>3, <1>4

LEMMA HandleKeeps ==
    ASSUME IInv, NEW q \in Requests, NEW m \in BOOLEAN, Handle(q, m)
    PROVE  IInv'
  <1> USE DEF IInv, Handle, RequestFrame
  <1>1. Destination(host[q], m) \in Addresses
    <2>1. host[q] \in Addresses /\ router \in Routers
      BY DEF HostInv, Underway, At, TypeOK
    <2> QED
      BY <2>1, RouterSorts DEF Destination
  <1>2. TypeOK'
    BY <1>1 DEF TypeOK, Goto, At, ruleVars
  <1>3. IdleInv' /\ WidenedInv' /\ StoredInv'
    BY RulesKept
  <1>4. SeenInv' /\ HostInv'
    BY DEF SeenInv, HostInv, Underway, Goto, At, TypeOK, ruleVars
  <1>5. DeniedOnlyByRule'
    BY DEF DeniedOnlyByRule, At, Goto, TypeOK
  <1> QED
    BY <1>2, <1>3, <1>4, <1>5

LEMMA HandleConnectKeeps ==
    ASSUME IInv, NEW q \in Requests, HandleConnect(q)
    PROVE  IInv'
  <1> USE DEF IInv, HandleConnect
  <1>1. host[q] \in Addresses
    BY DEF HostInv, Underway, At
  <1>2. TypeOK'
    BY <1>1 DEF TypeOK, Goto, At, ruleVars
  <1>3. IdleInv' /\ WidenedInv' /\ StoredInv'
    BY RulesKept
  <1>4. SeenInv' /\ HostInv'
    BY DEF SeenInv, HostInv, Underway, Goto, At, TypeOK, ruleVars
  <1>5. DeniedOnlyByRule'
    BY DEF DeniedOnlyByRule, At, Goto, TypeOK
  <1> QED
    BY <1>2, <1>3, <1>4, <1>5

LEMMA DialKeeps ==
    ASSUME IInv, NEW q \in Requests, Dial(q)
    PROVE  IInv'
  <1> USE DEF IInv, Dial, RequestFrame
  <1>1. TypeOK'
    BY DEF TypeOK, Goto, At, ruleVars
  <1>2. IdleInv' /\ WidenedInv' /\ StoredInv'
    BY RulesKept
  <1>3. SeenInv' /\ HostInv'
    BY DEF SeenInv, HostInv, Underway, Goto, At, TypeOK, ruleVars
  <1>4. DeniedOnlyByRule'
    <2> SUFFICES ASSUME NEW p \in Requests, At(p, "connected")',
                        addr'[p] \in Denied
                 PROVE  addr'[p] \in seen'[p]
      BY DEF DeniedOnlyByRule, At
    <2>1. addr' = addr /\ seen' = seen
      OBVIOUS
    <2>2. CASE p = q
      <3>1. Permitted(q)
        BY <2>2 DEF At, Goto, TypeOK
      <3>2. addr[q] \in targets
        BY <2>1, <2>2, <3>1 DEF Permitted
      <3>3. targets \subseteq seen[q]
        BY DEF SeenInv, Underway, At
      <3> QED
        BY <2>1, <2>2, <3>2, <3>3
    <2>3. CASE p # q
      BY <2>1, <2>3 DEF DeniedOnlyByRule, At, Goto, TypeOK
    <2> QED
      BY <2>2, <2>3
  <1> QED
    BY <1>1, <1>2, <1>3, <1>4

LEMMA Inductive == IInv /\ [Next]_vars => IInv'
  <1> SUFFICES ASSUME IInv, [Next]_vars PROVE IInv'
    OBVIOUS
  <1>1. ASSUME NEW new \in Routers, Install(new) PROVE IInv'
    BY <1>1, InstallKeeps
  <1>2. CASE StoreRouter
    BY <1>2, StoreRouterKeeps
  <1>3. CASE Narrow
    BY <1>3, NarrowKeeps
  <1>4. ASSUME NEW q \in Requests, RequestStep(q) PROVE IInv'
    BY <1>4, ArriveKeeps, CheckKeeps, HandleKeeps, HandleConnectKeeps,
       DialKeeps DEF RequestStep
  <1>5. CASE UNCHANGED vars
    BY <1>5, RulesKept
       DEF IInv, TypeOK, SeenInv, HostInv, DeniedOnlyByRule, Underway, At, vars,
           ruleVars
  <1> QED
    BY <1>1, <1>2, <1>3, <1>4, <1>5 DEF Next

-----------------------------------------------------------------------------
(***************************************************************************)
(* The theorems.                                                            *)
(***************************************************************************)
\* The inductive invariant holds at every instant.
THEOREM Invariance == Spec => []IInv
  BY Initially, Inductive, PTL DEF Spec

\* The variables keep their sorts.
THEOREM TypeCorrect == Spec => []TypeOK
  <1>1. IInv => TypeOK
    BY DEF IInv
  <1> QED
    BY <1>1, Invariance, PTL

\* install never lets a request load a router whose targets are not trusted.
THEOREM CoverCorrect == Spec => []TrustCoversRouter
  <1>1. IInv => TrustCoversRouter
    BY Covered
  <1> QED
    BY <1>1, Invariance, PTL

\* Between two changes install leaves nothing trusted but the rules' targets.
THEOREM TightCorrect == Spec => []TrustIsTight
  <1>1. IInv => TrustIsTight
    BY DEF IInv, IdleInv, TrustIsTight
  <1> QED
    BY <1>1, Invariance, PTL

\* The guard lets a remote client through to a denied address only on behalf of a
\* rule that existed while its request was handled.
THEOREM DeniedCorrect == Spec => []DeniedOnlyByRule
  <1>1. IInv => DeniedOnlyByRule
    BY DEF IInv
  <1> QED
    BY <1>1, Invariance, PTL

\* The guard refuses no request whose rule is in force.
THEOREM RefusedCorrect == Spec => RefusedOnlyWhenRemoved
  <1> DEFINE Refusal ==
        \A q \in Requests :
          /\ At(q, "dial") /\ pc'[q] = "refused" => addr[q] \notin TargetsOf(router)
          /\ At(q, "check host") /\ pc'[q] = "refused" =>
                host[q] \notin HostsOf(router)
  <1>1. IInv /\ [Next]_vars => [Refusal]_vars
    <2> SUFFICES ASSUME IInv, Next, NEW q \in Requests, pc'[q] = "refused"
                 PROVE  /\ At(q, "dial") => addr[q] \notin TargetsOf(router)
                        /\ At(q, "check host") => host[q] \notin HostsOf(router)
      OBVIOUS
    <2>1. pc \in [Requests -> {"new", "check target", "check host", "handle",
                               "dial", "connected", "refused"}]
      BY DEF IInv, TypeOK
    <2>2. TargetsOf(router) \subseteq targets /\ HostsOf(router) \subseteq hosts
      BY Covered DEF TrustCoversRouter
    <2>3. CASE At(q, "dial")
      <3>1. Dial(q) /\ ~Permitted(q)
        BY <2>1, <2>3 DEF Next, Install, StoreRouter, Narrow, RequestStep,
           Arrive, CheckTarget, CheckHost, Handle, HandleConnect, Dial, At, Goto
      <3> QED
        BY <2>2, <2>3, <3>1 DEF Permitted, At
    <2>4. CASE At(q, "check host")
      <3>1. CheckHost(q) /\ host[q] \notin hosts
        BY <2>1, <2>4 DEF Next, Install, StoreRouter, Narrow, RequestStep,
           Arrive, CheckTarget, CheckHost, Handle, HandleConnect, Dial, At, Goto
      <3> QED
        BY <2>2, <2>4, <3>1 DEF At
    <2> QED
      BY <2>3, <2>4
  <1> QED
    BY <1>1, Invariance, PTL DEF Spec, RefusedOnlyWhenRemoved
=============================================================================
