--------------------------- MODULE ProxyServerProofs ---------------------------
(***************************************************************************)
(* The safety properties of ProxyServer for any connections, limit and      *)
(* lengths of time.                                                         *)
(***************************************************************************)
EXTENDS ProxyServer, FiniteSetTheorems, TLAPS

-----------------------------------------------------------------------------
(***************************************************************************)
(* The inductive invariant.                                                 *)
(***************************************************************************)
\* What serveMITM's deferred call relies on, and that a connection that did not
\* come is not open.
SessionInv ==
    \A c \in Conns :
        /\ session[c] = "woken" /\ hijacked[c] = FALSE => worker[c] = "ended"
        /\ worker[c] = "none" => open[c] = FALSE

\* A deadline is the caller's or, with remote clients, the idle limit of the last
\* renewal: sums of what goes down and what goes up with the clock.
GoodTimer(t) ==
    /\ remote = TRUE => t.left \in 0..Idle
    /\ remote = FALSE => t.left = t.ask
    /\ t.left # t.ask =>
          /\ t.left >= 0
          /\ t.since < Refresh => t.left + t.since >= Idle
          /\ t.left + t.quiet > Idle - Refresh

\* While a Read or Write is pending no tick passes over its deadline; serveMITM's
\* Read of the first byte always is.
Timed(c) ==
    /\ Owned(c) => GoodTimer(timer[c])
    /\ Pending(c) /\ remote = TRUE => timer[c].left + timer[c].quiet <= Idle
    /\ worker[c] = "peek" =>
          timer[c].left >= 0 /\ timer[c].left + timer[c].quiet <= Header
    /\ worker[c] = "peek" \/ ~Owned(c) => blocked[c] = FALSE

TimerInv == \A c \in Conns : Timed(c)

IInv == TypeOK /\ SlotsExact /\ OwnerKeeps /\ SessionInv /\ TimerInv

-----------------------------------------------------------------------------
(***************************************************************************)
(* Lemmas about slots and deadlines.                                        *)
(***************************************************************************)
OpenOnes == {c \in Conns : open[c]}

\* Closing any connections, some of them for the second time, keeps the count.
LEMMA CloseAllKeeps ==
    ASSUME TypeOK, SlotsExact, NEW S \in SUBSET Conns, CloseAll(S), loop' = loop
    PROVE  /\ SlotsExact' /\ slots' \in 0..Limit
           /\ open' \in [Conns -> BOOLEAN]
           /\ \A c \in Conns : c \notin S => open'[c] = open[c]
           /\ \A c \in S : open'[c] = FALSE
  <1> DEFINE A == OpenOnes
             B == {c \in S : open[c]}
  <1>1. /\ IsFiniteSet(A) /\ IsFiniteSet(B) /\ B \subseteq A
        /\ Cardinality(A) \in Nat /\ Cardinality(B) \in Nat
        /\ Cardinality(B) <= Cardinality(A)
    BY ServerAssumption, FS_Subset, FS_CardinalityType DEF OpenOnes
  <1>2. open' = [c \in Conns |-> open[c] /\ c \notin S]
    BY DEF CloseAll
  <1>3. OpenOnes' = A \ B
    BY <1>2 DEF OpenOnes
  <1>4. A \cap B = B
    BY <1>1
  <1>5. Cardinality(A \ B) = Cardinality(A) - Cardinality(B)
    BY <1>1, <1>4, FS_Difference
  <1>6. slots' = slots - Cardinality(B)
    BY DEF CloseAll, Released
  <1>7. slots = Cardinality(A) + (IF loop = "accept" THEN 1 ELSE 0) /\ slots <= Limit
    BY DEF SlotsExact, OpenOnes
  <1>8. slots' = Cardinality(OpenOnes') + (IF loop' = "accept" THEN 1 ELSE 0)
    BY <1>1, <1>3, <1>5, <1>6, <1>7
  <1>9. slots' \in 0..Limit
    <2> HIDE DEF A, B
    <2> QED
      BY <1>1, <1>6, <1>7, ServerAssumption
  <1>10. SlotsExact'
    BY <1>8, <1>9 DEF SlotsExact, OpenOnes
  <1>11. /\ open' \in [Conns -> BOOLEAN]
         /\ \A c \in Conns : c \notin S => open'[c] = open[c]
         /\ \A c \in S : open'[c] = FALSE
    BY <1>2 DEF TypeOK
  <1> QED
    BY <1>9, <1>10, <1>11

Sort == [ask : Times, left : Times, since : 0..Refresh, quiet : 0..(Idle + Header + 1)]

\* applyLocked sets deadlines that are the caller's or the idle limit.
LEMMA AppliedGood ==
    ASSUME TypeOK, NEW ask \in Times
    PROVE  LET t == Applied(ask, 0) IN
           /\ t \in Sort /\ GoodTimer(t) /\ t.quiet = 0
           /\ ask # Never => t.left >= 0 /\ t.left <= ask
  <1> ServerAssumption
    BY ServerAssumption
  <1>1. CASE remote = TRUE
    BY <1>1 DEF ServerAssumption, Applied, Sort, GoodTimer, Earliest, Times, Never
  <1>2. CASE remote = FALSE
    BY <1>2 DEF ServerAssumption, Applied, Sort, GoodTimer, Times, Never
  <1> QED
    BY <1>1, <1>2 DEF TypeOK

\* touch renews them, or they were set less than a second ago.
LEMMA TouchedGood ==
    ASSUME TypeOK, NEW t \in Sort, GoodTimer(t)
    PROVE  Touched(t) \in Sort /\ GoodTimer(Touched(t)) /\ Touched(t).quiet = 0
  <1>1. CASE remote = TRUE /\ t.since >= Refresh
    <2>1. t.ask \in Times
      BY DEF Sort
    <2> QED
      BY <1>1, <2>1, AppliedGood DEF Touched
  <1>2. CASE ~(remote = TRUE /\ t.since >= Refresh)
    <2>1. Touched(t) = [t EXCEPT !.quiet = 0]
      BY <1>2 DEF Touched, TypeOK
    <2> DEFINE u == [t EXCEPT !.quiet = 0]
    <2>2. /\ u \in Sort
          /\ u.ask = t.ask /\ u.left = t.left /\ u.since = t.since /\ u.quiet = 0
      BY ServerAssumption DEF Sort
    <2>3. /\ t.left \in Int /\ t.quiet \in Nat /\ t.since \in Nat /\ t.since <= Refresh
      BY ServerAssumption DEF Sort, Times, Never
    <2> HIDE DEF u
    <2>4. GoodTimer(u)
      BY <1>2, <2>2, <2>3, ServerAssumption DEF GoodTimer, TypeOK
    <2> QED
      BY <2>1, <2>2, <2>4 DEF u
  <1> QED
    BY <1>1, <1>2

\* A tick keeps what is due and what is quiet in balance.
LEMMA LaterGood ==
    ASSUME TypeOK, NEW t \in Sort
    PROVE  /\ Later(t) \in Sort
           /\ GoodTimer(t) => GoodTimer(Later(t))
           /\ t.left > 0 => Later(t).left = t.left - 1
           /\ Later(t).quiet <= t.quiet + 1
  <1> DEFINE u == Later(t)
  <1>1. /\ t.ask \in Times /\ t.left \in Times /\ t.since \in 0..Refresh
        /\ t.quiet \in 0..(Idle + Header + 1)
    BY DEF Sort
  <1>2. /\ u.ask = IF t.ask > 0 THEN t.ask - 1 ELSE t.ask
        /\ u.left = IF t.left > 0 THEN t.left - 1 ELSE t.left
        /\ u.since = IF t.since < Refresh THEN t.since + 1 ELSE t.since
        /\ u.quiet = IF t.quiet <= Idle + Header THEN t.quiet + 1 ELSE t.quiet
        /\ u = [ask |-> u.ask, left |-> u.left, since |-> u.since, quiet |-> u.quiet]
    BY DEF Later
  <1> HIDE DEF u
  <1>3. /\ u.ask \in Times /\ u.left \in Times /\ u.since \in 0..Refresh
        /\ u.quiet \in 0..(Idle + Header + 1)
    BY <1>1, <1>2, ServerAssumption DEF Times, Never
  <1>4. u \in Sort
    BY <1>2, <1>3 DEF Sort
  <1>5. GoodTimer(t) => GoodTimer(u)
    BY <1>1, <1>2, ServerAssumption DEF GoodTimer, Times, Never, TypeOK
  <1>6. (t.left > 0 => u.left = t.left - 1) /\ u.quiet <= t.quiet + 1
    BY <1>1, <1>2, ServerAssumption DEF Times, Never
  <1> QED
    BY <1>4, <1>5, <1>6 DEF u

\* The deadlines of good timers are right.
LEMMA DeadlinesFollow ==
    ASSUME TypeOK, TimerInv PROVE DeadlinesRight
  <1> SUFFICES ASSUME NEW c \in Conns
               PROVE  /\ Due(c) => timer[c].ask = 0 \/ timer[c].quiet > Idle - Refresh
                      /\ worker[c] = "peek" => timer[c].quiet <= Header
                      /\ Pending(c) /\ remote => timer[c].quiet <= Idle
    BY DEF DeadlinesRight
  <1> DEFINE t == timer[c]
  <1>1. /\ t.ask \in Times /\ t.left \in Times /\ t.quiet \in 0..(Idle + Header + 1)
        /\ remote \in BOOLEAN
    BY DEF TypeOK
  <1>2. /\ Pending(c) => GoodTimer(t)
        /\ Pending(c) /\ remote = TRUE => t.left + t.quiet <= Idle
        /\ worker[c] = "peek" => t.left >= 0 /\ t.left + t.quiet <= Header
    BY DEF TimerInv, Timed, Pending
  <1> HIDE DEF t
  <1>3. /\ Pending(c) /\ t.left = 0 => t.ask = 0 \/ t.quiet > Idle - Refresh
        /\ worker[c] = "peek" => t.quiet <= Header
        /\ Pending(c) /\ remote = TRUE => t.quiet <= Idle
    BY <1>1, <1>2, ServerAssumption DEF GoodTimer, Times, Never
  <1> QED
    BY <1>1, <1>3 DEF t, Due

LEMMA Initially == Init => IInv
  <1> SUFFICES ASSUME Init PROVE IInv
    OBVIOUS
  <1> USE ServerAssumption DEF Init
  <1>1. TypeOK
    <2>1. NoTimer \in [ask : Times, left : Times, since : 0..Refresh,
                       quiet : 0..(Idle + Header + 1)]
      BY DEF NoTimer, Times, Never
    <2>2. timer \in [Conns -> [ask : Times, left : Times, since : 0..Refresh,
                                quiet : 0..(Idle + Header + 1)]]
      BY <2>1
    <2>3. slots \in 0..Limit
      OBVIOUS
    <2>4. {stopping, done, listening, remote} \subseteq BOOLEAN
      OBVIOUS
    <2>5. /\ worker \in [Conns -> {"none", "new", "busy", "idle", "tunnel", "half",
                                   "late", "peek", "inner", "upgraded", "ended"}]
          /\ open \in [Conns -> BOOLEAN]
          /\ blocked \in [Conns -> BOOLEAN] /\ hijacked \in [Conns -> BOOLEAN]
          /\ session \in [Conns -> {"none", "peek", "serve", "woken", "done"}]
      OBVIOUS
    <2> QED
      BY <2>2, <2>3, <2>4, <2>5 DEF TypeOK
  <1>2. SlotsExact
    <2>1. {c \in Conns : open[c]} = {}
      OBVIOUS
    <2> QED
      BY <2>1, FS_EmptySet DEF SlotsExact
  <1>3. OwnerKeeps /\ SessionInv /\ TimerInv
    BY DEF OwnerKeeps, SessionInv, TimerInv, Timed, Owned, Pending
  <1> QED
    BY <1>1, <1>2, <1>3 DEF IInv

-----------------------------------------------------------------------------
(***************************************************************************)
(* The steps of the process.                                                *)
(***************************************************************************)
\* Whatever leaves the connections alone.
LEMMA ConnsKept ==
    ASSUME IInv, UNCHANGED <<conns, remote>>
    PROVE  OwnerKeeps' /\ SessionInv' /\ TimerInv'
  <1> USE DEF conns, IInv
  <1>1. OwnerKeeps' /\ SessionInv'
    BY DEF OwnerKeeps, SessionInv, Owned
  <1>2. TimerInv'
    BY DEF TimerInv, Timed, Owned, Pending, GoodTimer
  <1> QED
    BY <1>1, <1>2

\* The steps of the loop, which take a slot and give it back.
LEMMA LoopKeeps ==
    ASSUME IInv,
           StartServe \/ TakeSlot \/ AcceptDone \/ AcceptClosed \/ AcceptFails
    PROVE  IInv'
  <1> USE DEF StartServe, TakeSlot, AcceptDone, AcceptClosed, AcceptFails
  <1> DEFINE n == Cardinality({c \in Conns : open[c]})
  <1>1. TypeOK /\ slots = n + (IF loop = "accept" THEN 1 ELSE 0) /\ slots <= Limit
    BY DEF IInv, SlotsExact
  <1>2. n \in Nat
    BY ServerAssumption, FS_Subset, FS_CardinalityType
  <1>3. UNCHANGED <<main, stopping, remote, conns>>
    OBVIOUS
  <1>4. /\ loop' \in {"start", "slot", "accept", "ended"}
        /\ done' \in BOOLEAN /\ listening' \in BOOLEAN
    BY <1>1 DEF TypeOK, ServeReturns
  <1>5. /\ slots' \in 0..Limit
        /\ slots' = n + (IF loop' = "accept" THEN 1 ELSE 0)
    <2> HIDE DEF n
    <2> QED
      BY <1>1, <1>2, ServerAssumption DEF TypeOK, ServeReturns
  <1>6. TypeOK'
    BY <1>1, <1>3, <1>4, <1>5 DEF TypeOK, conns
  <1>7. SlotsExact'
    BY <1>3, <1>5, ServerAssumption DEF SlotsExact, conns
  <1> QED
    BY <1>3, <1>6, <1>7, ConnsKept DEF IInv

\* The steps of ServeAfterListen and stopServer that close no connection.
LEMMA MainKeeps ==
    ASSUME IInv,
           Ready \/ Cancelled \/ ServeFailed \/ Shutdown \/ Unlisten \/ WaitForServe
             \/ Collect
    PROVE  IInv'
  <1> USE DEF Ready, Cancelled, ServeFailed, Shutdown, Unlisten, WaitForServe, Collect
  <1>1. UNCHANGED <<loop, slots, remote, conns>>
    OBVIOUS
  <1>2. TypeOK'
    BY DEF IInv, TypeOK, conns
  <1>3. SlotsExact'
    BY <1>1 DEF IInv, SlotsExact, conns
  <1> QED
    BY <1>1, <1>2, <1>3, ConnsKept DEF IInv

\* Shutdown and Close close what nobody else owns.
LEMMA DrainKeeps ==
    ASSUME IInv, Drain \/ DrainTimeout
    PROVE  IInv'
  <1> TypeOK /\ SlotsExact
    BY DEF IInv
  <1>1. PICK S \in SUBSET {c \in Conns : worker[c] \in {"new", "busy", "idle"}} : CloseAll(S)
    <2>1. CASE Drain
      <3>1. PICK T \in SUBSET Served({"new"}) : CloseAll(T \cup Served({"idle"}))
        BY <2>1 DEF Drain
      <3> QED
        BY <3>1 DEF Served
    <2>2. CASE DrainTimeout
      BY <2>2 DEF DrainTimeout, Served
    <2> QED
      BY <2>1, <2>2
  <1>2. /\ UNCHANGED <<loop, stopping, done, listening, remote,
                       worker, session, blocked, hijacked, timer>>
        /\ main' \in {"collect", "drain"}
    BY DEF Drain, DrainTimeout
  <1>3. /\ SlotsExact' /\ slots' \in 0..Limit
        /\ open' \in [Conns -> BOOLEAN]
        /\ \A c \in Conns : c \notin S => open'[c] = open[c]
        /\ \A c \in S : open'[c] = FALSE
    BY <1>1, <1>2, CloseAllKeeps
  <1>4. TypeOK'
    BY <1>2, <1>3 DEF TypeOK
  <1>5. OwnerKeeps' /\ SessionInv'
    BY <1>1, <1>2, <1>3 DEF IInv, OwnerKeeps, SessionInv, TypeOK, Owned
  <1>6. TimerInv'
    BY <1>2 DEF IInv, TimerInv, Timed, Owned, Pending, GoodTimer
  <1> QED
    BY <1>3, <1>4, <1>5, <1>6 DEF IInv

-----------------------------------------------------------------------------
(***************************************************************************)
(* The steps of a connection.                                               *)
(***************************************************************************)
\* Another connection than c.
LEMMA ElsewhereKeeps ==
    ASSUME IInv, NEW c \in Conns, NEW d \in Conns, d # c, remote' = remote,
           worker'[d] = worker[d], session'[d] = session[d],
           hijacked'[d] = hijacked[d], timer'[d] = timer[d], open'[d] = open[d],
           blocked'[d] = blocked[d]
    PROVE  /\ Owned(d)' => open'[d]
           /\ session'[d] = "woken" /\ hijacked'[d] = FALSE => worker'[d] = "ended"
           /\ worker'[d] = "none" => open'[d] = FALSE
           /\ Timed(d)'
  BY DEF IInv, OwnerKeeps, SessionInv, TimerInv, Timed, Owned, Pending, GoodTimer

\* What a step of c has to show of c for all of it.
LEMMA ConnKeeps ==
    ASSUME IInv, NEW c \in Conns, remote' = remote, TypeOK', SlotsExact',
           \A d \in Conns \ {c} :
              /\ worker'[d] = worker[d] /\ session'[d] = session[d]
              /\ hijacked'[d] = hijacked[d] /\ timer'[d] = timer[d]
              /\ open'[d] = open[d] /\ blocked'[d] = blocked[d],
           Owned(c)' => open'[c],
           session'[c] = "woken" /\ hijacked'[c] = FALSE => worker'[c] = "ended",
           worker'[c] = "none" => open'[c] = FALSE,
           Timed(c)'
    PROVE  IInv'
  <1>1. ASSUME NEW d \in Conns
        PROVE  /\ Owned(d)' => open'[d]
               /\ session'[d] = "woken" /\ hijacked'[d] = FALSE => worker'[d] = "ended"
               /\ worker'[d] = "none" => open'[d] = FALSE
               /\ Timed(d)'
    <2>1. CASE d = c
      BY <2>1
    <2>2. CASE d # c
      BY <2>2, ElsewhereKeeps
    <2> QED
      BY <2>1, <2>2
  <1>2. OwnerKeeps' /\ SessionInv'
    BY <1>1 DEF OwnerKeeps, SessionInv
  <1>3. TimerInv'
    BY <1>1 DEF TimerInv
  <1> QED
    BY <1>2, <1>3 DEF IInv

\* What IInv says of one connection.
LEMMA OfOne ==
    ASSUME IInv, NEW c \in Conns
    PROVE  /\ TypeOK /\ SlotsExact
           /\ Owned(c) => open[c] = TRUE
           /\ session[c] = "woken" /\ hijacked[c] = FALSE => worker[c] = "ended"
           /\ worker[c] = "none" => open[c] = FALSE
           /\ Timed(c) /\ (Owned(c) => GoodTimer(timer[c]))
           /\ timer[c] \in Sort
           /\ open[c] \in BOOLEAN /\ blocked[c] \in BOOLEAN
  BY DEF IInv, OwnerKeeps, SessionInv, TimerInv, Timed, TypeOK, Sort

\* Nobody owns it.
LEMMA UnownedTimed ==
    ASSUME NEW c \in Conns, ~Owned(c)', blocked'[c] = FALSE
    PROVE  Timed(c)'
  BY DEF Timed, Owned, Pending

\* Its deadlines are those of a Read or Write that begins, or were just set.
LEMMA FreshTimed ==
    ASSUME IInv, NEW c \in Conns, NEW t \in Sort, remote' = remote,
           GoodTimer(t), t.quiet = 0, timer'[c] = t, worker'[c] # "peek", Owned(c)'
    PROVE  Timed(c)'
  <1>1. GoodTimer(timer[c])'
    BY DEF GoodTimer
  <1>2. remote' = TRUE => timer'[c].left + timer'[c].quiet <= Idle
    <2>1. t.left \in Int /\ Idle \in Nat
      BY ServerAssumption DEF Sort, Times, Never
    <2> QED
      BY <2>1 DEF GoodTimer
  <1> QED
    BY <1>1, <1>2 DEF Timed

LEMMA AcceptKeeps ==
    ASSUME IInv, NEW c \in Conns, AcceptConn(c)
    PROVE  IInv'
  <1> USE DEF AcceptConn
  <1>1. TypeOK /\ SlotsExact /\ open[c] = FALSE
    BY OfOne
  <1> DEFINE A == {d \in Conns : open[d]}
  <1>2. TypeOK'
    BY <1>1 DEF TypeOK
  <1>3. SlotsExact'
    <2>1. IsFiniteSet(A) /\ Cardinality(A) \in Nat /\ c \notin A
      BY <1>1, ServerAssumption, FS_Subset, FS_CardinalityType
    <2>2. {d \in Conns : open'[d]} = A \cup {c}
      BY <1>1 DEF TypeOK
    <2>3. Cardinality(A \cup {c}) = Cardinality(A) + 1
      BY <2>1, FS_AddElement
    <2>4. slots = Cardinality(A) + 1 /\ slots <= Limit
      BY <1>1 DEF SlotsExact
    <2>5. slots' = slots /\ loop' = "slot"
      OBVIOUS
    <2>6. Cardinality({d \in Conns : open'[d]}) = Cardinality(A) + 1
      BY <2>2, <2>3
    <2>7. slots' = Cardinality({d \in Conns : open'[d]}) + (IF loop' = "accept" THEN 1 ELSE 0)
      BY <2>4, <2>5, <2>6
    <2>8. slots' <= Limit
      BY <2>4, <2>5
    <2> QED
      BY <2>7, <2>8 DEF SlotsExact
  <1>4. worker'[c] = "new" /\ session'[c] = session[c] /\ hijacked'[c] = hijacked[c]
    BY <1>1 DEF TypeOK
  <1>5. session[c] = "woken" /\ hijacked[c] = FALSE => worker[c] = "ended"
    BY OfOne
  <1>6. \A d \in Conns \ {c} :
           /\ worker'[d] = worker[d] /\ session'[d] = session[d]
           /\ hijacked'[d] = hijacked[d] /\ timer'[d] = timer[d]
           /\ open'[d] = open[d] /\ blocked'[d] = blocked[d]
    BY <1>1 DEF TypeOK
  <1>7. ~Owned(c)' /\ blocked'[c] = FALSE
    BY <1>4, OfOne DEF Timed, Owned
  <1>8. Timed(c)'
    BY <1>7, UnownedTimed
  <1> QED
    BY <1>2, <1>3, <1>4, <1>5, <1>6, <1>7, <1>8, ConnKeeps

\* Steps that close nothing: only the place, the session and the deadlines change.
LEMMA OpenStays ==
    ASSUME IInv, NEW c \in Conns, UNCHANGED <<process, remote, slots, open>>
    PROVE  SlotsExact'
  BY DEF IInv, SlotsExact, process

LEMMA ServedKeeps ==
    ASSUME IInv, NEW c \in Conns, Request(c) \/ KeepAlive(c)
    PROVE  IInv'
  <1> USE DEF Request, KeepAlive, Unchanged, process
  <1>1. TypeOK /\ (session[c] = "woken" /\ hijacked[c] = FALSE => worker[c] = "ended")
    BY OfOne
  <1>2. TypeOK'
    BY <1>1 DEF TypeOK
  <1>3. SlotsExact'
    BY OpenStays
  <1>4. worker'[c] \in {"busy", "idle"} /\ worker[c] # "ended"
    BY <1>1 DEF TypeOK
  <1>5. \A d \in Conns \ {c} : worker'[d] = worker[d]
    BY <1>1 DEF TypeOK
  <1>6. ~Owned(c)' /\ blocked'[c] = FALSE
    BY <1>4, OfOne DEF Timed, Owned
  <1>7. Timed(c)'
    BY <1>6, UnownedTimed
  <1> QED
    BY <1>1, <1>2, <1>3, <1>4, <1>5, <1>6, <1>7, ConnKeeps

LEMMA HijackKeeps ==
    ASSUME IInv, NEW c \in Conns, Hijack(c)
    PROVE  IInv'
  <1> USE DEF Hijack, Unchanged, process
  <1>1. TypeOK /\ (session[c] = "woken" /\ hijacked[c] = FALSE => worker[c] = "ended")
    BY OfOne
  <1>2. Header \in Times /\ Header # Never /\ Never \in Times
    BY ServerAssumption DEF Times, Never
  <1>3. /\ Applied(Header, 0) \in Sort /\ GoodTimer(Applied(Header, 0))
        /\ Applied(Header, 0).left >= 0 /\ Applied(Header, 0).left <= Header
        /\ Applied(Never, 0) \in Sort /\ GoodTimer(Applied(Never, 0))
    BY <1>1, <1>2, AppliedGood
  <1>4. Applied(Header, 0).quiet = 0
    BY DEF Applied
  <1>5. TypeOK'
    <2>1. PICK t \in Sort : timer' = [timer EXCEPT ![c] = t]
      BY <1>3
    <2>2. timer' \in [Conns -> Sort]
      BY <1>1, <2>1 DEF TypeOK, Sort
    <2>3. PICK kind \in {"peek", "tunnel", "upgraded"} :
             worker' = [worker EXCEPT ![c] = kind]
      OBVIOUS
    <2>4. worker' \in [Conns -> {"none", "new", "busy", "idle", "tunnel", "half",
                                 "late", "peek", "inner", "upgraded", "ended"}]
      BY <1>1, <2>3 DEF TypeOK
    <2>5. /\ session' \in [Conns -> {"none", "peek", "serve", "woken", "done"}]
          /\ blocked' \in [Conns -> BOOLEAN]
      BY <1>1 DEF TypeOK
    <2> QED
      BY <1>1, <2>2, <2>4, <2>5 DEF TypeOK, Sort
  <1>6. SlotsExact'
    BY OpenStays
  <1>7. \A d \in Conns \ {c} :
           /\ worker'[d] = worker[d] /\ session'[d] = session[d]
           /\ timer'[d] = timer[d] /\ blocked'[d] = blocked[d]
    BY <1>1 DEF TypeOK
  <1>8. /\ worker[c] = "busy" /\ open'[c] = open[c] /\ open[c]
        /\ \/ worker'[c] = "peek" /\ session'[c] = "peek" /\ timer'[c] = Applied(Header, 0)
                /\ blocked'[c] = blocked[c]
           \/ worker'[c] \in {"tunnel", "upgraded"} /\ session'[c] = session[c]
                /\ timer'[c] = Applied(Never, 0)
    BY <1>1 DEF TypeOK
  <1>9. Timed(c)'
    <2>1. CASE worker'[c] = "peek"
      <3>1. timer'[c] = Applied(Header, 0) /\ blocked'[c] = FALSE
        BY <1>8, <2>1, OfOne DEF Timed, Owned
      <3>2. GoodTimer(timer[c])'
        BY <1>3, <3>1 DEF GoodTimer
      <3>3. timer'[c].left >= 0 /\ timer'[c].left + timer'[c].quiet <= Header
        BY <1>3, <1>4, <3>1, ServerAssumption DEF Sort, Times, Never
      <3>4. remote' = TRUE => timer'[c].left + timer'[c].quiet <= Idle
        <4>1. timer'[c].left \in Int /\ timer'[c].quiet = 0 /\ Idle \in Nat
          BY <1>3, <1>4, <3>1, ServerAssumption DEF Sort, Times, Never
        <4> QED
          BY <3>2, <4>1 DEF GoodTimer
      <3> QED
        BY <3>1, <3>2, <3>3, <3>4, <2>1 DEF Timed
    <2>2. CASE worker'[c] # "peek"
      <3>1. Owned(c)' /\ timer'[c] = Applied(Never, 0) /\ Applied(Never, 0).quiet = 0
        BY <1>8, <2>2 DEF Owned, Applied
      <3> QED
        BY <1>3, <2>2, <3>1, FreshTimed
    <2> QED
      BY <2>1, <2>2
  <1>10. session'[c] = "woken" /\ hijacked'[c] = FALSE => worker'[c] = "ended"
    BY <1>1, <1>8
  <1>11. worker'[c] # "none" /\ open'[c]
    BY <1>8
  <1> QED
    BY <1>5, <1>6, <1>7, <1>9, <1>10, <1>11, ConnKeeps

\* Steps of an owner who keeps the connection.
LEMMA OwnedKeeps ==
    ASSUME IInv, NEW c \in Conns,
           Traffic(c) \/ InnerTraffic(c) \/ FirstByte(c) \/ Upgrade(c)
    PROVE  IInv'
  <1> USE DEF Traffic, InnerTraffic, FirstByte, Upgrade, Unchanged, process, Told
  <1>1. /\ TypeOK /\ (session[c] = "woken" /\ hijacked[c] = FALSE => worker[c] = "ended")
        /\ timer[c] \in Sort /\ timer[c].ask \in Times /\ (Owned(c) => GoodTimer(timer[c]))
        /\ (Owned(c) => open[c] = TRUE)
    BY OfOne DEF Sort
  <1>2. Header \in Times /\ Never \in Times
    BY ServerAssumption DEF Times, Never
  <1>3. PICK t \in Sort :
           GoodTimer(t) /\ t.quiet = 0 /\ timer' = [timer EXCEPT ![c] = t]
    <2>1. Owned(c)
      BY DEF Owned, Copied
    <2> DEFINE u == Touched(timer[c])
    <2>2. u \in Sort /\ GoodTimer(u) /\ u.quiet = 0
      BY <1>1, <2>1, TouchedGood
    <2>3. \A ask \in Times :
             /\ Applied(ask, 0) \in Sort /\ GoodTimer(Applied(ask, 0))
             /\ Applied(ask, 0).quiet = 0
      BY <1>1, AppliedGood
    <2>4. \/ timer' = [timer EXCEPT ![c] = u]
          \/ \E ask \in Times : timer' = [timer EXCEPT ![c] = Applied(ask, 0)]
      BY <1>1, <1>2
    <2> HIDE DEF u
    <2> QED
      BY <2>2, <2>3, <2>4
  <1>4. TypeOK'
    <2>1. timer' \in [Conns -> Sort]
      BY <1>1, <1>3 DEF TypeOK, Sort
    <2>2. blocked' \in [Conns -> BOOLEAN]
      BY <1>1 DEF TypeOK
    <2> QED
      BY <1>1, <2>1, <2>2 DEF TypeOK, Sort
  <1>5. SlotsExact'
    BY OpenStays
  <1>6. \A d \in Conns \ {c} :
           /\ worker'[d] = worker[d] /\ session'[d] = session[d]
           /\ hijacked'[d] = hijacked[d] /\ timer'[d] = timer[d]
           /\ blocked'[d] = blocked[d]
    BY <1>1, <1>3 DEF TypeOK
  <1>7. /\ worker'[c] \in {"tunnel", "half", "late", "upgraded", "inner"}
        /\ open'[c] = open[c] /\ open[c]
        /\ worker[c] # "ended" /\ timer'[c] = t
    BY <1>1, <1>3 DEF TypeOK, Copied, Owned
  <1>8. session'[c] = "woken" /\ hijacked'[c] = FALSE => FALSE
    BY <1>1, <1>7 DEF TypeOK, Copied
  <1>9. Owned(c)' /\ worker'[c] # "peek" /\ worker'[c] # "none"
    BY <1>7 DEF Owned
  <1>10. Timed(c)'
    BY <1>3, <1>7, <1>9, FreshTimed
  <1> QED
    BY <1>4, <1>5, <1>6, <1>7, <1>8, <1>9, <1>10, ConnKeeps

\* Its owner turns to the target, whatever the deadlines are.
LEMMA BlockKeeps ==
    ASSUME IInv, NEW c \in Conns, Block(c)
    PROVE  IInv'
  <1> USE DEF Block, Unchanged, process
  <1>1. /\ TypeOK /\ (session[c] = "woken" /\ hijacked[c] = FALSE => worker[c] = "ended")
        /\ (worker[c] = "none" => open[c] = FALSE) /\ (Owned(c) => open[c] = TRUE)
    BY OfOne
  <1>2. TypeOK'
    BY <1>1 DEF TypeOK
  <1>3. SlotsExact'
    BY OpenStays
  <1>4. /\ \A d \in Conns \ {c} : blocked'[d] = blocked[d]
        /\ blocked'[c] = TRUE
    BY <1>1 DEF TypeOK
  <1>5. Owned(c) /\ Owned(c)' /\ worker'[c] # "peek" /\ GoodTimer(timer[c])
    BY OfOne DEF Pending, Owned
  <1>6. Timed(c)'
    BY <1>4, <1>5 DEF Timed, GoodTimer, Pending
  <1> QED
    BY <1>1, <1>2, <1>3, <1>4, <1>5, <1>6, ConnKeeps

LEMMA HalfCloseKeeps ==
    ASSUME IInv, NEW c \in Conns, HalfClose(c), Elsewhere
    PROVE  IInv'
  <1> USE DEF HalfClose, Elsewhere, Unchanged, process
  <1>1. /\ TypeOK /\ (session[c] = "woken" /\ hijacked[c] = FALSE => worker[c] = "ended")
        /\ worker[c] = "tunnel" /\ Owned(c) /\ open[c] = TRUE
        /\ Timed(c) /\ GoodTimer(timer[c])
    BY OfOne DEF Owned
  <1>2. TypeOK'
    BY <1>1 DEF TypeOK
  <1>3. SlotsExact'
    BY OpenStays
  <1>4. /\ worker'[c] \in {"half", "late"} /\ open'[c] = TRUE
        /\ session'[c] = session[c] /\ hijacked'[c] = hijacked[c]
        /\ blocked[c] = TRUE => blocked'[c] = TRUE
    BY <1>1 DEF TypeOK
  <1>5. \A d \in Conns \ {c} : worker'[d] = worker[d] /\ blocked'[d] = blocked[d]
    BY <1>1 DEF TypeOK
  <1>6. Pending(c)' => Pending(c)
    BY <1>1, <1>4 DEF Pending, TypeOK
  <1>7. GoodTimer(timer[c])'
    BY <1>1 DEF GoodTimer
  <1>8. Timed(c)'
    BY <1>1, <1>4, <1>6, <1>7 DEF Timed, Owned
  <1>9. Owned(c)' /\ worker'[c] # "none"
    BY <1>4 DEF Owned
  <1> QED
    BY <1>1, <1>2, <1>3, <1>4, <1>5, <1>8, <1>9, ConnKeeps

\* Steps that close the connection.
LEMMA ClosedKeeps ==
    ASSUME IInv, NEW c \in Conns,
           ServerEnds(c) \/ SessionReturns(c)
             \/ (Elsewhere /\ (BothOver(c) \/ OwnerEnds(c) \/ PeekEnds(c)))
    PROVE  IInv'
  <1> USE DEF ServerEnds, SessionReturns, BothOver, OwnerEnds, PeekEnds, Forget,
              Unchanged, Elsewhere
  <1>1. /\ TypeOK /\ SlotsExact
        /\ (session[c] = "woken" /\ hijacked[c] = FALSE => worker[c] = "ended")
        /\ (Owned(c) => open[c] = TRUE)
        /\ timer[c] \in Sort /\ Timed(c)
    BY OfOne
  <1>2. UNCHANGED <<process, remote, hijacked>>
    OBVIOUS
  <1>3. /\ SlotsExact' /\ slots' \in 0..Limit /\ open' \in [Conns -> BOOLEAN]
        /\ \A d \in Conns \ {c} : open'[d] = open[d]
        /\ CloseAll({c}) \/ (hijacked[c] = TRUE /\ UNCHANGED open)
    <2>1. CASE CloseAll({c})
      BY <1>1, <1>2, <2>1, CloseAllKeeps DEF process
    <2>2. CASE ~CloseAll({c})
      <3>1. hijacked[c] = TRUE /\ UNCHANGED <<open, slots, process>>
        BY <1>1, <2>2 DEF TypeOK
      <3> QED
        BY <1>1, <3>1 DEF SlotsExact, TypeOK, process
    <2> QED
      BY <2>1, <2>2
  <1>4. /\ worker' \in [Conns -> {"none", "new", "busy", "idle", "tunnel", "half",
                                  "late", "peek", "inner", "upgraded", "ended"}]
        /\ session' \in [Conns -> {"none", "peek", "serve", "woken", "done"}]
        /\ \A d \in Conns \ {c} : worker'[d] = worker[d] /\ session'[d] = session[d]
    BY <1>1 DEF TypeOK, Woken
  <1>5. /\ timer' \in [Conns -> Sort] /\ blocked' \in [Conns -> BOOLEAN]
        /\ \A d \in Conns \ {c} : timer'[d] = timer[d] /\ blocked'[d] = blocked[d]
    <2>1. NoTimer \in Sort
      BY ServerAssumption DEF Sort, Times, Never, NoTimer
    <2>2. timer \in [Conns -> Sort] /\ blocked \in [Conns -> BOOLEAN]
      BY <1>1 DEF TypeOK, Sort
    <2>3. \/ UNCHANGED <<timer, blocked>>
          \/ /\ timer' = [timer EXCEPT ![c] = NoTimer]
             /\ blocked' = [blocked EXCEPT ![c] = FALSE]
      OBVIOUS
    <2> QED
      BY <2>1, <2>2, <2>3
  <1>6. TypeOK'
    BY <1>1, <1>2, <1>3, <1>4, <1>5 DEF TypeOK, Sort, process
  <1>7. CASE worker'[c] = "ended"
    <2>1. ~Owned(c)'
      BY <1>7 DEF Owned
    <2>2. blocked'[c] = FALSE
      BY <1>1, <1>7 DEF Timed, Owned, TypeOK
    <2>3. Timed(c)'
      BY <2>1, <2>2, UnownedTimed
    <2> QED
      BY <1>2, <1>3, <1>4, <1>5, <1>6, <1>7, <2>1, <2>3, ConnKeeps
  <1>8. CASE SessionReturns(c) /\ worker[c] # "ended"
    <2>1. /\ hijacked[c] = TRUE /\ UNCHANGED <<open, worker, blocked, timer, hijacked>>
          /\ session'[c] = "done"
      BY <1>1, <1>8 DEF TypeOK
    <2>2. Timed(c)'
      BY <1>1, <1>2, <2>1 DEF Timed, GoodTimer, Owned, Pending
    <2>3. (worker'[c] = "none" => open'[c] = FALSE) /\ (Owned(c)' => open'[c])
      BY <2>1, OfOne DEF Owned
    <2> QED
      BY <1>2, <1>3, <1>4, <1>5, <1>6, <2>1, <2>2, <2>3, ConnKeeps
  <1> QED
    BY <1>1, <1>7, <1>8 DEF TypeOK

\* Time passes for all connections; no deadline is passed over.
LEMMA TickKeeps ==
    ASSUME IInv, Tick
    PROVE  IInv'
  <1> USE DEF Tick, process
  <1>1. TypeOK /\ timer \in [Conns -> Sort]
    BY DEF IInv, TypeOK, Sort
  <1>2. timer' \in [Conns -> Sort]
    BY <1>1, LaterGood
  <1>3. TypeOK'
    BY <1>1, <1>2 DEF TypeOK, Sort
  <1>4. SlotsExact' /\ OwnerKeeps' /\ SessionInv'
    BY DEF IInv, SlotsExact, OwnerKeeps, SessionInv, Owned
  <1>5. TimerInv'
    <2> SUFFICES ASSUME NEW c \in Conns PROVE Timed(c)'
      BY DEF TimerInv
    <2>1. CASE ~Owned(c)
      <3>1. ~Owned(c)' /\ blocked'[c] = FALSE
        BY <2>1, OfOne DEF Timed, Owned
      <3> QED
        BY <3>1, UnownedTimed
    <2>2. CASE Owned(c)
      <3> DEFINE t == timer[c]
                 u == Later(t)
      <3>1. /\ t \in Sort /\ GoodTimer(t) /\ Timed(c) /\ timer'[c] = u
        BY <1>1, <2>2, OfOne
      <3>2. /\ u \in Sort /\ GoodTimer(u)
            /\ t.left > 0 => u.left = t.left - 1
            /\ u.quiet <= t.quiet + 1
        BY <1>1, <3>1, LaterGood
      <3>3. t.left \in Int /\ t.quiet \in Int /\ u.quiet \in Int /\ {Header, Idle} \subseteq Nat
        BY <3>1, <3>2, ServerAssumption DEF Sort, Times, Never
      <3>4. GoodTimer(timer[c])'
        BY <3>1, <3>2 DEF GoodTimer
      <3> HIDE DEF t, u
      <3>5. (Owned(c)' <=> Owned(c)) /\ (Pending(c)' <=> Pending(c))
        BY DEF Owned, Pending
      <3>6. Pending(c) => t.left # 0
        BY DEF Due, t
      <3>7. Pending(c) /\ remote = TRUE => u.left + u.quiet <= Idle
        <4> SUFFICES ASSUME Pending(c), remote = TRUE PROVE u.left + u.quiet <= Idle
          OBVIOUS
        <4>1. t.left + t.quiet <= Idle /\ t.left \in 0..Idle
          BY <3>1 DEF Timed, GoodTimer, t
        <4> QED
          BY <3>2, <3>3, <3>6, <4>1
      <3>8. worker[c] = "peek" =>
               u.left >= 0 /\ u.left + u.quiet <= Header /\ blocked[c] = FALSE
        <4> SUFFICES ASSUME worker[c] = "peek"
                     PROVE  u.left >= 0 /\ u.left + u.quiet <= Header /\ blocked[c] = FALSE
          OBVIOUS
        <4>1. t.left >= 0 /\ t.left + t.quiet <= Header /\ blocked[c] = FALSE
          BY <3>1 DEF Timed, t
        <4>2. Pending(c)
          BY <2>2, <4>1 DEF Pending
        <4> QED
          BY <3>2, <3>3, <3>6, <4>1, <4>2
      <3> QED
        BY <2>2, <3>1, <3>4, <3>5, <3>7, <3>8 DEF Timed
    <2> QED
      BY <2>1, <2>2
  <1> QED
    BY <1>3, <1>4, <1>5 DEF IInv

LEMMA StutterKeeps ==
    ASSUME IInv, UNCHANGED vars
    PROVE  IInv'
  <1>1. OwnerKeeps' /\ SessionInv' /\ TimerInv'
    BY ConnsKept DEF vars
  <1>2. TypeOK' /\ SlotsExact'
    BY DEF vars, process, conns, IInv, TypeOK, SlotsExact
  <1> QED
    BY <1>1, <1>2 DEF IInv

-----------------------------------------------------------------------------
(***************************************************************************)
(* The theorems.                                                            *)
(***************************************************************************)
LEMMA NextKeeps ==
    ASSUME IInv, [Next]_vars
    PROVE  IInv'
  <1>1. CASE LoopStep \/ AcceptFails
    BY <1>1, LoopKeeps DEF LoopStep
  <1>2. CASE Ready \/ Cancelled \/ ServeFailed \/ StopStep \/ Drain
    BY <1>2, MainKeeps, DrainKeeps DEF StopStep
  <1>3. ASSUME NEW c \in Conns,
               \/ AcceptConn(c) \/ Request(c) \/ KeepAlive(c) \/ Handover(c)
               \/ Traffic(c) \/ Block(c) \/ InnerTraffic(c)
        PROVE  IInv'
    BY <1>3, AcceptKeeps, ServedKeeps, HijackKeeps, OwnedKeeps, BlockKeeps DEF Handover
  <1>4. ASSUME NEW c \in Conns, Ending(c) \/ SessionReturns(c)
        PROVE  IInv'
    <2>1. CASE Elsewhere /\ HalfClose(c)
      BY <2>1, HalfCloseKeeps
    <2>2. CASE \/ ServerEnds(c) \/ SessionReturns(c)
               \/ Elsewhere /\ (BothOver(c) \/ OwnerEnds(c) \/ PeekEnds(c))
      BY <2>2, ClosedKeeps
    <2> QED
      BY <1>4, <2>1, <2>2 DEF Ending, PeerEnds, Expire, TunnelEnds
  <1>5. CASE Tick
    BY <1>5, TickKeeps
  <1>6. CASE UNCHANGED vars
    BY <1>6, StutterKeeps
  <1> QED
    BY <1>1, <1>2, <1>3, <1>4, <1>5, <1>6 DEF Next

\* The invariant holds for every set of connections, limit and lengths of time.
THEOREM Invariance == Spec => []IInv
  BY Initially, NextKeeps, PTL DEF Spec

\* Every variable keeps its sort.
THEOREM TypeCorrect == Spec => []TypeOK
  <1>1. IInv => TypeOK
    BY DEF IInv
  <1> QED
    BY Invariance, <1>1, PTL

\* limitListener and trackedConn count every open connection once.
THEOREM SlotsCorrect == Spec => []SlotsExact
  <1>1. IInv => SlotsExact
    BY DEF IInv
  <1> QED
    BY Invariance, <1>1, PTL

\* Neither stopServer nor serveMITM closes a connection that another one owns.
THEOREM OwnerCorrect == Spec => []OwnerKeeps
  <1>1. IInv => OwnerKeeps
    BY DEF IInv
  <1> QED
    BY Invariance, <1>1, PTL

\* The deadlines of trackedConn cut a quiet connection in time while its owner waits
\* for the client, and no other one.
THEOREM DeadlinesCorrect == Spec => []DeadlinesRight
  <1>1. IInv => DeadlinesRight
    BY DeadlinesFollow DEF IInv
  <1> QED
    BY Invariance, <1>1, PTL
==============================================================================
