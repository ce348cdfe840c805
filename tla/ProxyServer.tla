------------------------------ MODULE ProxyServer ------------------------------
(***************************************************************************)
(* The server of both proxies: ServeAfterListen and stopServer of           *)
(* internal/proxycore/proxy.go, the limited listener and its connections    *)
(* (listener.go), and the intercepted session of serveMITM (mitm.go).       *)
(*                                                                          *)
(* What net/http and goproxy do with a connection is modelled as the code   *)
(* here relies on it: a server that closes its connections, and a           *)
(* hijacker that owns what it was given.  "worker" is the goroutine that    *)
(* owns a connection; serveMITM is a second goroutine beside the inner      *)
(* server's.  Time is counted for hijacked connections only, in deadlines   *)
(* that count down.  A deadline ends a Read or Write of the connection that *)
(* is pending when it is due, and no tick passes over that; nothing ends    *)
(* the wait of an owner for his target, whose connection has no deadlines.  *)
(***************************************************************************)
EXTENDS Integers, FiniteSets

CONSTANTS
    Conns,    \* client connections, each of which arrives once
    Limit,    \* maxConnections
    Idle,     \* remoteTunnelIdleTimeout, in ticks
    Header,   \* headerTimeout, in ticks
    Refresh   \* how old deadlines are before touch renews them

ASSUME ServerAssumption ==
    /\ IsFiniteSet(Conns)
    /\ Limit \in Nat \ {0}
    /\ Idle \in Nat \ {0} /\ Header \in Nat \ {0} /\ Refresh \in 1..Idle

VARIABLES
    main,      \* where ServeAfterListen is
    loop,      \* where Server.Serve is
    stopping,  \* Server.inShutdown
    done,      \* limitListener.done is closed
    listening, \* the raw listener is open
    slots,     \* the length of limitListener.slots
    remote,    \* Options.RemoteClients: limitListener.idle is set
    worker,    \* who has a connection
    open,      \* a connection was accepted and not closed
    session,   \* where serveMITM is
    blocked,   \* its owner waits for the target only, with no Read or Write of
               \* the connection pending
    hijacked,  \* serveMITM's variable
    timer      \* the deadlines of trackedConn

process == <<main, loop, stopping, done, listening>>
conns   == <<worker, open, session, blocked, hijacked, timer>>
vars    == <<process, slots, remote, conns>>

\* The zero time.
Never == -1

\* ask: the caller's read deadline; left: the one in force; since: the age of
\* refreshed; quiet (history): how long no Read or Write was begun and no deadline
\* was set.
NoTimer == [ask |-> Never, left |-> Never, since |-> 0, quiet |-> 0]

Init ==
    /\ main = "ready" /\ loop = "start"
    /\ stopping = FALSE /\ done = FALSE /\ listening = TRUE
    /\ slots = 0
    /\ remote \in BOOLEAN
    /\ worker = [c \in Conns |-> "none"]
    /\ open = [c \in Conns |-> FALSE]
    /\ session = [c \in Conns |-> "none"]
    /\ blocked = [c \in Conns |-> FALSE]
    /\ hijacked = [c \in Conns |-> FALSE]
    /\ timer = [c \in Conns |-> NoTimer]

(***************************************************************************)
(* Helpers.  A definition named Bug... is its successor with a mistake that *)
(* the properties have to notice; no action uses it.                        *)
(***************************************************************************)
\* trackedConn.Close gives the slot back once, however often it is called.
BugEveryClose(S) == Cardinality(S)

Released(S) == Cardinality({c \in S : open[c]})

CloseAll(S) ==
    /\ open' = [c \in Conns |-> open[c] /\ c \notin S]
    /\ slots' = slots - Released(S)

\* Accept wakes up when the listener is closed, also while it waits for a slot.
BugWaitsForSlot == done /\ slots < Limit

WakesUp == done

BugIgnoreCaller(deadline, limit) == limit

Earliest(deadline, limit) ==
    IF deadline = Never \/ limit < deadline THEN limit ELSE deadline

\* applyLocked, of a connection with idleEnabled in remote mode.
Applied(ask, quiet) ==
    [ask |-> ask, left |-> IF remote THEN Earliest(ask, Idle) ELSE ask,
     since |-> 0, quiet |-> quiet]

\* touch, at the begin of a Read or Write.
BugNeverRefreshed(t) == [t EXCEPT !.quiet = 0]

Touched(t) ==
    IF remote /\ t.since >= Refresh THEN Applied(t.ask, 0)
                                    ELSE [t EXCEPT !.quiet = 0]

\* The hook of the inner server tells serveMITM who owns the connection.
BugNotTold(c) == hijacked[c]

Told(c) == TRUE

\* ... and, when the connection is over, ends its Accept.
BugAsleep(c) == session[c]

Woken(c) == IF session[c] = "serve" THEN "woken" ELSE session[c]

(***************************************************************************)
(* Server.Serve over limitListener.Accept                                   *)
(***************************************************************************)
\* Between trackListener's two calls.
Tracked == loop \in {"slot", "accept"}

\* Serve returns and closes the listener.
ServeReturns ==
    /\ loop' = "ended"
    /\ done' = TRUE /\ listening' = FALSE

StartServe ==
    /\ loop = "start"
    /\ IF stopping THEN ServeReturns
                   ELSE loop' = "slot" /\ UNCHANGED <<done, listening>>
    /\ UNCHANGED <<main, stopping, slots, remote, conns>>

TakeSlot ==
    /\ loop = "slot" /\ slots < Limit
    /\ slots' = slots + 1
    /\ loop' = "accept"
    /\ UNCHANGED <<main, stopping, done, listening, remote, conns>>

AcceptDone ==
    /\ loop = "slot" /\ WakesUp
    /\ ServeReturns
    /\ UNCHANGED <<main, stopping, slots, remote, conns>>

AcceptConn(c) ==
    /\ loop = "accept" /\ listening
    /\ worker[c] = "none"
    /\ worker' = [worker EXCEPT ![c] = "new"]
    /\ open' = [open EXCEPT ![c] = TRUE]
    /\ loop' = "slot"
    /\ UNCHANGED <<main, stopping, done, listening, slots, remote,
                   session, blocked, hijacked, timer>>

AcceptClosed ==
    /\ loop = "accept" /\ ~listening
    /\ slots' = slots - 1
    /\ ServeReturns
    /\ UNCHANGED <<main, stopping, remote, conns>>

\* The system refuses a connection: Serve tries again, or ends.
AcceptFails ==
    /\ loop = "accept" /\ listening
    /\ slots' = slots - 1
    /\ \/ ServeReturns
       \/ ~stopping /\ loop' = "slot" /\ UNCHANGED <<done, listening>>
    /\ UNCHANGED <<main, stopping, remote, conns>>

(***************************************************************************)
(* ServeAfterListen and stopServer                                          *)
(***************************************************************************)
\* onReady fails, or the program goes on to the select.
Ready ==
    /\ main = "ready"
    /\ main' \in {"serving", "stop"}
    /\ UNCHANGED <<loop, stopping, done, listening, slots, remote, conns>>

Cancelled ==
    /\ main = "serving"
    /\ main' = "stop"
    /\ UNCHANGED <<loop, stopping, done, listening, slots, remote, conns>>

ServeFailed ==
    /\ main = "serving" /\ loop = "ended"
    /\ main' = "returned"
    /\ UNCHANGED <<loop, stopping, done, listening, slots, remote, conns>>

\* Shutdown closes the listener, which closes done first, if Serve has begun.
Shutdown ==
    /\ main = "stop"
    /\ stopping' = TRUE
    /\ done' = (done \/ Tracked)
    /\ main' = "unlisten"
    /\ UNCHANGED <<loop, listening, slots, remote, conns>>

Unlisten ==
    /\ main = "unlisten"
    /\ listening' = (listening /\ ~done)
    /\ main' = "wait"
    /\ UNCHANGED <<loop, stopping, done, slots, remote, conns>>

\* Shutdown waits for Serve without a limit,
WaitForServe ==
    /\ main = "wait" /\ ~Tracked
    /\ main' = "drain"
    /\ UNCHANGED <<loop, stopping, done, listening, slots, remote, conns>>

Served(places) == {c \in Conns : open[c] /\ worker[c] \in places}

\* then closes what is idle or new for long until nothing else is left,
Drain ==
    /\ main = "drain"
    /\ \E S \in SUBSET Served({"new"}) :
          LET closed == S \cup Served({"idle"}) IN
          /\ CloseAll(closed)
          /\ main' = IF Served({"new", "busy", "idle"}) = closed
                     THEN "collect" ELSE "drain"
    /\ UNCHANGED <<loop, stopping, done, listening, remote,
                   worker, session, blocked, hijacked, timer>>

\* or until ten seconds are over, when Close closes everything it tracks.
DrainTimeout ==
    /\ main = "drain"
    /\ CloseAll(Served({"new", "busy", "idle"}))
    /\ main' = "collect"
    /\ UNCHANGED <<loop, stopping, done, listening, remote,
                   worker, session, blocked, hijacked, timer>>

Collect ==
    /\ main = "collect" /\ loop = "ended"
    /\ main' = "returned"
    /\ UNCHANGED <<loop, stopping, done, listening, slots, remote, conns>>

(***************************************************************************)
(* A connection at the server                                               *)
(***************************************************************************)
Unchanged == UNCHANGED <<process, remote>>

Request(c) ==
    /\ worker[c] \in {"new", "idle"} /\ open[c]
    /\ worker' = [worker EXCEPT ![c] = "busy"]
    /\ Unchanged /\ UNCHANGED <<slots, open, session, blocked, hijacked, timer>>

KeepAlive(c) ==
    /\ worker[c] = "busy" /\ open[c] /\ ~stopping
    /\ worker' = [worker EXCEPT ![c] = "idle"]
    /\ Unchanged /\ UNCHANGED <<slots, open, session, blocked, hijacked, timer>>

\* Its goroutine closes the connection, which the server may have done before.
ServerEnds(c) ==
    /\ worker[c] \in {"new", "busy", "idle"}
    /\ worker' = [worker EXCEPT ![c] = "ended"]
    /\ CloseAll({c})
    /\ Unchanged /\ UNCHANGED <<session, blocked, hijacked, timer>>

\* A CONNECT that is tunneled or intercepted, or a WebSocket: hijacking clears
\* the deadlines, and ConnState calls enableIdle.  A tunnel is dialed first.
Hijack(c) ==
    /\ worker[c] = "busy" /\ open[c]
    /\ \/ /\ worker' = [worker EXCEPT ![c] = "peek"]
          /\ session' = [session EXCEPT ![c] = "peek"]
          /\ timer' = [timer EXCEPT ![c] = Applied(Header, 0)]
          /\ UNCHANGED blocked
       \/ /\ \E kind \in {"tunnel", "upgraded"} :
                worker' = [worker EXCEPT ![c] = kind]
          /\ timer' = [timer EXCEPT ![c] = Applied(Never, 0)]
          /\ blocked' = [blocked EXCEPT ![c] = TRUE]
          /\ UNCHANGED session
    /\ Unchanged /\ UNCHANGED <<slots, open, hijacked>>

(***************************************************************************)
(* A hijacked connection                                                    *)
(***************************************************************************)
\* Of a tunnel the two copies are left, or the one from the target ("half": the
\* client's direction is over), or the one to it ("late").
Owned(c) == worker[c] \in {"tunnel", "half", "late", "peek", "inner", "upgraded"}

Pending(c) == Owned(c) /\ ~blocked[c]

\* A Read or Write that is pending is due, and returns with an error.
Due(c) == Pending(c) /\ timer[c].left = 0

Copied(c) == worker[c] \in {"tunnel", "half", "late", "upgraded"}

\* A Read or Write begins.
Traffic(c) ==
    /\ Copied(c)
    /\ timer' = [timer EXCEPT ![c] = Touched(@)]
    /\ blocked' = [blocked EXCEPT ![c] = FALSE]
    /\ Unchanged /\ UNCHANGED <<slots, worker, open, session, hijacked>>

\* What was pending returned, and the owner is in a Write to a target that does not
\* read or waits for what the target sends.
Block(c) ==
    /\ Pending(c) /\ worker[c] # "peek" /\ ~Due(c)
    /\ blocked' = [blocked EXCEPT ![c] = TRUE]
    /\ Unchanged /\ UNCHANGED <<slots, worker, open, session, hijacked, timer>>

\* The first byte: the header deadline is taken back, and an inner server has
\* the connection.
FirstByte(c) ==
    /\ worker[c] = "peek" /\ open[c]
    /\ worker' = [worker EXCEPT ![c] = "inner"]
    /\ session' = [session EXCEPT ![c] = "serve"]
    /\ timer' = [timer EXCEPT ![c] = Applied(Never, 0)]
    /\ Unchanged /\ UNCHANGED <<slots, open, blocked, hijacked>>

\* The inner server reads or writes, and sets its deadlines as it does: one for
\* writing leaves the one for reading alone.
InnerTraffic(c) ==
    /\ worker[c] = "inner" /\ open[c]
    /\ \/ /\ timer' = [timer EXCEPT ![c] = Touched(@)]
          /\ blocked' = [blocked EXCEPT ![c] = FALSE]
       \/ /\ \E ask \in {Never, Header, timer[c].ask} :
                timer' = [timer EXCEPT ![c] = Applied(ask, 0)]
          /\ UNCHANGED blocked
    /\ Unchanged /\ UNCHANGED <<slots, worker, open, session, hijacked>>

\* A WebSocket in the session: StateHijacked.
Upgrade(c) ==
    /\ worker[c] = "inner" /\ open[c]
    /\ worker' = [worker EXCEPT ![c] = "upgraded"]
    /\ hijacked' = [hijacked EXCEPT ![c] = Told(c)]
    /\ session' = [session EXCEPT ![c] = "woken"]
    /\ timer' = [timer EXCEPT ![c] = Applied(Never, 0)]
    /\ Unchanged /\ UNCHANGED <<slots, open, blocked>>

\* One direction of a tunnel is over and closed, which keeps the slot.
HalfClose(c) ==
    /\ worker[c] = "tunnel"
    /\ \E rest \in {"half", "late"} : worker' = [worker EXCEPT ![c] = rest]
    /\ \E b \in BOOLEAN : (blocked[c] => b) /\ blocked' = [blocked EXCEPT ![c] = b]
    /\ UNCHANGED <<slots, open, session, timer>>

Forget(c) ==
    /\ timer' = [timer EXCEPT ![c] = NoTimer]
    /\ blocked' = [blocked EXCEPT ![c] = FALSE]

\* The other direction is over, or the dial of the tunnel failed.
BothOver(c) ==
    /\ worker[c] \in {"tunnel", "half", "late"}
    /\ worker' = [worker EXCEPT ![c] = "ended"]
    /\ CloseAll({c}) /\ Forget(c)
    /\ UNCHANGED session

\* The owner closes the connection; of an inner server, StateClosed follows.
OwnerEnds(c) ==
    /\ worker[c] \in {"inner", "upgraded"}
    /\ worker' = [worker EXCEPT ![c] = "ended"]
    /\ session' = [session EXCEPT ![c] = Woken(c)]
    /\ CloseAll({c}) /\ Forget(c)

\* No first byte: serveMITM closes the connection.
PeekEnds(c) ==
    /\ worker[c] = "peek"
    /\ worker' = [worker EXCEPT ![c] = "ended"]
    /\ session' = [session EXCEPT ![c] = "done"]
    /\ CloseAll({c}) /\ Forget(c)

Elsewhere == Unchanged /\ UNCHANGED hijacked

\* A pending Read or Write returns at the deadline in force, and ends a tunnel's
\* direction or the whole connection,
Expire(c) ==
    /\ Due(c)
    /\ \/ HalfClose(c) \/ OwnerEnds(c) \/ PeekEnds(c)
       \/ worker[c] # "tunnel" /\ BothOver(c)
    /\ Elsewhere

\* or one of the peers closes, or there is an error.
PeerEnds(c) ==
    /\ ~Due(c)
    /\ HalfClose(c) \/ OwnerEnds(c) \/ PeekEnds(c)
    /\ Elsewhere

TunnelEnds(c) == BothOver(c) /\ Elsewhere

\* The inner Serve returns; its deferred call closes what was not hijacked.
SessionReturns(c) ==
    /\ session[c] = "woken"
    /\ session' = [session EXCEPT ![c] = "done"]
    /\ IF hijacked[c] THEN UNCHANGED <<open, slots>> ELSE CloseAll({c})
    /\ Unchanged /\ UNCHANGED <<worker, blocked, hijacked, timer>>

Later(t) ==
    LET less(n) == IF n > 0 THEN n - 1 ELSE n IN
    [ask |-> less(t.ask), left |-> less(t.left),
     since |-> IF t.since < Refresh THEN t.since + 1 ELSE t.since,
     quiet |-> IF t.quiet <= Idle + Header THEN t.quiet + 1 ELSE t.quiet]

Tick ==
    /\ \A c \in Conns : ~Due(c)
    /\ \E c \in Conns : Owned(c)
    /\ timer' = [c \in Conns |-> IF Owned(c) THEN Later(timer[c]) ELSE timer[c]]
    /\ UNCHANGED <<process, slots, remote, worker, open, session, blocked, hijacked>>

-----------------------------------------------------------------------------
LoopStep == StartServe \/ TakeSlot \/ AcceptDone \/ AcceptClosed

StopStep == Shutdown \/ Unlisten \/ WaitForServe \/ DrainTimeout \/ Collect

Handover(c) == Hijack(c) \/ FirstByte(c) \/ Upgrade(c)

Ending(c) == ServerEnds(c) \/ PeerEnds(c) \/ Expire(c) \/ TunnelEnds(c)

Next ==
    \/ LoopStep \/ AcceptFails
    \/ Ready \/ Cancelled \/ ServeFailed \/ StopStep \/ Drain
    \/ \E c \in Conns :
          \/ AcceptConn(c) \/ Request(c) \/ KeepAlive(c) \/ Handover(c)
          \/ Traffic(c) \/ Block(c) \/ InnerTraffic(c) \/ Ending(c) \/ SessionReturns(c)
    \/ Tick

Spec == Init /\ [][Next]_vars

\* The goroutines of the program go on and so does time.  Nothing is asked of
\* clients, nor of targets but that one whose input was closed ends its output.
FairSpec ==
    /\ Spec
    /\ WF_vars(LoopStep) /\ WF_vars(StopStep) /\ WF_vars(Tick)
    /\ \A c \in Conns :
          /\ WF_vars(Expire(c)) /\ WF_vars(SessionReturns(c))
          /\ WF_vars(worker[c] = "half" /\ TunnelEnds(c))

-----------------------------------------------------------------------------
(***************************************************************************)
(* Properties                                                               *)
(***************************************************************************)
Times == Never..(Idle + Header)

\* The sorts of the variables.
TypeOK ==
    /\ main \in {"ready", "serving", "stop", "unlisten", "wait", "drain",
                 "collect", "returned"}
    /\ loop \in {"start", "slot", "accept", "ended"}
    /\ {stopping, done, listening, remote} \subseteq BOOLEAN
    /\ slots \in 0..Limit
    /\ worker \in [Conns -> {"none", "new", "busy", "idle", "tunnel", "half",
                             "late", "peek", "inner", "upgraded", "ended"}]
    /\ open \in [Conns -> BOOLEAN]
    /\ blocked \in [Conns -> BOOLEAN] /\ hijacked \in [Conns -> BOOLEAN]
    /\ session \in [Conns -> {"none", "peek", "serve", "woken", "done"}]
    /\ timer \in [Conns -> [ask : Times, left : Times, since : 0..Refresh,
                            quiet : 0..(Idle + Header + 1)]]

\* Every open connection has one slot and Accept one more while it waits for a
\* connection: over failed accepts, hijacks, half-closed tunnels, and connections
\* that are closed twice (by Shutdown and their goroutine, by the inner server and
\* serveMITM).
SlotsExact ==
    /\ slots = Cardinality({c \in Conns : open[c]}) + (IF loop = "accept" THEN 1 ELSE 0)
    /\ slots <= Limit

\* Who was given a connection keeps it until he closes it himself: neither a
\* shutdown of the server nor the deferred call of serveMITM, which runs while a
\* WebSocket uses the connection, closes it.
OwnerKeeps ==
    \A c \in Conns : Owned(c) => open[c]

\* No connection that is used is cut: what is pending is due only if the caller set
\* the deadline or if no Read or Write was begun for the idle time, but for the
\* precision of touch.  And every quiet one is: a session gets its first byte within
\* the header timeout, and with remote clients a Read or Write pends for the idle
\* time at most, whatever deadlines were set, taken back or passed over before.
DeadlinesRight ==
    \A c \in Conns :
        /\ Due(c) => timer[c].ask = 0 \/ timer[c].quiet > Idle - Refresh
        /\ worker[c] = "peek" => timer[c].quiet <= Header
        /\ Pending(c) /\ remote => timer[c].quiet <= Idle

\* A stop ends, also when all slots are taken by tunnels that nobody closes: the
\* listener wakes its Accept, for which Shutdown waits.
StopEnds == main = "stop" ~> main = "returned"

\* No deadline ends the wait for a target that is still to be written to.
Stuck(c) == Owned(c) /\ blocked[c] /\ worker[c] # "half"

\* Of a connection with remote clients that goes quiet and of one that is over, the
\* slot comes back and the session returns, unless it is used again or its owner
\* waits for the target.
SlotComesBack ==
    \A c \in Conns :
        \/ remote /\ timer[c].quiet > 0
        \/ worker[c] = "ended"
        ~> \/ ~open[c] /\ session[c] \in {"none", "done"}
           \/ Owned(c) /\ timer[c].quiet = 0
           \/ Stuck(c)
=============================================================================
