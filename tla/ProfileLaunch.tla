---------------------------- MODULE ProfileLaunch ----------------------------
(***************************************************************************)
(* "lemmingd firefox URL" processes that share one Firefox profile          *)
(* (internal/firefox/firefox.go and lock_unix.go, and the end of run in     *)
(* cmd/lemmingd/main.go).                                                   *)
(*                                                                          *)
(* A launcher is one process, from its launch to its end, and its name      *)
(* stands for its lease token and its Firefox as well.  Strangers are       *)
(* Firefox processes that people start with the profile.  Firefox's native  *)
(* lock is one lock; the probe of fcntlLockHeld takes it for an instant.    *)
(* What Firefox does at a taken lock is not in the source: it exits.        *)
(* Killing a child process does not fail.                                   *)
(***************************************************************************)
EXTENDS Integers, FiniteSets

CONSTANTS Launchers, Strangers, Torn, None

ASSUME ProcessAssumption ==
    /\ Launchers \cap Strangers = {}
    /\ None \notin Launchers \cup Strangers
    /\ Torn \notin Launchers /\ Torn # None

VARIABLES
    \* the profile directory
    prep,    \* the process that made .lemmingd-firefox.prepare, or None
    lease,   \* whose token .lemmingd-firefox.lock has; Torn if none; or None
    native,  \* the Firefox that holds the profile's native lock, or None
    probe,   \* the launcher whose probe holds it, or None
    \* processes
    pc,      \* each launcher: prepareAndLaunch, then Browser.Close
    watch,   \* each launcher: the goroutine that waits for Firefox's exit
    browser, \* each Firefox
    \* history
    loose    \* the launchers' Firefoxes that had not reached the native lock
             \* when their preparation directory was removed

profile == <<prep, lease>>
locks   == <<native, probe>>
vars    == <<profile, locks, pc, watch, browser, loose>>

Browsers == Launchers \cup Strangers

Init ==
    /\ prep = None /\ lease = None
    /\ native = None /\ probe = None
    /\ pc = [l \in Launchers |-> "new"]
    /\ watch = [l \in Launchers |-> "off"]
    /\ browser = [b \in Browsers |-> "none"]
    /\ loose = {}

At(l, place)   == pc[l] = place
Goto(l, place) == pc' = [pc EXCEPT ![l] = place]
Watch(l, s)    == watch' = [watch EXCEPT ![l] = s]

Alive(b) == browser[b] \in {"starting", "running"}
Gone(l)  == pc[l] \in {"failed", "ended", "dead"}

(***************************************************************************)
(* Helpers.  A definition named Bug... is its successor with a mistake that *)
(* the properties have to notice; no action uses it.                        *)
(***************************************************************************)
\* The native lock can be taken.
Free == native = None /\ probe = None

\* checkFirefoxProfileLock finds no lock.
BugNoCheck == TRUE

CheckPasses == Free

\* waitForFirefoxProfileLock sees the lock.
BugNoWait == TRUE

SeenLocked == ~Free

\* Closing the probe's file releases the lock.
BugProbeKept == UNCHANGED probe

EndProbe == probe' = None

\* profileLease.remove compares the token.
BugNoTokenCheck(l) == TRUE

Mine(l) == lease = l

RemoveLease(l) == lease' = IF Mine(l) THEN None ELSE lease

\* removeExitedLease makes the preparation directory.
BugWatcherBarges == TRUE

WatcherMayLock == prep = None

\* prepareAndLaunch removes the preparation directory on every path.
BugPrepKept == UNCHANGED prep

RemovePreparation == prep' = None

\* Where Close goes when Firefox does not quit in time.
BugWaitForever == "quitting"

AfterQuitTimeout == "kill"

\* The directory of l goes; from then on only the native lock keeps others away.
Unguard(l) ==
    loose' = IF browser[l] = "starting" THEN loose \cup {l} ELSE loose

\* The process b, if it is there, exits, and its locks with it.
EndBrowser(b) ==
    /\ browser' = [browser EXCEPT ![b] = "exited"]
    /\ native' = IF native = b THEN None ELSE native

(***************************************************************************)
(* prepareAndLaunch                                                         *)
(***************************************************************************)
Processes == UNCHANGED <<watch, browser, loose>>

AcquirePreparation(l) ==
    /\ At(l, "new")
    /\ IF prep = None THEN prep' = l /\ Goto(l, "check")
                      ELSE UNCHANGED prep /\ Goto(l, "failed")
    /\ Processes /\ UNCHANGED <<lease, locks>>

CheckProbe(l) ==
    /\ At(l, "check") /\ CheckPasses
    /\ probe' = l
    /\ Goto(l, "checking")
    /\ Processes /\ UNCHANGED <<profile, native>>

CheckEnd(l) ==
    /\ At(l, "checking")
    /\ EndProbe
    /\ Goto(l, "lease")
    /\ Processes /\ UNCHANGED <<profile, native>>

\* The profile is locked, or the lock cannot be inspected.
CheckFails(l) ==
    /\ At(l, "check")
    /\ Goto(l, "fail")
    /\ Processes /\ UNCHANGED <<profile, locks>>

\* acquireProfileLease: two attempts to create the file, each of which removes
\* the one that is there.
Leasing(l) == pc[l] \in {"lease", "lease again"}

CreateLease(l) ==
    /\ Leasing(l) /\ lease = None
    /\ lease' = Torn
    /\ Goto(l, "write lease")
    /\ Processes /\ UNCHANGED <<prep, locks>>

RemoveStaleLease(l) ==
    /\ Leasing(l) /\ lease # None
    /\ lease' = None
    /\ Goto(l, IF At(l, "lease") THEN "lease again" ELSE "fail")
    /\ Processes /\ UNCHANGED <<prep, locks>>

WriteLease(l) ==
    /\ At(l, "write lease")
    /\ \/ lease' = l /\ Goto(l, "write")
       \/ lease' = None /\ Goto(l, "fail")
    /\ Processes /\ UNCHANGED <<prep, locks>>

\* The preferences and the certificate database are written until here.
StartFirefox(l) ==
    /\ At(l, "write")
    /\ browser' = [browser EXCEPT ![l] = "starting"]
    /\ Goto(l, "wait")
    /\ UNCHANGED <<profile, locks, watch, loose>>

WriteFails(l) ==
    /\ At(l, "write")
    /\ Goto(l, "drop")
    /\ Processes /\ UNCHANGED <<profile, locks>>

\* waitForFirefoxProfileLock
WaitExited(l) ==
    /\ At(l, "wait") /\ browser[l] = "exited"
    /\ Goto(l, "stop")
    /\ Processes /\ UNCHANGED <<profile, locks>>

WaitLocked(l) ==
    /\ At(l, "wait") /\ SeenLocked
    /\ Goto(l, "update")
    /\ Processes /\ UNCHANGED <<profile, locks>>

WaitProbe(l) ==
    /\ At(l, "wait") /\ Free
    /\ probe' = l
    /\ Goto(l, "waiting")
    /\ Processes /\ UNCHANGED <<profile, native>>

WaitEnd(l) ==
    /\ At(l, "waiting")
    /\ EndProbe
    /\ Goto(l, "wait")
    /\ Processes /\ UNCHANGED <<profile, native>>

\* The timer fires, or the lock cannot be inspected.
WaitFails(l) ==
    /\ At(l, "wait")
    /\ Goto(l, "stop")
    /\ Processes /\ UNCHANGED <<profile, locks>>

\* stopCommand kills Firefox and waits for its end.
StopCommand(l) ==
    /\ At(l, "stop")
    /\ EndBrowser(l)
    /\ Goto(l, "drop")
    /\ UNCHANGED <<profile, probe, watch, loose>>

\* lease.update truncates the file and writes it; either may fail.
TruncateLease(l) ==
    /\ At(l, "update")
    /\ lease' = Torn
    /\ Goto(l, "updating")
    /\ Processes /\ UNCHANGED <<prep, locks>>

UpdateLease(l) ==
    /\ At(l, "updating")
    /\ lease' = l
    /\ Watch(l, "waiting")
    /\ Goto(l, "unlock")
    /\ UNCHANGED <<prep, locks, browser, loose>>

UpdateFails(l) ==
    /\ pc[l] \in {"update", "updating"}
    /\ Goto(l, "stop")
    /\ Processes /\ UNCHANGED <<profile, locks>>

\* The deferred calls: the lease is removed unless it is kept, then the
\* preparation directory.
DropLease(l) ==
    /\ At(l, "drop")
    /\ RemoveLease(l)
    /\ Goto(l, "fail")
    /\ Processes /\ UNCHANGED <<prep, locks>>

ReleasePreparation(l) ==
    /\ pc[l] \in {"unlock", "fail"}
    /\ RemovePreparation /\ Unguard(l)
    /\ Goto(l, IF At(l, "unlock") THEN "launched" ELSE "failed")
    /\ UNCHANGED <<lease, locks, watch, browser>>

(***************************************************************************)
(* The goroutine that waits for Firefox, and removeExitedLease.             *)
(***************************************************************************)
WatchExit(l) ==
    /\ watch[l] = "waiting" /\ browser[l] = "exited"
    /\ IF WatcherMayLock THEN prep' = l /\ Watch(l, "locked")
                         ELSE UNCHANGED prep /\ Watch(l, "released")
    /\ UNCHANGED <<lease, locks, pc, browser, loose>>

WatchRemove(l) ==
    /\ watch[l] = "locked"
    /\ RemoveLease(l)
    /\ Watch(l, "unlock")
    /\ UNCHANGED <<prep, locks, pc, browser, loose>>

WatchUnlock(l) ==
    /\ watch[l] = "unlock"
    /\ prep' = None
    /\ Watch(l, "released")
    /\ UNCHANGED <<lease, locks, pc, browser, loose>>

(***************************************************************************)
(* The end of run: Browser.Close with its two timers.  The goroutine ends   *)
(* with its process, wherever it is.                                        *)
(***************************************************************************)
Idle == UNCHANGED <<profile, locks, browser, loose>>

End(l, how) ==
    /\ Goto(l, how)
    /\ Watch(l, "off")

StopServing(l) ==
    /\ At(l, "launched")
    /\ IF watch[l] = "released" THEN End(l, "ended")
                                ELSE Goto(l, "quit") /\ UNCHANGED watch
    /\ Idle

\* The request fails when the process has exited.
AskToQuit(l) ==
    /\ At(l, "quit")
    /\ Goto(l, IF browser[l] = "exited" THEN "kill" ELSE "quitting")
    /\ Idle /\ UNCHANGED watch

QuitTimeout(l) ==
    /\ At(l, "quitting")
    /\ Goto(l, AfterQuitTimeout)
    /\ Idle /\ UNCHANGED watch

Kill(l) ==
    /\ At(l, "kill")
    /\ EndBrowser(l)
    /\ Goto(l, "killed")
    /\ UNCHANGED <<profile, probe, watch, loose>>

CloseReturns(l) ==
    /\ pc[l] \in {"quitting", "killed"} /\ watch[l] = "released"
    /\ End(l, "ended")
    /\ Idle

StopTimeout(l) ==
    /\ At(l, "killed")
    /\ End(l, "ended")
    /\ Idle

\* A crash, or a second interrupt.  Firefox goes on.
Crash(l) ==
    /\ ~At(l, "new") /\ ~Gone(l)
    /\ End(l, "dead")
    /\ probe' = IF probe = l THEN None ELSE probe
    /\ UNCHANGED <<profile, native, browser, loose>>

(***************************************************************************)
(* Firefox, and people.                                                     *)
(***************************************************************************)
Outside == UNCHANGED <<profile, probe, pc, watch, loose>>

BrowserLock(b) ==
    /\ browser[b] = "starting" /\ Free
    /\ native' = b
    /\ browser' = [browser EXCEPT ![b] = "running"]
    /\ Outside

BrowserRefused(b) ==
    /\ browser[b] = "starting" /\ ~Free
    /\ EndBrowser(b)
    /\ Outside

BrowserExit(b) ==
    /\ Alive(b)
    /\ EndBrowser(b)
    /\ Outside

StrangerStart(s) ==
    /\ browser[s] = "none"
    /\ browser' = [browser EXCEPT ![s] = "starting"]
    /\ Outside /\ UNCHANGED native

\* "After confirming that no other lemmingd process is preparing this profile,
\* remove that directory and retry."  The Firefox that the dead process started
\* may still be starting.
ClearPreparation ==
    /\ prep # None /\ Gone(prep)
    /\ prep' = None /\ Unguard(prep)
    /\ UNCHANGED <<lease, locks, pc, watch, browser>>

-----------------------------------------------------------------------------
LaunchStep(l) ==
    \/ AcquirePreparation(l) \/ CheckProbe(l) \/ CheckEnd(l) \/ CheckFails(l)
    \/ CreateLease(l) \/ RemoveStaleLease(l) \/ WriteLease(l)
    \/ StartFirefox(l) \/ WriteFails(l)
    \/ WaitExited(l) \/ WaitLocked(l) \/ WaitProbe(l) \/ WaitEnd(l)
    \/ StopCommand(l) \/ TruncateLease(l) \/ UpdateLease(l) \/ UpdateFails(l)
    \/ DropLease(l) \/ ReleasePreparation(l)

WatchStep(l) == WatchExit(l) \/ WatchRemove(l) \/ WatchUnlock(l)

CloseStep(l) ==
    AskToQuit(l) \/ QuitTimeout(l) \/ Kill(l) \/ CloseReturns(l) \/ StopTimeout(l)

BrowserStep(b) == BrowserLock(b) \/ BrowserRefused(b) \/ BrowserExit(b)

Next ==
    \/ \E l \in Launchers : \/ LaunchStep(l) \/ WaitFails(l) \/ WatchStep(l)
                            \/ StopServing(l) \/ CloseStep(l) \/ Crash(l)
    \/ \E b \in Browsers : BrowserStep(b)
    \/ \E s \in Strangers : StrangerStart(s)
    \/ ClearPreparation

Spec == Init /\ [][Next]_vars

\* A process and its goroutine go on, and a timer that has fired stays ready for
\* the select that looks at it between probes.  Nothing is asked of Firefox.
Fairness ==
    \A l \in Launchers :
        /\ WF_vars(LaunchStep(l)) /\ SF_vars(WaitFails(l))
        /\ WF_vars(WatchStep(l)) /\ WF_vars(CloseStep(l))

FairSpec == Spec /\ Fairness

-----------------------------------------------------------------------------
(***************************************************************************)
(* Properties                                                               *)
(***************************************************************************)
Preparing == {"check", "checking", "lease", "lease again", "write lease",
              "write", "wait", "waiting", "stop", "update", "updating",
              "unlock", "drop", "fail"}

Cleaning == {"locked", "unlock"}

\* The sorts of the variables.
TypeOK ==
    /\ prep \in Launchers \cup {None}
    /\ lease \in Launchers \cup {Torn, None}
    /\ native \in Browsers \cup {None}
    /\ probe \in Launchers \cup {None}
    /\ pc \in [Launchers -> Preparing \cup {"new", "launched", "quit", "quitting",
                                            "kill", "killed", "failed", "ended",
                                            "dead"}]
    /\ watch \in [Launchers -> Cleaning \cup {"off", "waiting", "released"}]
    /\ browser \in [Browsers -> {"none", "starting", "running", "exited"}]
    /\ loose \subseteq Launchers

\* One launch or clean-up at a time works on the profile, and the directory is
\* there all the while.  A probe has the native lock only while its process, which
\* has the directory, looks at it: Firefox never finds the lock of a probe that
\* nobody ends.
PreparationExclusive ==
    \A l \in Launchers :
        /\ pc[l] \in Preparing \/ watch[l] \in Cleaning => prep = l
        /\ ~(pc[l] \in Preparing /\ watch[l] \in Cleaning)
        /\ probe = l => pc[l] \in {"checking", "waiting"}

\* People start no Firefox of their own with the profile, and remove the directory
\* of a dead lemmingd only when the Firefox it started has its lock or has exited.
Undisturbed ==
    /\ \A s \in Strangers : browser[s] = "none"
    /\ \A l \in loose : ~At(l, "dead")

\* The preferences and certificates of the profile are never written while a
\* Firefox that a lemmingd started is starting or running, whichever of the
\* processes crashed before.  The exception is a Firefox whose directory was
\* removed before it had its lock, which cannot happen unless people make it.
ProfileUntouched ==
    /\ \A l, b \in Launchers : At(l, "write") /\ Alive(b) => b \in loose
    /\ Undisturbed => loose = {}

\* While a lemmingd's Firefox runs the lease in the profile is its own: no other
\* launch and no late clean-up removes or replaces it, with the same exception.
LeaseOfRunning ==
    \A l \in Launchers \ loose :
        watch[l] = "waiting" /\ browser[l] = "running" => lease = l

\* A launch succeeds only on the lock of the Firefox it started, or on that of one
\* that no directory guards, never on that of another launch under way, of one that
\* succeeded, or of a probe.
LaunchHonest ==
    [][\A l \in Launchers :
          At(l, "wait") /\ pc'[l] = "update" =>
              native \in {l} \cup Strangers \cup loose]_vars

\* A process that goes on removes its preparation directory, whatever Firefox
\* does, so that the profile is not blocked.
PreparationReleased ==
    \A l \in Launchers : prep = l ~> prep # l \/ Gone(l)

\* Closing Firefox ends, also when Firefox does not react.
CloseEnds == \A l \in Launchers : At(l, "quit") ~> Gone(l)
=============================================================================
