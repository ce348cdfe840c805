-------------------------- MODULE ProfileLaunchProofs --------------------------
(***************************************************************************)
(* Theorems about ProfileLaunch, for any number of launchers and of         *)
(* Firefoxes that people start.                                             *)
(*                                                                          *)
(* Two locks guard the profile, and neither is enough: the preparation      *)
(* directory is gone once Firefox runs, and Firefox takes its native lock   *)
(* some time after its start.  The argument is that they overlap: a Firefox *)
(* that has not reached its lock is that of the process whose directory is  *)
(* there, whether or not that process still runs, or is one of the loose    *)
(* ones, which are treated like those that people start (GuardAt).          *)
(***************************************************************************)
EXTENDS ProfileLaunch, TLAPS

\* The places before Firefox is started, those after the check of the native lock
\* among them, those of a launch that waits for the lock, and those after it.
Checked == {"checking", "lease", "lease again", "write lease", "write"}
Before  == {"new", "check"} \cup Checked
Waiting == {"wait", "waiting", "update", "updating"}
After   == {"unlock", "launched", "quit", "quitting", "kill", "killed"}

ExclusiveAt(l) ==
    /\ pc[l] \in Preparing \/ watch[l] \in Cleaning => prep = l
    /\ ~(pc[l] \in Preparing /\ watch[l] \in Cleaning)
    /\ probe = l => pc[l] \in {"checking", "waiting"}

\* What holds of a launcher whoever else uses the profile: its goroutine is that of
\* a launch that succeeded, and where its Firefox is.
SafeAt(l) ==
    /\ ExclusiveAt(l)
    /\ watch[l] # "off" => pc[l] \in After
    /\ browser[l] = "running" <=> native = l
    /\ pc[l] \in Before => browser[l] = "none"
    /\ pc[l] \in {"drop", "fail", "failed"} => browser[l] \in {"none", "exited"}
    /\ watch[l] \in Cleaning => browser[l] = "exited"

\* The Firefoxes that take the native lock without a directory to guard them.
Foreign == Strangers \cup loose

\* What the two locks give a launcher.
GuardAt(l) ==
    /\ browser[l] = "starting" => prep = l \/ l \in loose
    /\ pc[l] \in Checked => native \in {None} \cup Foreign
    /\ pc[l] \in Waiting => native \in {None, l} \cup Foreign
    /\ watch[l] = "waiting" /\ Alive(l) /\ l \notin loose => lease = l

\* While people keep away no launch takes another lock for that of its Firefox.
LooseAt(l) ==
    Undisturbed => /\ l \notin loose
                   /\ pc[l] \in {"update", "updating", "ended"} \cup After =>
                         browser[l] # "starting"

IInv ==
    /\ TypeOK
    /\ \A l \in Launchers : SafeAt(l) /\ GuardAt(l) /\ LooseAt(l)
    /\ \A s \in Strangers : browser[s] = "running" <=> native = s
    /\ probe # None => native = None

-----------------------------------------------------------------------------
LEMMA Initially == Init => IInv
  BY ProcessAssumption DEF Init, IInv, TypeOK, ExclusiveAt, SafeAt, GuardAt,
     LooseAt, Undisturbed, Alive, Foreign, Browsers, Preparing, Cleaning, Checked, Before, Waiting, After

\* What the invariant says of one launcher.
LEMMA OfOne ==
    ASSUME IInv, NEW l \in Launchers
    PROVE  TypeOK /\ SafeAt(l) /\ GuardAt(l) /\ LooseAt(l)
  BY DEF IInv

\* Two launches or clean-ups are never in the profile.
LEMMA Alone ==
    ASSUME IInv, NEW l \in Launchers, NEW m \in Launchers \ {l}, prep = l
    PROVE  pc[m] \notin Preparing /\ watch[m] \notin Cleaning /\ probe # m
  BY ProcessAssumption DEF IInv, SafeAt, ExclusiveAt, Preparing

LEMMA Implies ==
    IInv => TypeOK /\ PreparationExclusive /\ ProfileUntouched /\ LeaseOfRunning
  <1> SUFFICES ASSUME IInv
               PROVE  TypeOK /\ PreparationExclusive /\ ProfileUntouched /\ LeaseOfRunning
    OBVIOUS
  <1>1. TypeOK /\ PreparationExclusive
    BY DEF IInv, SafeAt, ExclusiveAt, PreparationExclusive
  <1>2. ASSUME NEW l \in Launchers, NEW b \in Launchers, At(l, "write"), Alive(b)
        PROVE  b \in loose
    <2>1. SafeAt(l) /\ GuardAt(l) /\ SafeAt(b) /\ GuardAt(b)
      BY DEF IInv
    <2>2. pc[l] \in Checked /\ prep = l /\ browser[l] = "none"
      BY <1>2, <2>1 DEF At, SafeAt, ExclusiveAt, Preparing, Before, Checked
    <2>3. CASE browser[b] = "running"
      BY <2>1, <2>2, <2>3, ProcessAssumption DEF SafeAt, GuardAt, Foreign
    <2>4. CASE browser[b] = "starting"
      BY <2>1, <2>2, <2>4 DEF GuardAt
    <2> QED
      BY <1>2, <2>3, <2>4 DEF Alive
  <1>3. Undisturbed => loose = {}
    BY DEF IInv, TypeOK, LooseAt
  <1>4. LeaseOfRunning
    BY DEF IInv, GuardAt, LeaseOfRunning, Alive
  <1> QED
    BY <1>1, <1>2, <1>3, <1>4 DEF ProfileUntouched

-----------------------------------------------------------------------------
(***************************************************************************)
(* The steps of one launcher and of its goroutine: what such a step does to *)
(* the others is the same for all of them.                                  *)
(***************************************************************************)
\* Only l moves; it takes the directory when there is none and removes its own; it
\* probes for itself; no lock but that of its own Firefox goes; no Firefox becomes
\* loose but its own, and none while people keep away; and a lease that it replaces is
\* its own, or it is preparing.
Moves(l) ==
    /\ \A m \in Launchers \ {l} : pc'[m] = pc[m] /\ watch'[m] = watch[m]
    /\ \A b \in Browsers \ {l} : browser'[b] = browser[b]
    /\ prep' = prep \/ (prep = None /\ prep' = l) \/ (prep = l /\ prep' = None)
    /\ probe' \in {probe, l, None}
    /\ native' = native \/ (native = l /\ native' = None)
    /\ loose \subseteq loose' /\ loose' \subseteq loose \cup {l}
    /\ pc[l] = "dead" => pc'[l] = "dead"
    /\ lease' = lease \/ lease = l \/ pc[l] \in Checked \cup Waiting

\* Such a step does not make up for what people did.
LEMMA StaysDisturbed ==
    ASSUME TypeOK, NEW l \in Launchers, Moves(l)
    PROVE  Undisturbed' => Undisturbed
  <1>1. \A s \in Strangers : s \in Browsers \ {l}
    BY ProcessAssumption DEF Browsers
  <1>2. \A s \in Strangers : browser'[s] = browser[s]
    BY <1>1 DEF Moves
  <1>3. \A m \in loose : m \in loose' /\ (pc[m] = "dead" => pc'[m] = "dead")
    BY DEF Moves, TypeOK
  <1> QED
    BY <1>2, <1>3 DEF Undisturbed, At

LEMMA OthersKeep ==
    ASSUME IInv, NEW l \in Launchers, Moves(l), TypeOK', SafeAt(l)',
           probe' # None => native' = None, GuardAt(l)', LooseAt(l)'
    PROVE  IInv'
  <1>1. \A m \in Launchers \ {l} :
          /\ SafeAt(m) /\ GuardAt(m) /\ LooseAt(m) /\ m # None /\ m \in Browsers \ {l}
          /\ pc'[m] = pc[m] /\ watch'[m] = watch[m] /\ browser'[m] = browser[m]
          /\ prep = m => prep' = m
          /\ probe' = m => probe = m
          /\ native' = m <=> native = m
          /\ m \in loose' <=> m \in loose
    BY ProcessAssumption DEF IInv, Browsers, Moves
  <1>2. \A m \in Launchers \ {l} : SafeAt(m)'
    BY <1>1 DEF SafeAt, ExclusiveAt
  <1>3. \A s \in Strangers : browser'[s] = browser[s] /\ (native' = s <=> native = s)
    BY ProcessAssumption DEF Moves, Browsers
  <1>4. \A s \in Strangers : browser'[s] = "running" <=> native' = s
    BY <1>3 DEF IInv
  <1>5. \A m \in Launchers \ {l} : GuardAt(m)'
    <2> SUFFICES ASSUME NEW m \in Launchers \ {l} PROVE GuardAt(m)'
      OBVIOUS
    <2>1. native' \in {native, None} /\ Foreign \subseteq Foreign'
      BY DEF Moves, Foreign
    <2>2. ASSUME watch[m] = "waiting", Alive(m), m \notin loose
          PROVE  lease' = m
      <3>1. lease = m
        BY <1>1, <2>2 DEF GuardAt
      <3>2. SUFFICES pc[l] \notin Checked \cup Waiting
        BY <3>1 DEF Moves
      <3>3. SUFFICES ASSUME pc[l] \in Checked \cup Waiting PROVE FALSE
        OBVIOUS
      <3>4. prep = l /\ native \in {None, l} \cup Foreign
        BY <3>3 DEF IInv, SafeAt, ExclusiveAt, GuardAt, Checked, Waiting, Preparing
      <3> QED
        BY <1>1, <2>2, <3>4, ProcessAssumption DEF Alive, SafeAt, GuardAt, Foreign
    <2> QED
      BY <1>1, <2>1, <2>2 DEF GuardAt, Alive
  <1>6. \A m \in Launchers \ {l} : LooseAt(m)'
    <2>1. Undisturbed' => Undisturbed
      BY StaysDisturbed DEF IInv
    <2> QED
      BY <1>1, <2>1 DEF LooseAt
  <1> QED
    BY <1>2, <1>4, <1>5, <1>6 DEF IInv

\* The launch probes the native lock, or cannot, before it starts Firefox.
LEMMA CheckKeeps ==
    ASSUME IInv, NEW l \in Launchers,
           CheckProbe(l) \/ CheckEnd(l) \/ CheckFails(l)
    PROVE  IInv'
  <1> USE DEF CheckProbe, CheckPasses, Free, CheckEnd, EndProbe, CheckFails, Goto,
          At, Processes, profile, locks
  <1>1. /\ TypeOK /\ SafeAt(l) /\ GuardAt(l) /\ LooseAt(l) /\ l \in Browsers
        /\ (probe # None => native = None) /\ l # None /\ l # Torn /\ l \notin Strangers
    BY OfOne, ProcessAssumption DEF IInv, Browsers
  <1>2. TypeOK'
    BY <1>1 DEF TypeOK, Preparing, Cleaning
  <1>3. SafeAt(l)' /\ (probe' # None => native' = None)
    BY <1>1 DEF TypeOK, SafeAt, ExclusiveAt, Preparing, Cleaning, Before, Checked, After
  <1>4. GuardAt(l)'
    BY <1>1 DEF TypeOK, SafeAt, ExclusiveAt, GuardAt, Foreign, Alive, Preparing, Cleaning, Before, Checked, Waiting, After
  <1>5. Moves(l)
    BY <1>1 DEF Moves, TypeOK, SafeAt, ExclusiveAt, Preparing, Cleaning, Checked, Waiting
  <1>6. LooseAt(l)'
    BY <1>1, <1>5, StaysDisturbed DEF TypeOK, SafeAt, LooseAt, Before, Checked, After, Preparing
  <1> QED
    BY <1>2, <1>3, <1>4, <1>5, <1>6, OthersKeep

\* ... and after it did.
LEMMA WaitKeeps ==
    ASSUME IInv, NEW l \in Launchers,
           WaitProbe(l) \/ WaitEnd(l)
    PROVE  IInv'
  <1> USE DEF WaitProbe, Free, WaitEnd, EndProbe, Goto, At, Processes, profile,
          locks
  <1>1. /\ TypeOK /\ SafeAt(l) /\ GuardAt(l) /\ LooseAt(l) /\ l \in Browsers
        /\ (probe # None => native = None) /\ l # None /\ l # Torn /\ l \notin Strangers
    BY OfOne, ProcessAssumption DEF IInv, Browsers
  <1>2. TypeOK'
    BY <1>1 DEF TypeOK, Preparing, Cleaning
  <1>3. SafeAt(l)' /\ (probe' # None => native' = None)
    BY <1>1 DEF TypeOK, SafeAt, ExclusiveAt, Preparing, Cleaning, Before, Checked, After
  <1>4. GuardAt(l)'
    BY <1>1 DEF TypeOK, SafeAt, ExclusiveAt, GuardAt, Foreign, Alive, Preparing, Cleaning, Before, Checked, Waiting, After
  <1>5. Moves(l)
    BY <1>1 DEF Moves, TypeOK, SafeAt, ExclusiveAt, Preparing, Cleaning, Checked, Waiting
  <1>6. LooseAt(l)'
    BY <1>1, <1>5, StaysDisturbed DEF TypeOK, SafeAt, LooseAt, Before, Checked, After, Preparing
  <1> QED
    BY <1>2, <1>3, <1>4, <1>5, <1>6, OthersKeep

\* The wait for the lock is given up.
LEMMA TimeoutKeeps ==
    ASSUME IInv, NEW l \in Launchers,
           WaitFails(l)
    PROVE  IInv'
  <1> USE DEF WaitFails, Goto, At, Processes, profile, locks
  <1>1. /\ TypeOK /\ SafeAt(l) /\ GuardAt(l) /\ LooseAt(l) /\ l \in Browsers
        /\ (probe # None => native = None) /\ l # None /\ l # Torn /\ l \notin Strangers
    BY OfOne, ProcessAssumption DEF IInv, Browsers
  <1>2. TypeOK'
    BY <1>1 DEF TypeOK, Preparing, Cleaning
  <1>3. SafeAt(l)' /\ (probe' # None => native' = None)
    BY <1>1 DEF TypeOK, SafeAt, ExclusiveAt, Preparing, Cleaning, Before, Checked, After
  <1>4. GuardAt(l)'
    BY <1>1 DEF TypeOK, SafeAt, ExclusiveAt, GuardAt, Foreign, Alive, Preparing, Cleaning, Before, Checked, Waiting, After
  <1>5. Moves(l)
    BY <1>1 DEF Moves, TypeOK, SafeAt, ExclusiveAt, Preparing, Cleaning, Checked, Waiting
  <1>6. LooseAt(l)'
    BY <1>1, <1>5, StaysDisturbed DEF TypeOK, SafeAt, LooseAt, Before, Checked, After, Preparing
  <1> QED
    BY <1>2, <1>3, <1>4, <1>5, <1>6, OthersKeep

\* The lease of another launch is replaced, before Firefox is started.
LEMMA LeaseFileKeeps ==
    ASSUME IInv, NEW l \in Launchers,
           CreateLease(l) \/ RemoveStaleLease(l) \/ WriteLease(l)
    PROVE  IInv'
  <1> USE DEF CreateLease, Leasing, RemoveStaleLease, WriteLease, Goto, At,
          Processes, profile, locks
  <1>1. /\ TypeOK /\ SafeAt(l) /\ GuardAt(l) /\ LooseAt(l) /\ l \in Browsers
        /\ (probe # None => native = None) /\ l # None /\ l # Torn /\ l \notin Strangers
    BY OfOne, ProcessAssumption DEF IInv, Browsers
  <1>2. TypeOK'
    BY <1>1 DEF TypeOK, Preparing, Cleaning
  <1>3. SafeAt(l)' /\ (probe' # None => native' = None)
    BY <1>1 DEF TypeOK, SafeAt, ExclusiveAt, Preparing, Cleaning, Before, Checked, After
  <1>4. GuardAt(l)'
    BY <1>1 DEF TypeOK, SafeAt, ExclusiveAt, GuardAt, Foreign, Alive, Preparing, Cleaning, Before, Checked, Waiting, After
  <1>5. Moves(l)
    BY <1>1 DEF Moves, TypeOK, SafeAt, ExclusiveAt, Preparing, Cleaning, Checked, Waiting
  <1>6. LooseAt(l)'
    BY <1>1, <1>5, StaysDisturbed DEF TypeOK, SafeAt, LooseAt, Before, Checked, After, Preparing
  <1> QED
    BY <1>2, <1>3, <1>4, <1>5, <1>6, OthersKeep

\* ... and after it was.
LEMMA UpdateKeeps ==
    ASSUME IInv, NEW l \in Launchers,
           TruncateLease(l) \/ UpdateLease(l) \/ UpdateFails(l)
    PROVE  IInv'
  <1> USE DEF TruncateLease, UpdateLease, Watch, UpdateFails, Goto, At, Processes,
          profile, locks
  <1>1. /\ TypeOK /\ SafeAt(l) /\ GuardAt(l) /\ LooseAt(l) /\ l \in Browsers
        /\ (probe # None => native = None) /\ l # None /\ l # Torn /\ l \notin Strangers
    BY OfOne, ProcessAssumption DEF IInv, Browsers
  <1>2. TypeOK'
    BY <1>1 DEF TypeOK, Preparing, Cleaning
  <1>3. SafeAt(l)' /\ (probe' # None => native' = None)
    BY <1>1 DEF TypeOK, SafeAt, ExclusiveAt, Preparing, Cleaning, Before, Checked, After
  <1>4. GuardAt(l)'
    BY <1>1 DEF TypeOK, SafeAt, ExclusiveAt, GuardAt, Foreign, Alive, Preparing, Cleaning, Before, Checked, Waiting, After
  <1>5. Moves(l)
    BY <1>1 DEF Moves, TypeOK, SafeAt, ExclusiveAt, Preparing, Cleaning, Checked, Waiting
  <1>6. LooseAt(l)'
    BY <1>1, <1>5, StaysDisturbed DEF TypeOK, SafeAt, LooseAt, Before, Checked, After, Preparing
  <1> QED
    BY <1>2, <1>3, <1>4, <1>5, <1>6, OthersKeep

\* Firefox is started, and killed if it has to be.
LEMMA BrowserUseKeeps ==
    ASSUME IInv, NEW l \in Launchers,
           StartFirefox(l) \/ WriteFails(l) \/ WaitExited(l) \/
             StopCommand(l)
    PROVE  IInv'
  <1> USE DEF StartFirefox, WriteFails, WaitExited, StopCommand, EndBrowser, Goto,
          At, Processes, profile, locks
  <1>1. /\ TypeOK /\ SafeAt(l) /\ GuardAt(l) /\ LooseAt(l) /\ l \in Browsers
        /\ (probe # None => native = None) /\ l # None /\ l # Torn /\ l \notin Strangers
    BY OfOne, ProcessAssumption DEF IInv, Browsers
  <1>2. TypeOK'
    BY <1>1 DEF TypeOK, Preparing, Cleaning
  <1>3. SafeAt(l)' /\ (probe' # None => native' = None)
    BY <1>1 DEF TypeOK, SafeAt, ExclusiveAt, Preparing, Cleaning, Before, Checked, After
  <1>4. GuardAt(l)'
    BY <1>1 DEF TypeOK, SafeAt, ExclusiveAt, GuardAt, Foreign, Alive, Preparing, Cleaning, Before, Checked, Waiting, After
  <1>5. Moves(l)
    BY <1>1 DEF Moves, TypeOK, SafeAt, ExclusiveAt, Preparing, Cleaning, Checked, Waiting
  <1>6. LooseAt(l)'
    BY <1>1, <1>5, StaysDisturbed DEF TypeOK, SafeAt, LooseAt, Before, Checked, After, Preparing
  <1> QED
    BY <1>2, <1>3, <1>4, <1>5, <1>6, OthersKeep

\* The preparation directory is made.
LEMMA AcquireKeeps ==
    ASSUME IInv, NEW l \in Launchers,
           AcquirePreparation(l)
    PROVE  IInv'
  <1> USE DEF AcquirePreparation, Goto, At, Processes, profile, locks
  <1>1. /\ TypeOK /\ SafeAt(l) /\ GuardAt(l) /\ LooseAt(l) /\ l \in Browsers
        /\ (probe # None => native = None) /\ l # None /\ l # Torn /\ l \notin Strangers
    BY OfOne, ProcessAssumption DEF IInv, Browsers
  <1>2. TypeOK'
    BY <1>1 DEF TypeOK, Preparing, Cleaning
  <1>3. SafeAt(l)' /\ (probe' # None => native' = None)
    BY <1>1 DEF TypeOK, SafeAt, ExclusiveAt, Preparing, Cleaning, Before, Checked, After
  <1>4. GuardAt(l)'
    BY <1>1 DEF TypeOK, SafeAt, ExclusiveAt, GuardAt, Foreign, Alive, Preparing, Cleaning, Before, Checked, Waiting, After
  <1>5. Moves(l)
    BY <1>1 DEF Moves, TypeOK, SafeAt, ExclusiveAt, Preparing, Cleaning, Checked, Waiting
  <1>6. LooseAt(l)'
    BY <1>1, <1>5, StaysDisturbed DEF TypeOK, SafeAt, LooseAt, Before, Checked, After, Preparing
  <1> QED
    BY <1>2, <1>3, <1>4, <1>5, <1>6, OthersKeep

\* The lease is removed, then the preparation directory.
LEMMA ReleaseKeeps ==
    ASSUME IInv, NEW l \in Launchers,
           DropLease(l) \/ ReleasePreparation(l)
    PROVE  IInv'
  <1> USE DEF DropLease, RemoveLease, Mine, ReleasePreparation, RemovePreparation,
          Unguard, Goto, At, Processes, profile, locks
  <1>1. /\ TypeOK /\ SafeAt(l) /\ GuardAt(l) /\ LooseAt(l) /\ l \in Browsers
        /\ (probe # None => native = None) /\ l # None /\ l # Torn /\ l \notin Strangers
    BY OfOne, ProcessAssumption DEF IInv, Browsers
  <1>2. TypeOK'
    BY <1>1 DEF TypeOK, Preparing, Cleaning
  <1>3. SafeAt(l)' /\ (probe' # None => native' = None)
    BY <1>1 DEF TypeOK, SafeAt, ExclusiveAt, Preparing, Cleaning, Before, Checked, After
  <1>4. GuardAt(l)'
    BY <1>1 DEF TypeOK, SafeAt, ExclusiveAt, GuardAt, Foreign, Alive, Preparing, Cleaning, Before, Checked, Waiting, After
  <1>5. Moves(l)
    BY <1>1 DEF Moves, TypeOK, SafeAt, ExclusiveAt, Preparing, Cleaning, Checked, Waiting
  <1>6. LooseAt(l)'
    BY <1>1, <1>5, StaysDisturbed DEF TypeOK, SafeAt, LooseAt, Before, Checked, After, Preparing
  <1> QED
    BY <1>2, <1>3, <1>4, <1>5, <1>6, OthersKeep

\* The goroutine that waits for Firefox.
LEMMA WatchKeeps ==
    ASSUME IInv, NEW l \in Launchers,
           WatchExit(l) \/ WatchRemove(l) \/ WatchUnlock(l)
    PROVE  IInv'
  <1> USE DEF WatchExit, WatcherMayLock, Watch, WatchRemove, RemoveLease, Mine,
          WatchUnlock, Goto, At, Processes, profile, locks
  <1>1. /\ TypeOK /\ SafeAt(l) /\ GuardAt(l) /\ LooseAt(l) /\ l \in Browsers
        /\ (probe # None => native = None) /\ l # None /\ l # Torn /\ l \notin Strangers
    BY OfOne, ProcessAssumption DEF IInv, Browsers
  <1>2. TypeOK'
    BY <1>1 DEF TypeOK, Preparing, Cleaning
  <1>3. SafeAt(l)' /\ (probe' # None => native' = None)
    BY <1>1 DEF TypeOK, SafeAt, ExclusiveAt, Preparing, Cleaning, Before, Checked, After
  <1>4. GuardAt(l)'
    BY <1>1 DEF TypeOK, SafeAt, ExclusiveAt, GuardAt, Foreign, Alive, Preparing, Cleaning, Before, Checked, Waiting, After
  <1>5. Moves(l)
    BY <1>1 DEF Moves, TypeOK, SafeAt, ExclusiveAt, Preparing, Cleaning, Checked, Waiting
  <1>6. LooseAt(l)'
    BY <1>1, <1>5, StaysDisturbed DEF TypeOK, SafeAt, LooseAt, Before, Checked, After, Preparing
  <1> QED
    BY <1>2, <1>3, <1>4, <1>5, <1>6, OthersKeep

\* A proxy that was told to stop begins to close Firefox.
LEMMA StopKeeps ==
    ASSUME IInv, NEW l \in Launchers,
           StopServing(l)
    PROVE  IInv'
  <1> USE DEF StopServing, End, Watch, Idle, Goto, At, Processes, profile, locks
  <1>1. /\ TypeOK /\ SafeAt(l) /\ GuardAt(l) /\ LooseAt(l) /\ l \in Browsers
        /\ (probe # None => native = None) /\ l # None /\ l # Torn /\ l \notin Strangers
    BY OfOne, ProcessAssumption DEF IInv, Browsers
  <1>2. TypeOK'
    BY <1>1 DEF TypeOK, Preparing, Cleaning
  <1>3. SafeAt(l)' /\ (probe' # None => native' = None)
    BY <1>1 DEF TypeOK, SafeAt, ExclusiveAt, Preparing, Cleaning, Before, Checked, After
  <1>4. GuardAt(l)'
    BY <1>1 DEF TypeOK, SafeAt, ExclusiveAt, GuardAt, Foreign, Alive, Preparing, Cleaning, Before, Checked, Waiting, After
  <1>5. Moves(l)
    BY <1>1 DEF Moves, TypeOK, SafeAt, ExclusiveAt, Preparing, Cleaning, Checked, Waiting
  <1>6. LooseAt(l)'
    BY <1>1, <1>5, StaysDisturbed DEF TypeOK, SafeAt, LooseAt, Before, Checked, After, Preparing
  <1> QED
    BY <1>2, <1>3, <1>4, <1>5, <1>6, OthersKeep

\* Firefox is asked to quit.
LEMMA QuitKeeps ==
    ASSUME IInv, NEW l \in Launchers,
           AskToQuit(l) \/ QuitTimeout(l)
    PROVE  IInv'
  <1> USE DEF AskToQuit, Idle, QuitTimeout, AfterQuitTimeout, Goto, At, Processes,
          profile, locks
  <1>1. /\ TypeOK /\ SafeAt(l) /\ GuardAt(l) /\ LooseAt(l) /\ l \in Browsers
        /\ (probe # None => native = None) /\ l # None /\ l # Torn /\ l \notin Strangers
    BY OfOne, ProcessAssumption DEF IInv, Browsers
  <1>2. TypeOK'
    BY <1>1 DEF TypeOK, Preparing, Cleaning
  <1>3. SafeAt(l)' /\ (probe' # None => native' = None)
    BY <1>1 DEF TypeOK, SafeAt, ExclusiveAt, Preparing, Cleaning, Before, Checked, After
  <1>4. GuardAt(l)'
    BY <1>1 DEF TypeOK, SafeAt, ExclusiveAt, GuardAt, Foreign, Alive, Preparing, Cleaning, Before, Checked, Waiting, After
  <1>5. Moves(l)
    BY <1>1 DEF Moves, TypeOK, SafeAt, ExclusiveAt, Preparing, Cleaning, Checked, Waiting
  <1>6. LooseAt(l)'
    BY <1>1, <1>5, StaysDisturbed DEF TypeOK, SafeAt, LooseAt, Before, Checked, After, Preparing
  <1> QED
    BY <1>2, <1>3, <1>4, <1>5, <1>6, OthersKeep

\* ... and killed.
LEMMA KillKeeps ==
    ASSUME IInv, NEW l \in Launchers,
           Kill(l)
    PROVE  IInv'
  <1> USE DEF Kill, EndBrowser, Goto, At, Processes, profile, locks
  <1>1. /\ TypeOK /\ SafeAt(l) /\ GuardAt(l) /\ LooseAt(l) /\ l \in Browsers
        /\ (probe # None => native = None) /\ l # None /\ l # Torn /\ l \notin Strangers
    BY OfOne, ProcessAssumption DEF IInv, Browsers
  <1>2. TypeOK'
    BY <1>1 DEF TypeOK, Preparing, Cleaning
  <1>3. SafeAt(l)' /\ (probe' # None => native' = None)
    BY <1>1 DEF TypeOK, SafeAt, ExclusiveAt, Preparing, Cleaning, Before, Checked, After
  <1>4. GuardAt(l)'
    BY <1>1 DEF TypeOK, SafeAt, ExclusiveAt, GuardAt, Foreign, Alive, Preparing, Cleaning, Before, Checked, Waiting, After
  <1>5. Moves(l)
    BY <1>1 DEF Moves, TypeOK, SafeAt, ExclusiveAt, Preparing, Cleaning, Checked, Waiting
  <1>6. LooseAt(l)'
    BY <1>1, <1>5, StaysDisturbed DEF TypeOK, SafeAt, LooseAt, Before, Checked, After, Preparing
  <1> QED
    BY <1>2, <1>3, <1>4, <1>5, <1>6, OthersKeep

\* The end of a process, in order or not.
LEMMA EndKeeps ==
    ASSUME IInv, NEW l \in Launchers,
           CloseReturns(l) \/ StopTimeout(l) \/ Crash(l)
    PROVE  IInv'
  <1> USE DEF CloseReturns, Idle, End, Watch, StopTimeout, Crash, Gone, Goto, At,
          Processes, profile, locks
  <1>1. /\ TypeOK /\ SafeAt(l) /\ GuardAt(l) /\ LooseAt(l) /\ l \in Browsers
        /\ (probe # None => native = None) /\ l # None /\ l # Torn /\ l \notin Strangers
    BY OfOne, ProcessAssumption DEF IInv, Browsers
  <1>2. TypeOK'
    BY <1>1 DEF TypeOK, Preparing, Cleaning
  <1>3. SafeAt(l)' /\ (probe' # None => native' = None)
    BY <1>1 DEF TypeOK, SafeAt, ExclusiveAt, Preparing, Cleaning, Before, Checked, After
  <1>4. GuardAt(l)'
    BY <1>1 DEF TypeOK, SafeAt, ExclusiveAt, GuardAt, Foreign, Alive, Preparing, Cleaning, Before, Checked, Waiting, After
  <1>5. Moves(l)
    BY <1>1 DEF Moves, TypeOK, SafeAt, ExclusiveAt, Preparing, Cleaning, Checked, Waiting
  <1>6. LooseAt(l)'
    BY <1>1, <1>5, StaysDisturbed DEF TypeOK, SafeAt, LooseAt, Before, Checked, After, Preparing
  <1> QED
    BY <1>2, <1>3, <1>4, <1>5, <1>6, OthersKeep

\* The launch goes on when it sees the lock: no other process probes, and the lock
\* was free when the launch checked it, so it is that of its own Firefox unless
\* another one had no directory to guard it.
LEMMA OwnLock ==
    ASSUME IInv, NEW l \in Launchers, WaitLocked(l)
    PROVE  /\ probe = None
           /\ native \in {l} \cup Foreign
           /\ Undisturbed => native = l
  <1>1. TypeOK /\ SafeAt(l) /\ GuardAt(l) /\ At(l, "wait")
    BY OfOne DEF WaitLocked
  <1>2. prep = l /\ probe # l
    BY <1>1 DEF At, SafeAt, ExclusiveAt, Preparing
  <1>3. probe = None
    BY <1>1, <1>2, Alone DEF TypeOK
  <1>4. native # None
    BY <1>3 DEF WaitLocked, SeenLocked, Free
  <1>5. native \in {l} \cup Foreign
    BY <1>1, <1>4 DEF At, GuardAt, Waiting
  <1>6. ASSUME Undisturbed PROVE native \notin Foreign
    <2>1. loose = {}
      BY <1>1, <1>6 DEF IInv, LooseAt, TypeOK
    <2>2. native \notin Strangers
      BY <1>6 DEF IInv, Undisturbed
    <2> QED
      BY <2>1, <2>2 DEF Foreign
  <1> QED
    BY <1>3, <1>5, <1>6

LEMMA WaitLockedKeeps ==
    ASSUME IInv, NEW l \in Launchers, WaitLocked(l)
    PROVE  IInv'
  <1> USE DEF WaitLocked, Goto, At, Processes, profile, locks
  <1>1. /\ TypeOK /\ SafeAt(l) /\ GuardAt(l) /\ LooseAt(l) /\ l \in Browsers
        /\ (probe # None => native = None) /\ l # None /\ l # Torn /\ l \notin Strangers
    BY OfOne, ProcessAssumption DEF IInv, Browsers
  <1>2. TypeOK'
    BY <1>1 DEF TypeOK, Preparing
  <1>3. SafeAt(l)' /\ (probe' # None => native' = None)
    BY <1>1 DEF TypeOK, SafeAt, ExclusiveAt, Preparing, Before, Checked, After
  <1>4. GuardAt(l)'
    BY <1>1 DEF TypeOK, SafeAt, GuardAt, Foreign, Alive, Checked, Waiting, After
  <1>5. Moves(l)
    BY <1>1 DEF Moves, TypeOK
  <1>6. LooseAt(l)'
    <2>1. Undisturbed => browser[l] = "running"
      BY <1>1, OwnLock DEF SafeAt
    <2> QED
      BY <1>1, <1>5, <2>1, StaysDisturbed DEF TypeOK, LooseAt
  <1> QED
    BY <1>2, <1>3, <1>4, <1>5, <1>6, OthersKeep

-----------------------------------------------------------------------------
(***************************************************************************)
(* Firefox, and people.                                                     *)
(***************************************************************************)
\* Firefox gets the lock only when it is free, and its start is part of a launch.
LEMMA BrowserKeeps ==
    ASSUME IInv, NEW b \in Browsers, BrowserStep(b)
    PROVE  IInv'
  <1> USE DEF BrowserStep, BrowserLock, BrowserRefused, BrowserExit, EndBrowser, Outside,
          Free, Alive, profile
  <1>1. /\ TypeOK /\ b # None /\ (probe # None => native = None)
        /\ UNCHANGED <<prep, lease, probe, pc, watch, loose>>
        /\ browser[b] = "running" <=> native = b
    BY ProcessAssumption DEF IInv, Browsers, SafeAt
  <1>2. /\ \A a \in Browsers \ {b} : browser'[a] = browser[a] /\ (native' = a <=> native = a)
        /\ browser'[b] \in {"running", "exited"} /\ browser[b] \in {"starting", "running"}
        /\ browser'[b] = "running" <=> native' = b
        /\ native' \in {native, None, b}
        /\ native' = b /\ native # b => native = None /\ probe = None /\ browser[b] = "starting"
    BY <1>1, ProcessAssumption DEF TypeOK, Browsers
  <1>3. TypeOK'
    BY <1>1 DEF TypeOK
  <1>4. \A l \in Launchers : SafeAt(l)'
    <2> SUFFICES ASSUME NEW l \in Launchers PROVE SafeAt(l)'
      OBVIOUS
    <2>1. SafeAt(l) /\ l \in Browsers
      BY DEF IInv, Browsers
    <2> QED
      BY <1>1, <1>2, <2>1 DEF SafeAt, ExclusiveAt, Cleaning
  <1>5. \A s \in Strangers : browser'[s] = "running" <=> native' = s
    BY <1>2 DEF IInv, Browsers
  <1>6. probe' # None => native' = None
    BY <1>1, <1>2
  <1>7. \A l \in Launchers : GuardAt(l)'
    <2> SUFFICES ASSUME NEW l \in Launchers PROVE GuardAt(l)'
      OBVIOUS
    <2>1. SafeAt(l) /\ GuardAt(l) /\ l \in Browsers /\ Foreign' = Foreign
      BY DEF IInv, Browsers, Foreign
    <2>2. ASSUME native' = b, native # b, pc[l] \in Checked \cup Waiting
          PROVE  b \in {l} \cup Foreign /\ (b = l => pc[l] \in Waiting)
      <3>1. prep = l /\ browser[b] = "starting"
        BY <1>2, <2>1, <2>2 DEF SafeAt, ExclusiveAt, Checked, Waiting, Preparing
      <3>2. b \in Launchers => b = l \/ b \in loose
        BY <3>1 DEF IInv, GuardAt
      <3> QED
        BY <2>1, <2>2, <3>1, <3>2 DEF Browsers, Foreign, SafeAt, Before
    <2>3. browser'[l] = "starting" => browser[l] = "starting"
      BY <1>2, <2>1
    <2>4. Alive(l)' => Alive(l)
      BY <1>2, <2>1
    <2> QED
      BY <1>1, <1>2, <2>1, <2>2, <2>3, <2>4 DEF GuardAt, Checked, Waiting
  <1>8. \A l \in Launchers : LooseAt(l)'
    <2>1. Undisturbed' => Undisturbed
      BY <1>2 DEF Undisturbed, Browsers, At
    <2>2. \A l \in Launchers : browser'[l] = "starting" => browser[l] = "starting"
      BY <1>2 DEF Browsers
    <2> QED
      BY <1>1, <2>1, <2>2 DEF IInv, LooseAt
  <1> QED
    BY <1>3, <1>4, <1>5, <1>6, <1>7, <1>8 DEF IInv

LEMMA StrangerKeeps ==
    ASSUME IInv, NEW s \in Strangers, StrangerStart(s)
    PROVE  IInv'
  <1> USE DEF StrangerStart, Outside, profile
  <1>1. TypeOK /\ s \in Browsers /\ s \notin Launchers
    BY ProcessAssumption DEF IInv, Browsers
  <1>2. /\ \A b \in Browsers \ {s} : browser'[b] = browser[b]
        /\ browser'[s] = "starting" /\ browser[s] = "none" /\ native' = native
    BY <1>1 DEF TypeOK
  <1>3. TypeOK'
    BY <1>1 DEF TypeOK
  <1>4. \A l \in Launchers : SafeAt(l)'
    BY <1>1, <1>2 DEF IInv, SafeAt, ExclusiveAt, Browsers
  <1>5. \A r \in Strangers : browser'[r] = "running" <=> native' = r
    BY <1>2 DEF IInv, Browsers
  <1>6. \A l \in Launchers : GuardAt(l)'
    BY <1>1, <1>2 DEF IInv, GuardAt, Foreign, Alive, Browsers
  <1>7. ~Undisturbed'
    BY <1>2 DEF Undisturbed
  <1> QED
    BY <1>1, <1>2, <1>3, <1>4, <1>5, <1>6, <1>7 DEF IInv, LooseAt

\* A directory that is cleared is that of a process that is gone.
LEMMA ClearKeeps ==
    ASSUME IInv, ClearPreparation
    PROVE  IInv'
  <1> USE DEF ClearPreparation, Unguard, locks
  <1>1. TypeOK /\ prep \in Launchers /\ prep' = None
        /\ UNCHANGED <<lease, native, probe, pc, watch, browser>>
    BY DEF IInv, TypeOK
  <1>2. \A l \in Launchers : pc[l] \notin Preparing /\ watch[l] \notin Cleaning
    <2>1. SafeAt(prep) /\ Gone(prep)
      BY <1>1 DEF IInv
    <2>2. pc[prep] \notin Preparing /\ watch[prep] \notin Cleaning
      BY <2>1 DEF Gone, SafeAt, Preparing, Cleaning, After
    <2> QED
      BY <1>1, <2>2, Alone
  <1>3. TypeOK'
    BY <1>1 DEF TypeOK
  <1>4. \A l \in Launchers : SafeAt(l)'
    BY <1>1, <1>2 DEF IInv, SafeAt, ExclusiveAt
  <1>5. /\ loose \subseteq loose' /\ loose' \subseteq loose \cup {prep}
        /\ browser[prep] = "starting" => prep \in loose'
    OBVIOUS
  <1>6. \A l \in Launchers : GuardAt(l)'
    BY <1>1, <1>2, <1>5 DEF IInv, GuardAt, Alive, Checked, Waiting, Preparing
  <1>7. \A l \in Launchers : LooseAt(l)'
    <2> SUFFICES ASSUME Undisturbed' PROVE \A l \in Launchers : LooseAt(l)'
      BY DEF LooseAt
    <2>1. Undisturbed
      BY <1>1, <1>5 DEF Undisturbed, At
    <2>2. loose = {}
      BY <1>1, <2>1 DEF IInv, LooseAt, TypeOK
    <2>3. ASSUME browser[prep] = "starting" PROVE FALSE
      <3>1. pc[prep] # "dead"
        BY <1>1, <1>5, <2>3 DEF Undisturbed, At
      <3>2. pc[prep] \in {"failed", "ended"}
        BY <3>1 DEF Gone
      <3> QED
        BY <1>1, <2>1, <2>3, <3>2 DEF IInv, SafeAt, LooseAt
    <2>4. loose' = loose
      BY <2>3
    <2> QED
      BY <1>1, <2>1, <2>4 DEF IInv, LooseAt
  <1> QED
    BY <1>1, <1>3, <1>4, <1>6, <1>7 DEF IInv

LEMMA Step == IInv /\ [Next]_vars => IInv'
  <1> SUFFICES ASSUME IInv, [Next]_vars PROVE IInv'
    OBVIOUS
  <1>1. CASE UNCHANGED vars
    BY <1>1 DEF IInv, TypeOK, SafeAt, ExclusiveAt, GuardAt,
       LooseAt, Foreign, Alive, Undisturbed, At, vars, profile, locks
  <1>2. ASSUME NEW l \in Launchers,
               LaunchStep(l) \/ WaitFails(l) \/ WatchStep(l)
                 \/ StopServing(l) \/ CloseStep(l) \/ Crash(l)
        PROVE  IInv'
    BY <1>2, CheckKeeps, WaitKeeps, TimeoutKeeps, LeaseFileKeeps, UpdateKeeps,
       BrowserUseKeeps, AcquireKeeps, ReleaseKeeps, WatchKeeps, StopKeeps, QuitKeeps,
       KillKeeps, EndKeeps, WaitLockedKeeps DEF LaunchStep, WatchStep, CloseStep
  <1>3. ASSUME Next PROVE IInv'
    BY <1>2, <1>3, BrowserKeeps, StrangerKeeps, ClearKeeps DEF Next
  <1> QED
    BY <1>1, <1>3

\* No other step takes a launcher from the wait to the update of the lease.
LEMMA OnlyWaitLocked ==
    ASSUME IInv, Next, NEW l \in Launchers, pc[l] = "wait", pc'[l] = "update"
    PROVE  WaitLocked(l)
  <1> USE DEF Goto, At
  <1>1. TypeOK
    BY DEF IInv
  <1>2. PICK m \in Launchers :
           LaunchStep(m) \/ WaitFails(m) \/ WatchStep(m) \/ StopServing(m)
             \/ CloseStep(m) \/ Crash(m)
    BY DEF Next, BrowserStep, BrowserLock, BrowserRefused, BrowserExit, StrangerStart,
           Outside, ClearPreparation
  <1>3. \A k \in Launchers \ {m} : pc'[k] = pc[k]
    BY <1>1, <1>2 DEF TypeOK, LaunchStep, WatchStep, CloseStep, AcquirePreparation,
       CheckProbe, CheckEnd, CheckFails, CreateLease, RemoveStaleLease, WriteLease,
       StartFirefox, WriteFails, WaitExited, WaitLocked, WaitProbe, WaitEnd, WaitFails,
       StopCommand, TruncateLease, UpdateLease, UpdateFails, DropLease,
       ReleasePreparation, WatchExit, WatchRemove, WatchUnlock, StopServing, AskToQuit,
       QuitTimeout, Kill, CloseReturns, StopTimeout, Crash, End
  <1>4. m = l
    BY <1>3
  <1> QED
    BY <1>1, <1>2, <1>4 DEF TypeOK, LaunchStep, WatchStep, CloseStep, AcquirePreparation,
       CheckProbe, CheckEnd, CheckFails, CreateLease, RemoveStaleLease, WriteLease,
       StartFirefox, WriteFails, WaitExited, WaitProbe, WaitEnd, WaitFails, Leasing,
       StopCommand, TruncateLease, UpdateLease, UpdateFails, DropLease,
       ReleasePreparation, WatchExit, WatchRemove, WatchUnlock, StopServing, AskToQuit,
       QuitTimeout, Kill, CloseReturns, StopTimeout, Crash, End

LEMMA HonestStep ==
    IInv /\ [Next]_vars =>
        [\A l \in Launchers :
            At(l, "wait") /\ pc'[l] = "update" =>
                native \in {l} \cup Strangers \cup loose]_vars
  BY OnlyWaitLocked, OwnLock DEF At, Foreign

-----------------------------------------------------------------------------
(***************************************************************************)
(* The theorems.                                                            *)
(***************************************************************************)
\* What the launchers rely on, in every reachable state.
THEOREM Invariance == Spec => []IInv
  BY Initially, Step, PTL DEF Spec

\* The sorts of the variables.
THEOREM TypeCorrect == Spec => []TypeOK
  BY Invariance, Implies, PTL

\* One launch or clean-up at a time, with the directory there, and no probe that is
\* left in the native lock.
THEOREM Exclusive == Spec => []PreparationExclusive
  BY Invariance, Implies, PTL

\* The profile is not written under a Firefox that a lemmingd started, unless its
\* preparation directory was removed before it reached its lock.
THEOREM Untouched == Spec => []ProfileUntouched
  BY Invariance, Implies, PTL

\* The lease of a running Firefox is that of its lemmingd, with the same exception.
THEOREM LeaseKept == Spec => []LeaseOfRunning
  BY Invariance, Implies, PTL

\* A launch succeeds on the lock of its own Firefox, of a stranger's or of one that
\* the exception is about.
THEOREM Honest == Spec => LaunchHonest
  BY Invariance, HonestStep, PTL DEF Spec, LaunchHonest
==============================================================================
