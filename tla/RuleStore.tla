------------------------------ MODULE RuleStore ------------------------------
(***************************************************************************)
(* The redirect rules of lemmingd: config.json and rules.auto.json, the     *)
(* processes that read and write them (running lemmingds and the command    *)
(* "lemmingd config merge"), and the endpoint file that lets the command    *)
(* find a running lemmingd (internal/lemming/service.go,                    *)
(* internal/config/auto.go, internal/control/control.go, cmd/lemmingd).     *)
(*                                                                          *)
(* A rule is a model value; DomainOf tells the domain it routes.  A file is *)
(* the set of its rules, and a file without rules is a missing one.  Every  *)
(* lemmingd has the control API; one without it never writes a file.        *)
(* Service.mu is held through a whole change: a change begins with what it  *)
(* decides on memory and on the files it reads, and each file operation     *)
(* after that is a step of its own, before and after which the process may  *)
(* end.  A control API that closes answers no new client from the first     *)
(* moment on, but executes what it was asked before.                        *)
(***************************************************************************)
EXTENDS Integers, FiniteSets

CONSTANTS
    Daemons,       \* lemmingd processes of one configuration directory
    Mergers,       \* processes of "lemmingd config merge"
    Rules,         \* the rules there can be
    Domains,
    DomainOf,      \* DomainOf[r] is the domain of r
    MaxAutoRules,  \* config.MaxAutoRules
    FirstConfig,   \* the rules of config.json in the beginning
    Failing,       \* file operations that may fail
    Environment,   \* what people may do besides starting and stopping
    None

\* A change that is executed: "save" of AddRule and RemoveRule, or a merge.
Job == [at : {"save", "read", "backup", "config", "remove"},
        auto : SUBSET Rules, config : SUBSET Rules]

ASSUME RuleAssumption ==
    /\ DomainOf \in [Rules -> Domains]
    /\ MaxAutoRules \in Nat
    /\ FirstConfig \subseteq Rules
    /\ \A r, s \in FirstConfig : DomainOf[r] = DomainOf[s] => r = s
    /\ Failing \subseteq {"save", "backup", "config", "remove"}
    /\ Environment \subseteq {"crash", "overlap", "hasty", "editConfig", "removeAuto"}
    /\ None \notin Daemons \cup Rules /\ None \notin Job
    /\ Daemons \cap Mergers = {}

VARIABLES
    \* files
    config,    \* the rules of config.json
    auto,      \* the rules of rules.auto.json
    endpoint,  \* the living process that control.json names, or None
    \* each lemmingd
    pc,        \* how far run is
    base,      \* Service.base
    live,      \* Service.auto
    skipped,   \* Service.autoErr is set
    \* the proxy port
    port,      \* who listens on it, or None
    \* each process
    job,       \* the change it executes, or None
    \* history
    accepted,  \* rules that were added with success and not removed since
    edited     \* rules that people wrote into config.json

history == <<accepted, edited>>
files  == <<config, auto>>
memory == <<base, live, skipped>>
vars   == <<files, endpoint, pc, memory, port, job, history>>

Workers == Daemons \cup Mergers

Init ==
    /\ config = FirstConfig /\ auto = {}
    /\ endpoint = None /\ port = None
    /\ pc = [d \in Daemons |-> "off"]
    /\ base = [d \in Daemons |-> {}]
    /\ live = [d \in Daemons |-> {}]
    /\ skipped = [d \in Daemons |-> FALSE]
    /\ job = [w \in Workers |-> None]
    /\ accepted = {} /\ edited = FirstConfig

Goto(d, l) == pc' = [pc EXCEPT ![d] = l]
At(d, l)   == pc[d] = l

(***************************************************************************)
(* Helpers.  A definition named Bug... is its successor with a mistake that *)
(* the properties have to notice; no action uses it.                        *)
(***************************************************************************)
\* No domain is routed twice.
OneEach(rules) == \A r, s \in rules : DomainOf[r] = DomainOf[s] => r = s

\* ValidateRules: no domain is routed by two rules of the list b, then a.
BugNoDuplicateCheck(b, a) == TRUE

Valid(b, a) == b \cap a = {} /\ OneEach(b \cup a)

\* The control API's listener is open from control.Start to Close.
Listening(d) == pc[d] \in {"published", "serving", "closing"}

\* Requests that were received are executed until the process is gone.
Draining(d) == pc[d] \in {"draining", "removing", "ending"}

Answering(d) == Listening(d) \/ Draining(d)

\* Client.Do reads the address from control.json.
Reachable(d) == endpoint = d

\* A change is refused while rules.auto.json is skipped.
BugChangeSkipped(d) == Answering(d) /\ job[d] = None

Changeable(d) == Answering(d) /\ job[d] = None /\ ~skipped[d]

\* Merge's verify: config.json has the rules this process started with.
BugNoVerify(w, rules) == TRUE

Verified(w, rules) == w \in Daemons => rules = base[w]

\* Client.Do finds no process to ask: no control.json, or the dial is refused.
BugOfflineOnError == TRUE

NotRunning == \A d \in Daemons : Reachable(d) => ~Listening(d)

\* What Service.auto is after a merge.
BugAutoKept(d) == live[d]

Merged(d) == {}

\* The rules of the merged config.json.
BugOnlyAuto(w) == job[w].auto

Combined(w) == config \cup job[w].auto

BugOneMore(d) == Cardinality(live[d]) > MaxAutoRules

Full(d) == Cardinality(live[d]) >= MaxAutoRules

\* How New marks rules.auto.json that it could not load.
BugUnmarked(b, a) == FALSE

MustSkip(b, a) == ~Valid(b, a)

(***************************************************************************)
(* run: from the configuration to the proxy, and back.                      *)
(***************************************************************************)
Busy == \E w \in Workers : job[w] # None /\ job[w].at # "save"

\* Without "overlap" a lemmingd is started when no other one runs and no merge
\* is under way.
Start(d) ==
    /\ At(d, "off")
    /\ "overlap" \in Environment \/ (~Busy /\ \A e \in Daemons : At(e, "off"))
    /\ base' = [base EXCEPT ![d] = config]
    /\ Goto(d, "configured")
    /\ UNCHANGED <<files, endpoint, live, skipped, port, job, history>>

\* New: rules.auto.json is read, or skipped when the rules do not fit.
Load(d) ==
    /\ At(d, "configured")
    /\ live' = [live EXCEPT ![d] = IF Valid(base[d], auto) THEN auto ELSE {}]
    /\ skipped' = [skipped EXCEPT ![d] = MustSkip(base[d], auto)]
    /\ Goto(d, "loaded")
    /\ UNCHANGED <<files, endpoint, base, port, job, history>>

\* control.Start replaces control.json, whoever wrote it.
Publish(d) ==
    /\ At(d, "loaded")
    /\ endpoint' = d
    /\ Goto(d, "published")
    /\ UNCHANGED <<files, memory, port, job, history>>

\* ServeAfterListen: a port that is taken ends run.
Listen(d) ==
    /\ At(d, "published")
    /\ IF port = None THEN port' = d /\ Goto(d, "serving")
                      ELSE UNCHANGED port /\ Goto(d, "closing")
    /\ UNCHANGED <<files, endpoint, memory, job, history>>

\* A signal: the listener is closed, then Firefox, then the control API.
Stop(d) ==
    /\ At(d, "serving")
    /\ port' = None
    /\ Goto(d, "closing")
    /\ UNCHANGED <<files, endpoint, memory, job, history>>

\* Close: Shutdown closes the listener of the control API,
CloseListener(d) ==
    /\ At(d, "closing")
    /\ Goto(d, "draining")
    /\ UNCHANGED <<files, endpoint, memory, port, job, history>>

\* waits for what is executed, but five seconds at most, and compares the token.
CloseControl(d) ==
    /\ At(d, "draining")
    /\ Goto(d, IF endpoint = d THEN "removing" ELSE "ending")
    /\ UNCHANGED <<files, endpoint, memory, port, job, history>>

RemoveEndpoint(d) ==
    /\ At(d, "removing")
    /\ endpoint' = None
    /\ Goto(d, "ending")
    /\ UNCHANGED <<files, memory, port, job, history>>

\* What a process leaves when it is gone: a control.json that names nobody.
Gone(d) ==
    /\ endpoint' = IF endpoint = d THEN None ELSE endpoint
    /\ port' = IF port = d THEN None ELSE port
    /\ job' = [job EXCEPT ![d] = None]
    /\ Goto(d, "off")
    /\ UNCHANGED <<files, memory, history>>

\* run returns, whatever is still executed.
Exit(d) == At(d, "ending") /\ Gone(d)

Crash(d) == "crash" \in Environment /\ ~At(d, "off") /\ Gone(d)

(***************************************************************************)
(* AddRule and RemoveRule, for clients that read control.json at any time   *)
(* before.                                                                  *)
(***************************************************************************)
Task(l, a, c) == [at |-> l, auto |-> a, config |-> c]

SetJob(w, j) == job' = [job EXCEPT ![w] = j]

Working(w, l) == job[w] # None /\ job[w].at = l

\* An error ends the change where it is.
GiveUp(w) ==
    /\ SetJob(w, None)
    /\ UNCHANGED <<files, memory>>

AddRule(d, r) ==
    /\ Changeable(d)
    /\ ~Full(d)
    /\ \A s \in base[d] \cup live[d] : DomainOf[s] # DomainOf[r]
    /\ SetJob(d, Task("save", live[d] \cup {r}, {}))
    /\ UNCHANGED <<files, endpoint, pc, memory, port, history>>

RemoveRule(d, r) ==
    /\ Changeable(d)
    /\ \A s \in base[d] : DomainOf[s] # DomainOf[r]
    /\ r \in live[d]
    /\ SetJob(d, Task("save", live[d] \ {r}, {}))
    /\ UNCHANGED <<files, endpoint, pc, memory, port, history>>

\* WriteAutoRules replaces the file, and memory follows.
SaveRules(d) ==
    /\ Working(d, "save")
    /\ \/ /\ auto' = job[d].auto
          /\ live' = [live EXCEPT ![d] = job[d].auto]
          /\ SetJob(d, None)
          /\ accepted' = (accepted \ (live[d] \ job[d].auto)) \cup (job[d].auto \ live[d])
          /\ UNCHANGED <<config, base, skipped>>
       \/ "save" \in Failing /\ GiveUp(d) /\ UNCHANGED accepted
    /\ UNCHANGED <<endpoint, pc, port, edited>>

(***************************************************************************)
(* Merge, by a lemmingd that is asked, or by the command on the files.      *)
(***************************************************************************)
\* MergeAutoRules returns at once when there is no rule, and Merge takes that
\* for success.
BeginMerge(w) ==
    IF auto = {} THEN UNCHANGED job
                 ELSE SetJob(w, Task("read", auto, {}))

MoveToBase(d) ==
    /\ base' = [base EXCEPT ![d] = @ \cup live[d]]
    /\ live' = [live EXCEPT ![d] = Merged(d)]

AskedMerge(d) ==
    /\ Changeable(d)
    /\ BeginMerge(d)
    /\ IF auto = {} THEN MoveToBase(d) ELSE UNCHANGED <<base, live>>
    /\ UNCHANGED <<files, endpoint, pc, skipped, port, history>>

\* Without "hasty" the command is not given while a lemmingd starts, or has closed
\* the listener of its control API and is not gone yet.
OfflineMerge(m) ==
    /\ job[m] = None
    /\ NotRunning
    /\ "hasty" \in Environment
          \/ \A d \in Daemons : pc[d] \notin {"configured", "loaded"} /\ ~Draining(d)
    /\ BeginMerge(m)
    /\ UNCHANGED <<files, endpoint, pc, memory, port, history>>

MergeRead(w) ==
    /\ Working(w, "read")
    /\ IF Verified(w, config) /\ Valid(config, job[w].auto)
       THEN /\ SetJob(w, Task("backup", job[w].auto, Combined(w)))
            /\ UNCHANGED <<files, memory>>
       ELSE GiveUp(w)
    /\ UNCHANGED <<endpoint, pc, port, history>>

MergeBackup(w) ==
    /\ Working(w, "backup")
    /\ \/ /\ SetJob(w, [job[w] EXCEPT !.at = "config"])
          /\ UNCHANGED <<files, memory>>
       \/ "backup" \in Failing /\ GiveUp(w)
    /\ UNCHANGED <<endpoint, pc, port, history>>

MergeConfig(w) ==
    /\ Working(w, "config")
    /\ \/ /\ config' = job[w].config
          /\ SetJob(w, [job[w] EXCEPT !.at = "remove"])
          /\ UNCHANGED <<auto, memory>>
       \/ "config" \in Failing /\ GiveUp(w)
    /\ UNCHANGED <<endpoint, pc, port, history>>

MergeRemove(w) ==
    /\ Working(w, "remove")
    /\ \/ /\ auto' = {}
          /\ SetJob(w, None)
          /\ IF w \in Daemons THEN MoveToBase(w) ELSE UNCHANGED <<base, live>>
          /\ UNCHANGED <<config, skipped>>
       \/ "remove" \in Failing /\ GiveUp(w)
    /\ UNCHANGED <<endpoint, pc, port, history>>

(***************************************************************************)
(* People at the files, not during a merge.                                 *)
(***************************************************************************)
EditConfig(rules) ==
    /\ "editConfig" \in Environment /\ ~Busy
    /\ OneEach(rules) /\ rules # config
    /\ config' = rules
    /\ accepted' = accepted \ (config \ rules)
    /\ edited' = (edited \cap rules) \cup (rules \ config)
    /\ UNCHANGED <<auto, endpoint, pc, memory, port, job>>

\* "To discard the agent's rules instead, delete rules.auto.json and restart."
DeleteAuto ==
    /\ "removeAuto" \in Environment /\ ~Busy
    /\ auto # {}
    /\ auto' = {}
    /\ accepted' = accepted \ auto
    /\ UNCHANGED <<config, endpoint, pc, memory, port, job, edited>>

-----------------------------------------------------------------------------
RunStep(d) ==
    \/ Start(d) \/ Load(d) \/ Publish(d) \/ Listen(d)
    \/ Stop(d) \/ CloseListener(d) \/ CloseControl(d) \/ RemoveEndpoint(d)
    \/ Exit(d) \/ Crash(d)

MergeStep(w) ==
    MergeRead(w) \/ MergeBackup(w) \/ MergeConfig(w) \/ MergeRemove(w)

Next ==
    \/ \E d \in Daemons : RunStep(d) \/ AskedMerge(d) \/ SaveRules(d)
    \/ \E d \in Daemons, r \in Rules : AddRule(d, r) \/ RemoveRule(d, r)
    \/ \E m \in Mergers : OfflineMerge(m)
    \/ \E w \in Workers : MergeStep(w)
    \/ \E rules \in SUBSET Rules : EditConfig(rules)
    \/ DeleteAuto

Spec == Init /\ [][Next]_vars

-----------------------------------------------------------------------------
(***************************************************************************)
(* Properties                                                               *)
(***************************************************************************)
\* The sorts of the variables.
TypeOK ==
    /\ config \subseteq Rules /\ auto \subseteq Rules
    /\ accepted \subseteq Rules /\ edited \subseteq Rules
    /\ endpoint \in Daemons \cup {None} /\ port \in Daemons \cup {None}
    /\ pc \in [Daemons -> {"off", "configured", "loaded", "published",
                           "serving", "closing", "draining", "removing", "ending"}]
    /\ base \in [Daemons -> SUBSET Rules]
    /\ live \in [Daemons -> SUBSET Rules]
    /\ skipped \in [Daemons -> BOOLEAN]
    /\ job \in [Workers -> Job \cup {None}]

\* A rule that was added with success is in one of the files until somebody
\* removes it, and one that people wrote into config.json stays there: over merges
\* that fail, are cut off at any file operation or run at the same time, and over
\* starts that skip rules.auto.json because it conflicts with an edit.
AcceptedKept ==
    /\ accepted \subseteq config \cup auto
    /\ edited \subseteq config

\* The rules a start would route with the files as they are: New falls back to
\* config.json when the two files do not fit together.
Effective == IF Valid(config, auto) THEN config \cup auto ELSE config

EditClash == \E r \in edited, s \in auto : DomainOf[r] = DomainOf[s]

\* ... and the next start routes it, unless people wrote a rule for the domain of
\* an added one into config.json.  A merge that was cut off leaves rules in both
\* files, which New takes for a conflict; nothing may be added then.
NextStartRoutes == ~EditClash => accepted \subseteq Effective

\* Between changes a running lemmingd routes what rules.auto.json holds, which is
\* never more than MaxAutoRules.
LiveMatchesFile ==
    /\ \A d \in Daemons :
          Answering(d) /\ ~skipped[d] /\ job[d] = None => live[d] = auto
    /\ Cardinality(auto) <= MaxAutoRules

\* Neither a running lemmingd nor config.json ever routes one domain by two rules,
\* whoever starts, changes and merges at the same time, so that no start fails.
OneRulePerDomain ==
    /\ OneEach(config)
    /\ \A d \in Daemons : Answering(d) => OneEach(base[d] \cup live[d])

\* The command edits the files itself only when no lemmingd is running.
MergeAsksRunning ==
    \A m \in Mergers, d \in Daemons : job[m] # None => ~At(d, "serving")

\* When Merge reports success to its caller, the rules it counts as those of
\* config.json are those of config.json.
MergedMatches ==
    [][\A d \in Daemons :
          Answering(d) /\ base'[d] # base[d] => base'[d] = config']_vars
=============================================================================
