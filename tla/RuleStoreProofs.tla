---------------------------- MODULE RuleStoreProofs ----------------------------
(***************************************************************************)
(* Theorems about RuleStore, for any processes, rules and failures, with    *)
(* and without "overlap" and edits.                                         *)
(*                                                                          *)
(* A merge decides with the config.json it read and replaces the file two   *)
(* steps later, whatever happened to it in between: what makes the new file *)
(* right is the job, so the invariant speaks of jobs as well.  Likewise a   *)
(* lemmingd that only has its configuration may fall back to it.            *)
(*                                                                          *)
(* The second part is about the two files and what processes know of them,  *)
(* for processes that do not overlap (FInv): several commands may merge at  *)
(* the same time, any of them may end at any file operation, and a lemmingd *)
(* executes what it was asked until it is gone.                             *)
(***************************************************************************)
EXTENDS RuleStore, FiniteSetTheorems, TLAPS

\* What a merge is going to write routes no domain twice.
JobsSound ==
    \A w \in Workers : job[w] # None /\ job[w].at # "read" => OneEach(job[w].config)

\* What a lemmingd has read so far routes no domain twice.
MemorySound ==
    \A d \in Daemons :
        /\ pc[d] = "configured" => OneEach(base[d])
        /\ pc[d] \notin {"off", "configured"} => OneEach(base[d] \cup live[d])

\* A lemmingd changes the rules because it was asked to, and executes requests all
\* the while; the command only merges.
JobsAsked ==
    /\ \A d \in Daemons : job[d] # None => Answering(d)
    /\ \A m \in Mergers : job[m] # None => job[m].at # "save"

\* What AddRule and RemoveRule are going to save goes with what the lemmingd has.
ChangesSound ==
    \A d \in Daemons :
        job[d] # None /\ job[d].at = "save" => OneEach(base[d] \cup job[d].auto)

IInv ==
    TypeOK /\ OneEach(config) /\ JobsSound /\ MemorySound /\ JobsAsked /\ ChangesSound

-----------------------------------------------------------------------------
LEMMA OneEachEmpty == OneEach({})
  BY DEF OneEach

LEMMA OneEachSmaller ==
    ASSUME NEW S, NEW T, OneEach(S), T \subseteq S PROVE OneEach(T)
  BY DEF OneEach

\* A rule for a domain that has none.
LEMMA OneEachAdd ==
    ASSUME NEW S, NEW r, OneEach(S), \A s \in S : DomainOf[s] # DomainOf[r]
    PROVE  OneEach(S \cup {r})
  BY DEF OneEach

LEMMA Implies == IInv => TypeOK /\ OneRulePerDomain
  BY DEF IInv, MemorySound, OneRulePerDomain, Answering, Listening, Draining

LEMMA Initially == Init => IInv
  <1> SUFFICES ASSUME Init PROVE IInv
    OBVIOUS
  <1> USE RuleAssumption DEF Init
  <1>1. TypeOK
    BY DEF TypeOK, Workers
  <1>2. OneEach(config)
    BY DEF OneEach
  <1>3. JobsSound /\ MemorySound /\ JobsAsked /\ ChangesSound
    BY DEF JobsSound, MemorySound, JobsAsked, ChangesSound, Workers
  <1> QED
    BY <1>1, <1>2, <1>3 DEF IInv

-----------------------------------------------------------------------------
(***************************************************************************)
(* The steps.                                                               *)
(***************************************************************************)
\* A change that was begun stays sound while its lemmingd waits for it.
LEMMA ChangesKept ==
    ASSUME ChangesSound,
           \A d \in Daemons : job'[d] # None /\ job'[d].at = "save" =>
                               job'[d] = job[d] /\ base'[d] = base[d]
    PROVE  ChangesSound'
  BY DEF ChangesSound, OneEach

LEMMA RunKeeps ==
    ASSUME IInv, NEW d \in Daemons, RunStep(d)
    PROVE  IInv'
  <1> USE DEF IInv, Goto, At, files, memory, history
  <1>0. JobsAsked'
    <2>1. \A w \in Workers : job'[w] = None \/ job'[w] = job[w]
      BY DEF TypeOK, RunStep, Start, Load, Publish, Listen, Stop, CloseListener,
             CloseControl, RemoveEndpoint, Exit, Crash, Gone
    <2>2. \A e \in Daemons : job'[e] # None => Answering(e)'
      <3>1. \A e \in Daemons : job'[e] # None => job[e] # None /\ Answering(e)
        BY <2>1 DEF JobsAsked, Workers
      <3>2. \A e \in Daemons : e # d => pc'[e] = pc[e]
        BY DEF TypeOK, RunStep, Start, Load, Publish, Listen, Stop, CloseListener,
               CloseControl, RemoveEndpoint, Exit, Crash, Gone
      <3>3. pc[d] \notin {"off", "configured", "loaded"} =>
               Answering(d)' \/ job'[d] = None
        BY DEF TypeOK, Workers, Answering, Listening, Draining, RunStep, Start, Load, Publish,
               Listen, Stop, CloseListener, CloseControl, RemoveEndpoint, Exit, Crash, Gone
      <3> QED
        BY <3>1, <3>2, <3>3 DEF Answering, Listening, Draining
    <2> QED
      BY <2>1, <2>2 DEF JobsAsked, Workers
  <1>10. ChangesSound'
    <2>1. \A e \in Daemons : job'[e] = None \/ (job'[e] = job[e] /\ base'[e] = base[e])
      <3>1. CASE Start(d)
        <4>1. job[d] = None
          BY <3>1 DEF Start, JobsAsked, Answering, Listening, Draining
        <4>2. job' = job /\ \A e \in Daemons : e # d => base'[e] = base[e]
          BY <3>1 DEF Start, TypeOK
        <4> QED
          BY <4>1, <4>2
      <3>2. CASE ~Start(d)
        <4>1. UNCHANGED base /\ (UNCHANGED job \/ job' = [job EXCEPT ![d] = None])
          BY <3>2 DEF RunStep, Load, Publish, Listen, Stop, CloseListener, CloseControl,
                      RemoveEndpoint, Exit, Crash, Gone
        <4> QED
          BY <4>1 DEF TypeOK, Workers
      <3> QED
        BY <3>1, <3>2
    <2> QED
      BY <2>1, ChangesKept
  <1>1. CASE Start(d)
    <2> USE <1>1 DEF Start
    <2>1. TypeOK'
      BY DEF TypeOK
    <2>2. OneEach(config)' /\ JobsSound'
      BY DEF JobsSound, OneEach
    <2>3. MemorySound'
      BY DEF MemorySound, TypeOK, OneEach
    <2> QED
      BY <1>0, <1>10, <2>1, <2>2, <2>3
  <1>2. CASE Load(d)
    <2> USE <1>2 DEF Load
    <2>1. TypeOK'
      <3>1. MustSkip(base[d], auto) \in BOOLEAN
        BY DEF MustSkip, Valid
      <3>2. skipped' \in [Daemons -> BOOLEAN]
        BY <3>1 DEF TypeOK
      <3>3. live' \in [Daemons -> SUBSET Rules]
        BY DEF TypeOK
      <3>4. pc' \in [Daemons -> {"off", "configured", "loaded", "published",
                                 "serving", "closing", "draining", "removing",
                                 "ending"}]
        BY DEF TypeOK
      <3> QED
        BY <3>2, <3>3, <3>4 DEF TypeOK
    <2>2. OneEach(config)' /\ JobsSound'
      BY DEF JobsSound, OneEach
    <2>3. OneEach(base[d] \cup live'[d])
      <3>1. OneEach(base[d])
        BY DEF MemorySound
      <3>2. CASE Valid(base[d], auto)
        BY <3>2 DEF Valid, TypeOK
      <3>3. CASE ~Valid(base[d], auto)
        BY <3>1, <3>3 DEF TypeOK, OneEach
      <3> QED
        BY <3>2, <3>3
    <2>4. MemorySound'
      BY <2>3 DEF MemorySound, TypeOK, OneEach
    <2> QED
      BY <1>0, <1>10, <2>1, <2>2, <2>4
  <1>3. CASE \/ Publish(d) \/ Listen(d) \/ Stop(d)
             \/ CloseListener(d) \/ CloseControl(d) \/ RemoveEndpoint(d)
    <2> USE <1>3 DEF Publish, Listen, Stop, CloseListener, CloseControl, RemoveEndpoint
    <2>1. TypeOK'
      BY DEF TypeOK
    <2>2. OneEach(config)' /\ JobsSound'
      BY DEF JobsSound, OneEach
    <2>3. /\ pc[d] \notin {"off", "configured"} /\ pc'[d] # "configured"
          /\ \A e \in Daemons \ {d} : pc'[e] = pc[e]
      BY DEF TypeOK
    <2>4. MemorySound'
      BY <2>3 DEF MemorySound, OneEach
    <2> QED
      BY <1>0, <1>10, <2>1, <2>2, <2>4
  <1>4. CASE Exit(d) \/ Crash(d)
    <2> USE <1>4 DEF Exit, Crash, Gone
    <2>1. TypeOK'
      BY DEF TypeOK, Workers
    <2>2. OneEach(config)' /\ JobsSound'
      BY DEF JobsSound, OneEach, TypeOK, Workers
    <2>3. MemorySound'
      BY DEF MemorySound, TypeOK, OneEach
    <2> QED
      BY <1>0, <1>10, <2>1, <2>2, <2>3
  <1> QED
    BY <1>1, <1>2, <1>3, <1>4 DEF RunStep

\* A rule is added only for a domain that has none.
LEMMA ChangeKeeps ==
    ASSUME IInv, NEW d \in Daemons, NEW r \in Rules, AddRule(d, r) \/ RemoveRule(d, r)
    PROVE  IInv'
  <1> USE DEF IInv, AddRule, RemoveRule
  <1>1. PICK A \in SUBSET Rules :
           /\ SetJob(d, Task("save", A, {}))
           /\ OneEach(base[d] \cup live[d]) => OneEach(base[d] \cup A)
    <2>1. CASE AddRule(d, r)
      <3>1. base[d] \cup (live[d] \cup {r}) = (base[d] \cup live[d]) \cup {r}
        OBVIOUS
      <3>2. \A s \in base[d] \cup live[d] : DomainOf[s] # DomainOf[r]
        BY <2>1
      <3>3. OneEach(base[d] \cup live[d]) => OneEach(base[d] \cup (live[d] \cup {r}))
        BY <3>1, <3>2, OneEachAdd
      <3> QED
        BY <2>1, <3>3 DEF TypeOK
    <2>2. CASE RemoveRule(d, r)
      <3>1. base[d] \cup (live[d] \ {r}) \subseteq base[d] \cup live[d]
        OBVIOUS
      <3>2. OneEach(base[d] \cup live[d]) => OneEach(base[d] \cup (live[d] \ {r}))
        BY <3>1, OneEachSmaller
      <3> QED
        BY <2>2, <3>2 DEF TypeOK
    <2> QED
      BY <2>1, <2>2
  <1> DEFINE j == Task("save", A, {})
  <1>2. j \in Job /\ j.at = "save" /\ j.auto = A /\ j.config = {}
    BY DEF Task, Job
  <1>3. /\ UNCHANGED <<files, endpoint, pc, memory, port, history>> /\ Answering(d)
        /\ job' = [job EXCEPT ![d] = j]
    BY <1>1 DEF Changeable, SetJob
  <1> HIDE DEF j
  <1>4. job' \in [Workers -> Job \cup {None}] /\ job'[d] = j
        /\ \A w \in Workers : w # d => job'[w] = job[w]
    BY <1>2, <1>3 DEF TypeOK, Workers
  <1>5. TypeOK' /\ OneEach(config)' /\ MemorySound'
    BY <1>3, <1>4 DEF TypeOK, MemorySound, OneEach, files, memory, history
  <1>6. JobsSound'
    BY <1>2, <1>4, OneEachEmpty DEF JobsSound, OneEach
  <1>7. JobsAsked'
    BY <1>3, <1>4, RuleAssumption DEF JobsAsked, Answering, Listening, Draining, Workers
  <1>8. ChangesSound'
    <2>1. OneEach(base[d] \cup A)
      BY <1>1, <1>3 DEF MemorySound, Answering, Listening, Draining
    <2>2. base' = base
      BY <1>3 DEF memory
    <2> QED
      BY <1>2, <1>4, <2>1, <2>2 DEF ChangesSound, OneEach, Workers
  <1> QED
    BY <1>5, <1>6, <1>7, <1>8

\* Memory becomes what was found sound when the change began.
LEMMA SaveKeeps ==
    ASSUME IInv, NEW d \in Daemons, SaveRules(d)
    PROVE  IInv'
  <1> USE DEF IInv
  <1>1. /\ job[d] # None /\ job[d].at = "save" /\ job[d] \in Job
        /\ job' = [job EXCEPT ![d] = None]
        /\ UNCHANGED <<config, base, skipped, endpoint, pc, port, edited>>
    BY DEF SaveRules, Working, SetJob, GiveUp, TypeOK, Workers, files, memory
  <1>2. /\ job' \in [Workers -> Job \cup {None}] /\ job'[d] = None
        /\ \A w \in Workers : w # d => job'[w] = job[w]
    BY <1>1 DEF TypeOK, Workers
  <1>3. \/ UNCHANGED <<auto, live, accepted>>
        \/ /\ auto' = job[d].auto /\ live' = [live EXCEPT ![d] = job[d].auto]
           /\ accepted' = (accepted \ (live[d] \ job[d].auto)) \cup (job[d].auto \ live[d])
    BY DEF SaveRules, GiveUp, files, memory
  <1>4. job[d].auto \subseteq Rules
    BY <1>1 DEF Job
  <1>5. TypeOK'
    <2>1. /\ auto' \subseteq Rules /\ accepted' \subseteq Rules
          /\ live' \in [Daemons -> SUBSET Rules]
      BY <1>3, <1>4 DEF TypeOK
    <2> QED
      BY <1>1, <1>2, <2>1 DEF TypeOK
  <1>6. OneEach(config)' /\ JobsSound'
    BY <1>1, <1>2 DEF JobsSound, OneEach
  <1>7. JobsAsked' /\ ChangesSound'
    <2>1. JobsAsked'
      BY <1>1, <1>2 DEF JobsAsked, Answering, Listening, Draining, Workers
    <2>2. ChangesSound'
      BY <1>1, <1>2, ChangesKept DEF Workers
    <2> QED
      BY <2>1, <2>2
  <1>8. MemorySound'
    <2>1. OneEach(base[d] \cup job[d].auto)
      BY <1>1 DEF ChangesSound
    <2>2. /\ \A e \in Daemons : e # d => live'[e] = live[e]
          /\ live'[d] = live[d] \/ live'[d] = job[d].auto
      BY <1>3 DEF TypeOK
    <2> QED
      BY <1>1, <2>1, <2>2 DEF MemorySound, OneEach
  <1> QED
    BY <1>5, <1>6, <1>7, <1>8

\* The added rules of one lemmingd become rules of its configuration.
LEMMA MoveKeeps ==
    ASSUME TypeOK, MemorySound, NEW d \in Daemons, MoveToBase(d), UNCHANGED pc,
           pc[d] # "configured"
    PROVE  /\ MemorySound'
           /\ base' \in [Daemons -> SUBSET Rules] /\ live' \in [Daemons -> SUBSET Rules]
  <1> USE DEF MoveToBase, Merged, TypeOK
  <1>1. base' \in [Daemons -> SUBSET Rules] /\ live' \in [Daemons -> SUBSET Rules]
    OBVIOUS
  <1>2. base'[d] \cup live'[d] = base[d] \cup live[d]
    OBVIOUS
  <1>3. \A e \in Daemons \ {d} : base'[e] = base[e] /\ live'[e] = live[e]
    OBVIOUS
  <1> QED
    BY <1>1, <1>2, <1>3 DEF MemorySound, OneEach

LEMMA BeginKeeps ==
    ASSUME IInv, NEW w \in Workers, BeginMerge(w), w \in Daemons => Answering(w),
           UNCHANGED pc
    PROVE  /\ JobsSound' /\ JobsAsked' /\ job' \in [Workers -> Job \cup {None}]
           /\ \A v \in Workers : v # w => job'[v] = job[v]
           /\ job'[w] = job[w] \/ job'[w].at = "read"
  <1> USE DEF IInv
  <1>1. job' = job \/ job' = [job EXCEPT ![w] = Task("read", auto, {})]
    BY DEF BeginMerge, SetJob
  <1>2. Task("read", auto, {}) \in Job /\ Task("read", auto, {}).at = "read"
    BY DEF Task, Job, TypeOK
  <1>3. job' \in [Workers -> Job \cup {None}]
    BY <1>1, <1>2 DEF TypeOK
  <1>4. \A v \in Workers : job'[v] = job[v] \/ (v = w /\ job'[v] = Task("read", auto, {}))
    BY <1>1 DEF TypeOK
  <1>5. JobsSound'
    BY <1>2, <1>4 DEF JobsSound, OneEach
  <1>6. JobsAsked'
    <2>1. \A d \in Daemons : job'[d] # None => Answering(d)'
      BY <1>4 DEF JobsAsked, Answering, Listening, Draining, Workers
    <2>2. \A m \in Mergers : job'[m] # None => job'[m].at # "save"
      BY <1>2, <1>4 DEF JobsAsked, Workers
    <2> QED
      BY <2>1, <2>2 DEF JobsAsked
  <1> QED
    BY <1>2, <1>3, <1>4, <1>5, <1>6

LEMMA AskKeeps ==
    ASSUME IInv, NEW d \in Daemons, AskedMerge(d)
    PROVE  IInv'
  <1> USE DEF IInv, AskedMerge, files, history
  <1>1. Answering(d) /\ d \in Workers /\ job[d] = None
    BY DEF Changeable, Workers
  <1>2. /\ JobsSound' /\ JobsAsked' /\ job' \in [Workers -> Job \cup {None}]
        /\ \A v \in Workers : v # d => job'[v] = job[v]
        /\ job'[d] = None \/ job'[d].at = "read"
    BY <1>1, BeginKeeps
  <1>3. /\ MemorySound'
        /\ base' \in [Daemons -> SUBSET Rules] /\ live' \in [Daemons -> SUBSET Rules]
    <2>1. CASE MoveToBase(d)
      BY <1>1, <2>1, MoveKeeps DEF Answering, Listening, Draining
    <2>2. CASE UNCHANGED <<base, live>>
      BY <2>2 DEF MemorySound, OneEach, TypeOK
    <2> QED
      BY <2>1, <2>2
  <1>4. TypeOK'
    BY <1>2, <1>3 DEF TypeOK
  <1>5. \A e \in Daemons : e # d => base'[e] = base[e]
    BY DEF MoveToBase, TypeOK
  <1>6. ChangesSound'
    BY <1>2, <1>5, ChangesKept DEF Workers
  <1> QED
    BY <1>2, <1>3, <1>4, <1>6 DEF OneEach

LEMMA OfflineKeeps ==
    ASSUME IInv, NEW m \in Mergers, OfflineMerge(m)
    PROVE  IInv'
  <1> USE DEF IInv, OfflineMerge, files, memory, history
  <1>1. m \in Daemons => FALSE
    BY RuleAssumption
  <1>2. /\ JobsSound' /\ JobsAsked' /\ job' \in [Workers -> Job \cup {None}]
        /\ \A v \in Workers : v # m => job'[v] = job[v]
    BY <1>1, BeginKeeps DEF Workers
  <1>3. TypeOK' /\ MemorySound' /\ OneEach(config)'
    BY <1>2 DEF TypeOK, MemorySound, OneEach
  <1>4. ChangesSound'
    BY <1>1, <1>2, ChangesKept DEF Workers
  <1> QED
    BY <1>2, <1>3, <1>4

\* The file operations of a merge: config.json becomes what was found sound.
LEMMA MergeKeeps ==
    ASSUME IInv, NEW w \in Workers, MergeStep(w)
    PROVE  IInv'
  <1> USE DEF IInv, MergeStep, files, memory, history, Working
  <1>1. job[w] # None /\ job[w] \in Job /\ job[w].at # "save"
    BY DEF MergeRead, MergeBackup, MergeConfig, MergeRemove, TypeOK
  <1>2. PICK j \in Job \cup {None} :
           /\ job' = [job EXCEPT ![w] = j]
           /\ j # None => j.at # "save"
           /\ j # None /\ j.at # "read" => OneEach(j.config)
    <2>1. CASE MergeRead(w)
      <3>1. CASE Valid(config, job[w].auto) /\ job' = [job EXCEPT ![w] = Task("backup", job[w].auto, Combined(w))]
        <4> DEFINE j == Task("backup", job[w].auto, Combined(w))
        <4>1. j \in Job
          BY <1>1 DEF Task, Job, Combined, TypeOK
        <4>2. j.config = config \cup job[w].auto /\ j.at = "backup"
          BY DEF Task, Combined
        <4>3. OneEach(j.config)
          BY <3>1, <4>2 DEF Valid
        <4> QED
          BY <3>1, <4>1, <4>2, <4>3
      <3> QED
        BY <2>1, <3>1 DEF MergeRead, SetJob, GiveUp
    <2>2. CASE MergeBackup(w) \/ MergeConfig(w)
      <3>1. CASE job' = [job EXCEPT ![w] = None]
        BY <3>1
      <3>2. CASE \E l \in {"config", "remove"} : job' = [job EXCEPT ![w] = [job[w] EXCEPT !.at = l]]
        <4>1. PICK l \in {"config", "remove"} : job' = [job EXCEPT ![w] = [job[w] EXCEPT !.at = l]]
          BY <3>2
        <4>2. /\ [job[w] EXCEPT !.at = l] \in Job
              /\ [job[w] EXCEPT !.at = l].config = job[w].config
              /\ [job[w] EXCEPT !.at = l].at = l
          BY <1>1 DEF Job
        <4>3. OneEach(job[w].config)
          BY <1>1, <2>2 DEF MergeBackup, MergeConfig, JobsSound
        <4> QED
          BY <4>1, <4>2, <4>3
      <3> QED
        BY <2>2, <3>1, <3>2 DEF MergeBackup, MergeConfig, SetJob, GiveUp
    <2>3. CASE MergeRemove(w)
      BY <2>3 DEF MergeRemove, SetJob, GiveUp
    <2> QED
      BY <2>1, <2>2, <2>3
  <1>3. \A v \in Workers : v # w => job'[v] = job[v]
    BY <1>2 DEF TypeOK
  <1>4. job'[w] = j /\ job' \in [Workers -> Job \cup {None}]
    BY <1>2 DEF TypeOK
  <1>5. JobsSound'
    BY <1>2, <1>3, <1>4 DEF JobsSound, OneEach
  <1>6. UNCHANGED <<pc, endpoint, port, history, skipped>>
    BY DEF MergeRead, MergeBackup, MergeConfig, MergeRemove, GiveUp
  <1>7. JobsAsked'
    <2>1. \A d \in Daemons : job'[d] # None => Answering(d)'
      BY <1>1, <1>3, <1>6 DEF JobsAsked, Answering, Listening, Draining, Workers
    <2>2. \A m \in Mergers : job'[m] # None => job'[m].at # "save"
      BY <1>2, <1>3, <1>4 DEF JobsAsked, Workers
    <2> QED
      BY <2>1, <2>2 DEF JobsAsked
  <1>8. config' \subseteq Rules /\ OneEach(config')
    <2>1. config' = config \/ (config' = job[w].config /\ job[w].at = "config")
      <3>1. CASE MergeConfig(w)
        BY <3>1 DEF MergeConfig, GiveUp
      <3>2. CASE MergeRead(w) \/ MergeBackup(w) \/ MergeRemove(w)
        BY <3>2 DEF MergeRead, MergeBackup, MergeRemove, GiveUp
      <3> QED
        BY <3>1, <3>2
    <2> QED
      BY <1>1, <2>1 DEF JobsSound, Job, TypeOK
  <1>9. auto' \subseteq Rules
    BY DEF MergeRead, MergeBackup, MergeConfig, MergeRemove, GiveUp, TypeOK
  <1>10. /\ MemorySound'
         /\ base' \in [Daemons -> SUBSET Rules] /\ live' \in [Daemons -> SUBSET Rules]
    <2>1. CASE w \in Daemons /\ MoveToBase(w)
      BY <1>1, <1>6, <2>1, MoveKeeps DEF JobsAsked, Answering, Listening, Draining
    <2>2. CASE UNCHANGED <<base, live>>
      BY <1>6, <2>2 DEF MemorySound, OneEach, TypeOK
    <2> QED
      BY <2>1, <2>2 DEF MergeRead, MergeBackup, MergeConfig, MergeRemove, GiveUp
  <1>11. TypeOK'
    BY <1>4, <1>6, <1>8, <1>9, <1>10 DEF TypeOK
  <1>12. ChangesSound'
    <2>1. \A e \in Daemons : e # w => base'[e] = base[e]
      BY DEF MergeRead, MergeBackup, MergeConfig, MergeRemove, GiveUp, MoveToBase, TypeOK
    <2> QED
      BY <1>2, <1>3, <1>4, <2>1, ChangesKept DEF Workers
  <1> QED
    BY <1>5, <1>7, <1>8, <1>10, <1>11, <1>12 DEF OneEach

LEMMA PeopleKeep ==
    ASSUME IInv, DeleteAuto \/ \E rules \in SUBSET Rules : EditConfig(rules)
    PROVE  IInv'
  <1> USE DEF IInv, EditConfig, DeleteAuto, memory
  <1>1. TypeOK'
    BY DEF TypeOK
  <1>2. OneEach(config)'
    BY DEF OneEach
  <1>3. JobsSound' /\ MemorySound' /\ JobsAsked'
    BY DEF JobsSound, MemorySound, JobsAsked, Answering, Listening, Draining, OneEach
  <1>4. ChangesSound'
    BY ChangesKept
  <1> QED
    BY <1>1, <1>2, <1>3, <1>4

LEMMA Step == IInv /\ [Next]_vars => IInv'
  <1> SUFFICES ASSUME IInv, [Next]_vars PROVE IInv'
    OBVIOUS
  <1>1. CASE UNCHANGED vars
    <2>1. TypeOK' /\ OneEach(config)'
      BY <1>1 DEF IInv, vars, files, memory, history, TypeOK, OneEach
    <2>2. JobsSound' /\ MemorySound' /\ JobsAsked'
      BY <1>1 DEF IInv, vars, files, memory, history, JobsSound, MemorySound, JobsAsked,
                  Answering, Listening, Draining, OneEach
    <2>3. ChangesSound'
      BY <1>1, ChangesKept DEF IInv, vars, memory
    <2> QED
      BY <2>1, <2>2, <2>3 DEF IInv
  <1>2. ASSUME Next PROVE IInv'
    BY <1>2, RunKeeps, AskKeeps, ChangeKeeps, SaveKeeps, OfflineKeeps, MergeKeeps, PeopleKeep DEF Next
  <1> QED
    BY <1>1, <1>2

-----------------------------------------------------------------------------
(***************************************************************************)
(* The theorems.                                                            *)
(***************************************************************************)
\* Jobs, files and memories are sound in every reachable state.
THEOREM Invariance == Spec => []IInv
  BY Initially, Step, PTL DEF Spec

\* The sorts of the variables.
THEOREM TypeCorrect == Spec => []TypeOK
  BY Invariance, Implies, PTL

\* Neither config.json nor a running lemmingd has two rules for one domain, for any
\* number of lemmingds and merges at the same time.
THEOREM OneRule == Spec => []OneRulePerDomain
  BY Invariance, Implies, PTL

-----------------------------------------------------------------------------
(***************************************************************************)
(* Without "overlap" and "hasty": one lemmingd at a time, and none while    *)
(* the command merges.                                                      *)
(***************************************************************************)
\* A lemmingd is started when no other one runs and nobody merges, and the command
\* is not given while one starts or, its control API being closed, still executes
\* what it was asked.
NoOverlap == "overlap" \notin Environment /\ "hasty" \notin Environment

\* At most one lemmingd is not off.
Lone == \A d, e \in Daemons : ~At(d, "off") /\ ~At(e, "off") => d = e

\* A lemmingd that can be asked is the one that control.json names.
Named == \A d \in Daemons : Listening(d) => endpoint = d

\* While the command works on the files, no lemmingd does.
Offline == \A m \in Mergers, d \in Daemons : job[m] # None => pc[d] = "off"

\* The rules a lemmingd holds in memory once it has read both files.
Holds(d) == pc[d] \notin {"off", "configured"} /\ ~skipped[d]

\* They are those of rules.auto.json, unless people deleted it.
LiveInv ==
    \A d \in Daemons : Holds(d) =>
        /\ auto \subseteq live[d] /\ base[d] \cap live[d] = {}
        /\ "removeAuto" \notin Environment => live[d] = auto

\* What a merge knows of the files stays true, although several commands merge at
\* the same time: all of them see the same rules, and config.json has them before
\* rules.auto.json goes.
JobFits(j) ==
    /\ j.auto # {}
    /\ auto = j.auto \/ (auto = {} /\ j.auto \subseteq config)
    /\ j.at \in {"backup", "config"} => j.config = config \cup j.auto
    /\ j.at = "remove" => config = j.config /\ j.auto \subseteq config

Merging(j) == j # None /\ j.at # "save"

JobInv == \A w \in Workers : Merging(job[w]) => JobFits(job[w])

\* A lemmingd merges what it holds into the config.json it has read.
OwnFits(d) ==
    /\ ~skipped[d] /\ auto = job[d].auto
    /\ job[d].at \in {"backup", "config"} => config = base[d]
    /\ job[d].at = "remove" => config = base[d] \cup job[d].auto

\* It saves rules that its configuration does not have, and not too many.
SaveFits(d) ==
    /\ ~skipped[d] /\ base[d] \cap job[d].auto = {}
    /\ "removeAuto" \notin Environment =>
           IsFiniteSet(job[d].auto) /\ Cardinality(job[d].auto) <= MaxAutoRules

OwnInv ==
    \A d \in Daemons :
        job[d] # None => IF job[d].at = "save" THEN SaveFits(d) ELSE OwnFits(d)

\* The rules of config.json that a lemmingd does not know, or not yet.
Unknown(d) == IF job[d] # None /\ job[d].at = "remove" THEN {} ELSE config \ base[d]

\* What config.json has and a running lemmingd does not know, people wrote, unless
\* a merge could not remove rules.auto.json.
BaseInv ==
    "remove" \notin Failing =>
        \A d \in Daemons : pc[d] # "off" => Unknown(d) \subseteq edited

\* If a rule of config.json that nobody wrote there, so a merged one, has the domain
\* of an added rule, then a merge was cut off and config.json has all that counts.
HiddenInv ==
    "remove" \notin Failing =>
        ((\E r \in config \ edited, s \in auto : DomainOf[r] = DomainOf[s])
            => accepted \subseteq config)

\* No domain is routed twice by the added rules, and they are never too many.
AutoInv ==
    /\ OneEach(auto)
    /\ "removeAuto" \notin Environment =>
           IsFiniteSet(auto) /\ Cardinality(auto) <= MaxAutoRules

\* The files, and what processes know of them.
FInv == /\ Lone /\ Named /\ Offline /\ LiveInv /\ JobInv /\ OwnInv
        /\ BaseInv /\ HiddenInv /\ AutoInv /\ AcceptedKept

LEMMA FilesInitially == Init => FInv
  <1> SUFFICES ASSUME Init PROVE FInv
    OBVIOUS
  <1> USE RuleAssumption DEF Init
  <1>1. Lone /\ Named /\ Offline /\ JobInv /\ OwnInv
    BY DEF Lone, At, Named, Listening, Offline, JobInv, Merging, OwnInv, Workers
  <1>2. LiveInv /\ BaseInv /\ HiddenInv /\ AcceptedKept
    BY DEF LiveInv, Holds, BaseInv, HiddenInv, AcceptedKept
  <1>3. AutoInv
    BY FS_EmptySet DEF AutoInv, OneEach
  <1> QED
    BY <1>1, <1>2, <1>3 DEF FInv

\* What is unchanged as long as the files and the history are.
LEMMA SameFiles ==
    ASSUME FInv, UNCHANGED <<files, history>>
    PROVE  HiddenInv' /\ AutoInv' /\ AcceptedKept'
  <1> USE DEF FInv, files, history
  <1>1. HiddenInv'
    BY DEF HiddenInv
  <1>2. AutoInv'
    BY DEF AutoInv, OneEach
  <1> QED
    BY <1>1, <1>2 DEF AcceptedKept

\* A lemmingd that is not off is alone: no other one is started and nobody merges
\* but itself.
LEMMA Alone ==
    ASSUME FInv, IInv, NEW d \in Daemons, pc[d] # "off"
    PROVE  /\ \A e \in Daemons : e # d => pc[e] = "off" /\ job[e] = None
           /\ \A m \in Mergers : job[m] = None
           /\ \A w \in Workers : w # d => job[w] = None
  <1>1. \A e \in Daemons : e # d => pc[e] = "off"
    BY DEF FInv, Lone, At
  <1>2. \A e \in Daemons : e # d => job[e] = None
    BY <1>1 DEF IInv, JobsAsked, Answering, Listening, Draining
  <1>3. \A m \in Mergers : job[m] = None
    BY DEF FInv, Offline
  <1> QED
    BY <1>1, <1>2, <1>3 DEF Workers

LEMMA StartFiles ==
    ASSUME NoOverlap, FInv, IInv, NEW d \in Daemons, Start(d)
    PROVE  FInv'
  <1> USE DEF Start, Goto
  <1>1. /\ pc' = [pc EXCEPT ![d] = "configured"] /\ base' = [base EXCEPT ![d] = config]
        /\ UNCHANGED <<files, endpoint, live, skipped, port, job, history>>
        /\ ~Busy /\ \A e \in Daemons : pc[e] = "off"
    BY DEF NoOverlap, At
  <1>2. /\ pc'[d] = "configured" /\ base'[d] = config
        /\ \A e \in Daemons : e # d => pc'[e] = "off" /\ base'[e] = base[e]
    BY <1>1 DEF IInv, TypeOK
  <1>3. \A w \in Workers : job'[w] = None
    <2>1. \A w \in Workers : job[w] = None \/ job[w].at = "save"
      BY <1>1 DEF Busy
    <2>2. \A e \in Daemons : job[e] = None
      BY <1>1 DEF IInv, JobsAsked, Answering, Listening, Draining
    <2> QED
      BY <1>1, <2>1, <2>2 DEF IInv, JobsAsked, Workers
  <1>4. Lone' /\ Named'
    BY <1>2 DEF Lone, At, Named, Listening
  <1>5. Offline' /\ JobInv' /\ OwnInv'
    BY <1>3 DEF Offline, JobInv, Merging, OwnInv, Workers
  <1>6. LiveInv'
    BY <1>2 DEF LiveInv, Holds
  <1>7. BaseInv'
    BY <1>1, <1>2, <1>3 DEF BaseInv, Unknown, files, Workers
  <1> QED
    BY <1>1, <1>4, <1>5, <1>6, <1>7, SameFiles DEF FInv

LEMMA LoadFiles ==
    ASSUME NoOverlap, FInv, IInv, NEW d \in Daemons, Load(d)
    PROVE  FInv'
  <1> USE DEF Load, Goto, At
  <1>1. /\ pc' = [pc EXCEPT ![d] = "loaded"]
        /\ live' = [live EXCEPT ![d] = IF Valid(base[d], auto) THEN auto ELSE {}]
        /\ skipped' = [skipped EXCEPT ![d] = MustSkip(base[d], auto)]
        /\ UNCHANGED <<files, endpoint, base, port, job, history>>
        /\ pc[d] = "configured"
    OBVIOUS
  <1>2. /\ \A e \in Daemons : e # d => pc[e] = "off" /\ job[e] = None
        /\ \A m \in Mergers : job[m] = None
        /\ \A w \in Workers : w # d => job[w] = None
    BY <1>1, Alone
  <1>3. /\ pc'[d] = "loaded" /\ live'[d] = IF Valid(base[d], auto) THEN auto ELSE {}
        /\ skipped'[d] = MustSkip(base[d], auto)
        /\ \A e \in Daemons : e # d => pc'[e] = "off"
    BY <1>1, <1>2 DEF IInv, TypeOK
  <1>4. \A w \in Workers : job'[w] = None
    BY <1>1, <1>2 DEF IInv, JobsAsked, Answering, Listening, Draining, Workers
  <1>5. Lone' /\ Named'
    BY <1>3 DEF Lone, Named, Listening
  <1>6. Offline' /\ JobInv' /\ OwnInv'
    BY <1>4 DEF Offline, JobInv, Merging, OwnInv, Workers
  <1>7. LiveInv'
    <2>1. Valid(base[d], auto) => base[d] \cap auto = {}
      BY DEF Valid
    <2>2. skipped'[d] = ~Valid(base[d], auto)
      BY <1>3 DEF MustSkip
    <2>3. ~skipped'[d] => live'[d] = auto /\ base[d] \cap live'[d] = {}
      BY <1>3, <2>1, <2>2
    <2> QED
      BY <1>1, <1>3, <2>3 DEF LiveInv, Holds, files
  <1>8. BaseInv'
    BY <1>1, <1>3, <1>4 DEF BaseInv, Unknown, files, history, Workers, FInv
  <1> QED
    BY <1>1, <1>5, <1>6, <1>7, <1>8, SameFiles DEF FInv

\* From the control API to the end.
LEMMA ServeFiles ==
    ASSUME NoOverlap, FInv, IInv, NEW d \in Daemons,
           \/ Publish(d) \/ Listen(d) \/ Stop(d) \/ CloseListener(d) \/ CloseControl(d)
           \/ RemoveEndpoint(d) \/ Exit(d) \/ Crash(d)
    PROVE  FInv'
  <1> USE DEF Publish, Listen, Stop, CloseListener, CloseControl, RemoveEndpoint, Exit, Crash,
              Gone, Goto, At, memory
  <1>1. UNCHANGED <<files, base, live, skipped, history>>
    OBVIOUS
  <1>2. pc[d] # "off" /\ pc'[d] # "configured"
    BY DEF IInv, TypeOK
  <1>3. \A e \in Daemons : e # d => pc[e] = "off" /\ pc'[e] = "off"
    BY <1>2 DEF FInv, Lone, IInv, TypeOK
  <1>4. pc'[d] # "off" => pc[d] # "configured" /\ job'[d] = job[d]
    BY DEF IInv, TypeOK
  <1>5. Listening(d)' => endpoint' = d
    BY DEF IInv, TypeOK, FInv, Named, Listening
  <1>6. \A w \in Workers : job'[w] = None \/ job'[w] = job[w]
    BY DEF IInv, TypeOK
  <1>7. Lone' /\ Named'
    BY <1>3, <1>5 DEF Lone, Named, Listening
  <1>8. Offline'
    BY <1>2, <1>3, <1>6 DEF Offline, FInv, Workers
  <1>9. JobInv'
    BY <1>1, <1>6 DEF JobInv, Merging, JobFits, FInv, files
  <1>10. OwnInv'
    BY <1>1, <1>6 DEF OwnInv, OwnFits, SaveFits, FInv, files, Workers
  <1>11. LiveInv'
    BY <1>1, <1>2, <1>3, <1>4 DEF LiveInv, Holds, FInv, files
  <1>12. BaseInv'
    BY <1>1, <1>2, <1>3, <1>4 DEF BaseInv, Unknown, FInv, files, history
  <1> QED
    BY <1>1, <1>7, <1>8, <1>9, <1>10, <1>11, <1>12, SameFiles DEF FInv

\* A change is made by the only lemmingd, while nobody merges.
LEMMA ChangeAlone ==
    ASSUME FInv, IInv, NEW d \in Daemons, Changeable(d)
    PROVE  /\ \A w \in Workers : job[w] = None
           /\ \A e \in Daemons : e # d => pc[e] = "off"
           /\ Holds(d)
  <1>1. Answering(d) /\ job[d] = None /\ ~skipped[d]
    BY DEF Changeable
  <1>2. pc[d] # "off" /\ pc[d] # "configured"
    BY <1>1 DEF Answering, Listening, Draining
  <1>3. Holds(d)
    BY <1>1, <1>2 DEF Holds
  <1> QED
    BY <1>1, <1>2, <1>3, Alone DEF Workers

\* Nobody merges before and after a step that leaves the processes alone.
LEMMA IdleFiles ==
    ASSUME FInv, UNCHANGED <<pc, endpoint, base, skipped, job>>,
           \A w \in Workers : ~Merging(job[w])
    PROVE  Lone' /\ Named' /\ Offline' /\ JobInv' /\ OwnInv'
  <1>1. Lone' /\ Named' /\ Offline'
    BY DEF FInv, Lone, At, Named, Listening, Offline
  <1>2. JobInv'
    BY DEF JobInv, Merging
  <1>3. OwnInv'
    BY DEF FInv, OwnInv, SaveFits, Merging, Workers
  <1> QED
    BY <1>1, <1>2, <1>3

\* AddRule and RemoveRule decide on what the lemmingd holds, which is what
\* rules.auto.json has.
LEMMA ChangeFiles ==
    ASSUME FInv, IInv, NEW d \in Daemons, NEW r \in Rules, AddRule(d, r) \/ RemoveRule(d, r)
    PROVE  FInv'
  <1>1. UNCHANGED <<files, endpoint, pc, base, live, skipped, history>> /\ Changeable(d)
    BY DEF AddRule, RemoveRule, memory
  <1>2. /\ \A w \in Workers : job[w] = None
        /\ \A e \in Daemons : e # d => pc[e] = "off"
        /\ Holds(d)
    BY <1>1, ChangeAlone
  <1>3. /\ base[d] \cap live[d] = {}
        /\ "removeAuto" \notin Environment => live[d] = auto
    BY <1>2 DEF FInv, LiveInv
  <1>4. PICK A \in SUBSET Rules :
           /\ SetJob(d, Task("save", A, {})) /\ base[d] \cap A = {}
           /\ "removeAuto" \notin Environment =>
                  IsFiniteSet(A) /\ Cardinality(A) <= MaxAutoRules
    <2>1. CASE AddRule(d, r)
      <3>1. /\ SetJob(d, Task("save", live[d] \cup {r}, {})) /\ ~Full(d)
            /\ \A s \in base[d] \cup live[d] : DomainOf[s] # DomainOf[r]
        BY <2>1 DEF AddRule
      <3>2. base[d] \cap (live[d] \cup {r}) = {} /\ live[d] \cup {r} \subseteq Rules
        BY <1>3, <3>1 DEF IInv, TypeOK
      <3>3. "removeAuto" \notin Environment =>
               IsFiniteSet(live[d] \cup {r}) /\ Cardinality(live[d] \cup {r}) <= MaxAutoRules
        <4> SUFFICES ASSUME "removeAuto" \notin Environment
                     PROVE  /\ IsFiniteSet(live[d] \cup {r})
                            /\ Cardinality(live[d] \cup {r}) <= MaxAutoRules
          OBVIOUS
        <4>1. IsFiniteSet(live[d]) /\ Cardinality(live[d]) <= MaxAutoRules
          BY <1>3 DEF FInv, AutoInv
        <4>2. /\ IsFiniteSet(live[d] \cup {r}) /\ Cardinality(live[d]) \in Nat
              /\ \/ Cardinality(live[d] \cup {r}) = Cardinality(live[d])
                 \/ Cardinality(live[d] \cup {r}) = Cardinality(live[d]) + 1
          BY <4>1, FS_AddElement, FS_CardinalityType
        <4> QED
          BY <3>1, <4>1, <4>2, RuleAssumption DEF Full
      <3> QED
        BY <3>1, <3>2, <3>3
    <2>2. CASE RemoveRule(d, r)
      <3>1. SetJob(d, Task("save", live[d] \ {r}, {}))
        BY <2>2 DEF RemoveRule
      <3>2. base[d] \cap (live[d] \ {r}) = {} /\ live[d] \ {r} \subseteq Rules
        BY <1>3 DEF IInv, TypeOK
      <3>3. "removeAuto" \notin Environment =>
               IsFiniteSet(live[d] \ {r}) /\ Cardinality(live[d] \ {r}) <= MaxAutoRules
        <4> SUFFICES ASSUME "removeAuto" \notin Environment
                     PROVE  /\ IsFiniteSet(live[d] \ {r})
                            /\ Cardinality(live[d] \ {r}) <= MaxAutoRules
          OBVIOUS
        <4>1. IsFiniteSet(live[d]) /\ Cardinality(live[d]) <= MaxAutoRules
          BY <1>3 DEF FInv, AutoInv
        <4>2. live[d] \ {r} \subseteq live[d]
          OBVIOUS
        <4>3. /\ IsFiniteSet(live[d] \ {r})
              /\ Cardinality(live[d]) \in Nat /\ Cardinality(live[d] \ {r}) \in Nat
              /\ Cardinality(live[d] \ {r}) <= Cardinality(live[d])
          BY <4>1, <4>2, FS_Subset, FS_CardinalityType
        <4> QED
          BY <4>1, <4>3, RuleAssumption
      <3> QED
        BY <3>1, <3>2, <3>3
    <2> QED
      BY <2>1, <2>2
  <1> DEFINE j == Task("save", A, {})
  <1>5. j.at = "save" /\ j.auto = A
    BY DEF Task
  <1>6. job' = [job EXCEPT ![d] = j]
    BY <1>4 DEF SetJob
  <1> HIDE DEF j
  <1>7. job'[d] = j /\ \A w \in Workers : w # d => job'[w] = None
    BY <1>2, <1>6 DEF IInv, TypeOK, Workers
  <1>8. Lone' /\ Named'
    BY <1>1 DEF FInv, Lone, At, Named, Listening
  <1>9. Offline' /\ JobInv'
    BY <1>5, <1>7, RuleAssumption DEF Offline, JobInv, Merging, Workers
  <1>10. OwnInv'
    <2>1. skipped'[d] = FALSE /\ base'[d] = base[d]
      BY <1>1, <1>2 DEF Holds, IInv, TypeOK
    <2>2. SaveFits(d)'
      BY <1>4, <1>5, <1>7, <2>1 DEF SaveFits
    <2> QED
      BY <1>5, <1>7, <2>2 DEF OwnInv, Workers
  <1>11. LiveInv'
    BY <1>1 DEF FInv, LiveInv, Holds, files
  <1>12. BaseInv'
    BY <1>1, <1>2, <1>5, <1>7 DEF FInv, BaseInv, Unknown, files, history, Workers
  <1> QED
    BY <1>1, <1>8, <1>9, <1>10, <1>11, <1>12, SameFiles DEF FInv

\* WriteAutoRules and the memory after it.
LEMMA SaveFiles ==
    ASSUME FInv, IInv, NEW d \in Daemons, SaveRules(d)
    PROVE  FInv'
  <1>1. /\ job[d] # None /\ job[d].at = "save"
        /\ job' = [job EXCEPT ![d] = None]
        /\ UNCHANGED <<config, base, skipped, endpoint, pc, edited>>
        /\ \/ UNCHANGED <<auto, live, accepted>>
           \/ /\ auto' = job[d].auto /\ live' = [live EXCEPT ![d] = job[d].auto]
              /\ accepted' = (accepted \ (live[d] \ job[d].auto)) \cup (job[d].auto \ live[d])
    BY DEF SaveRules, Working, SetJob, GiveUp, files, memory
  <1>2. pc[d] # "off" /\ pc[d] # "configured"
    BY <1>1 DEF IInv, JobsAsked, Answering, Listening, Draining
  <1>3. /\ \A w \in Workers : job'[w] = None
        /\ \A e \in Daemons : e # d => pc[e] = "off"
    BY <1>1, <1>2, Alone DEF IInv, TypeOK, Workers
  <1>4. SaveFits(d)
    BY <1>1 DEF FInv, OwnInv
  <1>5. Holds(d)
    BY <1>2, <1>4 DEF Holds, SaveFits
  <1>6. Lone' /\ Named' /\ Offline' /\ JobInv' /\ OwnInv'
    BY <1>1, <1>3 DEF FInv, Lone, At, Named, Listening, Offline, JobInv, Merging, OwnInv, Workers
  <1>7. Unknown(d) = config \ base[d]
    BY <1>1 DEF Unknown
  <1>8. BaseInv'
    BY <1>1, <1>3, <1>7 DEF FInv, BaseInv, Unknown, Workers
  <1>9. CASE UNCHANGED <<auto, live, accepted>>
    <2>1. LiveInv'
      BY <1>1, <1>9 DEF FInv, LiveInv, Holds
    <2> QED
      BY <1>1, <1>6, <1>8, <1>9, <2>1, SameFiles DEF FInv, files, history
  <1>10. ASSUME auto' = job[d].auto, live' = [live EXCEPT ![d] = job[d].auto],
                accepted' = (accepted \ (live[d] \ job[d].auto)) \cup (job[d].auto \ live[d])
         PROVE  FInv'
    <2>1. live'[d] = job[d].auto /\ auto' = job[d].auto
      BY <1>10 DEF IInv, TypeOK
    <2>2. auto \subseteq live[d]
      BY <1>5 DEF FInv, LiveInv
    <2>3. OneEach(base[d] \cup job[d].auto)
      BY <1>1 DEF IInv, ChangesSound
    <2>4. LiveInv'
      BY <1>1, <1>3, <1>4, <2>1 DEF LiveInv, Holds, SaveFits
    <2>5. HiddenInv'
      <3> SUFFICES ASSUME "remove" \notin Failing, NEW x \in config \ edited,
                          NEW s \in job[d].auto, DomainOf[x] = DomainOf[s]
                   PROVE  FALSE
        BY <1>1, <2>1 DEF HiddenInv
      <3>1. x \in base[d]
        BY <1>2, <1>7 DEF FInv, BaseInv
      <3> QED
        BY <1>4, <2>3, <3>1 DEF OneEach, SaveFits
    <2>6. AutoInv'
      <3>1. OneEach(job[d].auto)
        BY <2>3 DEF OneEach
      <3> QED
        BY <1>4, <2>1, <3>1 DEF AutoInv, OneEach, SaveFits
    <2>7. AcceptedKept'
      BY <1>1, <1>10, <2>2 DEF FInv, AcceptedKept
    <2> QED
      BY <1>6, <1>8, <2>4, <2>5, <2>6, <2>7 DEF FInv
  <1> QED
    BY <1>1, <1>9, <1>10

\* A merge begins with the rules of rules.auto.json.
LEMMA BeginFiles ==
    ASSUME FInv, IInv, NEW w \in Workers, BeginMerge(w), UNCHANGED files
    PROVE  /\ JobInv' /\ \A v \in Workers : v # w => job'[v] = job[v]
           /\ auto = {} => job'[w] = job[w]
           /\ auto # {} => job'[w].auto = auto /\ job'[w].at = "read"
  <1>1. \A v \in Workers : v # w => job'[v] = job[v]
    BY DEF BeginMerge, SetJob, IInv, TypeOK
  <1>2. auto = {} => job'[w] = job[w]
    BY DEF BeginMerge
  <1>3. auto # {} => job'[w] = Task("read", auto, {})
    BY DEF BeginMerge, SetJob, IInv, TypeOK
  <1>4. auto # {} => job'[w].auto = auto /\ job'[w].at = "read"
    BY <1>3 DEF Task
  <1>5. \A v \in Workers : Merging(job[v]) /\ job'[v] = job[v] => JobFits(job[v])'
    BY DEF FInv, JobInv, JobFits, files
  <1>6. auto # {} => JobFits(job[w])'
    BY <1>4 DEF JobFits, files
  <1>7. JobInv'
    BY <1>1, <1>2, <1>5, <1>6 DEF JobInv, Merging
  <1> QED
    BY <1>1, <1>2, <1>4, <1>7

LEMMA AskFiles ==
    ASSUME FInv, IInv, NEW d \in Daemons, AskedMerge(d)
    PROVE  FInv'
  <1>1. /\ Changeable(d) /\ BeginMerge(d)
        /\ UNCHANGED <<files, endpoint, pc, skipped, history>>
        /\ auto = {} => MoveToBase(d)
        /\ auto # {} => UNCHANGED <<base, live>>
    BY DEF AskedMerge
  <1>2. /\ \A w \in Workers : job[w] = None
        /\ \A e \in Daemons : e # d => pc[e] = "off"
        /\ Holds(d)
    BY <1>1, ChangeAlone
  <1>3. d \in Workers
    BY DEF Workers
  <1>4. /\ JobInv' /\ \A v \in Workers : v # d => job'[v] = job[v]
        /\ auto = {} => job'[d] = None
        /\ auto # {} => job'[d].auto = auto /\ job'[d].at = "read"
    BY <1>1, <1>2, <1>3, BeginFiles
  <1>5. \A m \in Mergers : m # d
    BY RuleAssumption
  <1>6. Lone' /\ Named'
    BY <1>1 DEF FInv, Lone, At, Named, Listening
  <1>7. Offline'
    BY <1>2, <1>4, <1>5 DEF Offline, Workers
  <1>8. OwnInv'
    <2>1. auto # {} => OwnFits(d)'
      BY <1>1, <1>2, <1>4 DEF OwnFits, Holds, files
    <2> QED
      BY <1>2, <1>4, <2>1 DEF OwnInv, Workers
  <1>9. auto = {} => live'[d] = {} /\ base[d] \subseteq base'[d]
    BY <1>1 DEF MoveToBase, Merged, IInv, TypeOK
  <1>10. LiveInv'
    <2>1. CASE auto = {}
      BY <1>1, <1>2, <1>9, <2>1 DEF LiveInv, Holds, files
    <2>2. CASE auto # {}
      BY <1>1, <2>2 DEF LiveInv, Holds, files, FInv
    <2> QED
      BY <2>1, <2>2
  <1>11. BaseInv'
    <2> SUFFICES ASSUME "remove" \notin Failing
                 PROVE  \A e \in Daemons : pc'[e] # "off" => Unknown(e)' \subseteq edited'
      BY DEF BaseInv
    <2>1. Unknown(d) \subseteq edited /\ Unknown(d) = config \ base[d]
      BY <1>2, <1>3 DEF FInv, BaseInv, Holds, Unknown
    <2>2. base[d] \subseteq base'[d]
      BY <1>1, <1>9
    <2>3. Unknown(d)' = config \ base'[d]
      BY <1>1, <1>4 DEF Unknown, files
    <2> QED
      BY <1>1, <1>2, <2>1, <2>2, <2>3 DEF history
  <1> QED
    BY <1>1, <1>4, <1>6, <1>7, <1>8, <1>10, <1>11, SameFiles DEF FInv

LEMMA OfflineFiles ==
    ASSUME NoOverlap, FInv, IInv, NEW m \in Mergers, OfflineMerge(m)
    PROVE  FInv'
  <1>1. /\ NotRunning /\ BeginMerge(m)
        /\ \A d \in Daemons : pc[d] \notin {"configured", "loaded"} /\ ~Draining(d)
        /\ UNCHANGED <<files, endpoint, pc, memory, history>>
    BY DEF OfflineMerge, NoOverlap
  <1>2. m \in Workers /\ m \notin Daemons
    BY RuleAssumption DEF Workers
  <1>3. \A d \in Daemons : pc[d] = "off"
    BY <1>1 DEF NotRunning, Reachable, FInv, Named, Listening, Draining, IInv, TypeOK
  <1>4. JobInv' /\ \A v \in Workers : v # m => job'[v] = job[v]
    BY <1>1, <1>2, BeginFiles
  <1>5. Lone' /\ Named'
    BY <1>1 DEF FInv, Lone, At, Named, Listening
  <1>6. Offline'
    BY <1>1, <1>3 DEF Offline
  <1>7. \A d \in Daemons : job'[d] = job[d]
    BY <1>2, <1>4 DEF Workers
  <1>8. OwnInv'
    BY <1>1, <1>7 DEF FInv, OwnInv, OwnFits, SaveFits, files, memory
  <1>9. LiveInv'
    BY <1>1 DEF FInv, LiveInv, Holds, files, memory
  <1>10. BaseInv'
    BY <1>1, <1>7 DEF FInv, BaseInv, Unknown, files, memory, history
  <1> QED
    BY <1>1, <1>4, <1>5, <1>6, <1>8, <1>9, <1>10, SameFiles DEF FInv

\* What a step of a merge does to the files: nothing, or one of two replacements.
LEMMA MergeEffect ==
    ASSUME FInv, IInv, NEW w \in Workers, MergeStep(w)
    PROVE  /\ Merging(job[w]) /\ JobFits(job[w])
           /\ UNCHANGED <<pc, endpoint, skipped, history>>
           /\ \A v \in Workers : v # w => job'[v] = job[v]
           /\ \/ /\ UNCHANGED <<files, base, live>> /\ job'[w] = None
                 /\ job[w].at = "remove" => "remove" \in Failing
              \/ /\ UNCHANGED <<files, base, live>>
                 /\ job'[w] # None /\ job'[w].auto = job[w].auto
                 /\ job'[w].at = "backup" /\ job'[w].config = config \cup job[w].auto
                 /\ job[w].at = "read" /\ (w \in Daemons => config = base[w])
              \/ /\ UNCHANGED <<files, base, live>>
                 /\ job'[w] # None /\ job'[w].auto = job[w].auto
                 /\ job'[w].at = "config" /\ job'[w].config = job[w].config
                 /\ job[w].at = "backup"
              \/ /\ config' = job[w].config /\ UNCHANGED <<auto, base, live>>
                 /\ job'[w] # None /\ job'[w].auto = job[w].auto
                 /\ job'[w].at = "remove" /\ job'[w].config = job[w].config
                 /\ job[w].at = "config"
              \/ /\ auto' = {} /\ UNCHANGED config
                 /\ job[w].at = "remove" /\ job'[w] = None
                 /\ w \in Daemons => MoveToBase(w)
                 /\ w \notin Daemons => UNCHANGED <<base, live>>
  <1> USE DEF files, memory, history, Working, Merging
  <1>1. Merging(job[w]) /\ job[w] \in Job
    BY DEF MergeStep, MergeRead, MergeBackup, MergeConfig, MergeRemove, IInv, TypeOK
  <1>2. JobFits(job[w])
    BY <1>1 DEF FInv, JobInv
  <1>3. \A j : SetJob(w, j) => job'[w] = j /\ \A v \in Workers : v # w => job'[v] = job[v]
    BY DEF SetJob, IInv, TypeOK
  <1>4. GiveUp(w) => UNCHANGED <<files, base, live, skipped>> /\ SetJob(w, None)
    BY DEF GiveUp
  <1>5. CASE MergeRead(w)
    <2>1. job[w].at = "read" /\ UNCHANGED <<pc, endpoint, skipped, history>>
      BY <1>4, <1>5 DEF MergeRead
    <2>2. CASE GiveUp(w)
      BY <1>1, <1>2, <1>3, <1>4, <2>1, <2>2
    <2>3. CASE ~GiveUp(w)
      <3>1. /\ Verified(w, config) /\ UNCHANGED <<files, base, live>>
            /\ SetJob(w, Task("backup", job[w].auto, Combined(w)))
        BY <1>5, <2>3 DEF MergeRead
      <3>2. /\ job'[w] = Task("backup", job[w].auto, Combined(w))
            /\ \A v \in Workers : v # w => job'[v] = job[v]
        BY <1>3, <3>1
      <3>3. job'[w] \in Job
        BY <1>1, <3>2 DEF Task, Combined, Job, IInv, TypeOK
      <3>4. job'[w] # None
        BY <3>3, RuleAssumption
      <3> QED
        BY <1>1, <1>2, <2>1, <3>1, <3>2, <3>4 DEF Task, Combined, Verified
    <2> QED
      BY <2>2, <2>3
  <1>6. CASE MergeBackup(w)
    <2>1. job[w].at = "backup" /\ UNCHANGED <<pc, endpoint, skipped, history>>
      BY <1>4, <1>6 DEF MergeBackup
    <2>2. CASE GiveUp(w)
      BY <1>1, <1>2, <1>3, <1>4, <2>1, <2>2
    <2>3. CASE ~GiveUp(w)
      <3>1. UNCHANGED <<files, base, live>> /\ SetJob(w, [job[w] EXCEPT !.at = "config"])
        BY <1>6, <2>3 DEF MergeBackup
      <3>2. /\ job'[w] = [job[w] EXCEPT !.at = "config"]
            /\ \A v \in Workers : v # w => job'[v] = job[v]
        BY <1>3, <3>1
      <3>3. /\ job'[w] \in Job /\ job'[w].at = "config"
            /\ job'[w].auto = job[w].auto /\ job'[w].config = job[w].config
        BY <1>1, <3>2 DEF Job
      <3>4. job'[w] # None
        BY <3>3, RuleAssumption
      <3> QED
        BY <1>1, <1>2, <2>1, <3>1, <3>2, <3>3, <3>4
    <2> QED
      BY <2>2, <2>3
  <1>7. CASE MergeConfig(w)
    <2>1. job[w].at = "config" /\ UNCHANGED <<pc, endpoint, skipped, history>>
      BY <1>4, <1>7 DEF MergeConfig
    <2>2. CASE GiveUp(w)
      BY <1>1, <1>2, <1>3, <1>4, <2>1, <2>2
    <2>3. CASE ~GiveUp(w)
      <3>1. /\ config' = job[w].config /\ UNCHANGED <<auto, base, live>>
            /\ SetJob(w, [job[w] EXCEPT !.at = "remove"])
        BY <1>7, <2>3 DEF MergeConfig
      <3>2. /\ job'[w] = [job[w] EXCEPT !.at = "remove"]
            /\ \A v \in Workers : v # w => job'[v] = job[v]
        BY <1>3, <3>1
      <3>3. /\ job'[w] \in Job /\ job'[w].at = "remove"
            /\ job'[w].auto = job[w].auto /\ job'[w].config = job[w].config
        BY <1>1, <3>2 DEF Job
      <3>4. job'[w] # None
        BY <3>3, RuleAssumption
      <3> QED
        BY <1>1, <1>2, <2>1, <3>1, <3>2, <3>3, <3>4
    <2> QED
      BY <2>2, <2>3
  <1>8. CASE MergeRemove(w)
    <2>1. job[w].at = "remove" /\ UNCHANGED <<pc, endpoint, port, skipped, history>>
      BY <1>4, <1>8 DEF MergeRemove
    <2>2. CASE "remove" \in Failing /\ GiveUp(w)
      BY <1>1, <1>2, <1>3, <1>4, <2>1, <2>2
    <2>3. CASE ~("remove" \in Failing /\ GiveUp(w))
      <3>1. /\ auto' = {} /\ UNCHANGED config /\ SetJob(w, None)
            /\ w \in Daemons => MoveToBase(w)
            /\ w \notin Daemons => UNCHANGED <<base, live>>
        BY <1>8, <2>3 DEF MergeRemove
      <3> QED
        BY <1>1, <1>2, <1>3, <2>1, <3>1
    <2> QED
      BY <2>2, <2>3
  <1> QED
    BY <1>5, <1>6, <1>7, <1>8 DEF MergeStep

LEMMA MergeFiles ==
    ASSUME FInv, IInv, NEW w \in Workers, MergeStep(w)
    PROVE  FInv'
  <1> DEFINE gave   == /\ UNCHANGED <<files, base, live>> /\ job'[w] = None
                       /\ job[w].at = "remove" => "remove" \in Failing
             taken  == /\ UNCHANGED <<files, base, live>>
                       /\ job'[w] # None /\ job'[w].auto = job[w].auto
                       /\ job'[w].at = "backup" /\ job'[w].config = config \cup job[w].auto
                       /\ job[w].at = "read" /\ (w \in Daemons => config = base[w])
             saved  == /\ UNCHANGED <<files, base, live>>
                       /\ job'[w] # None /\ job'[w].auto = job[w].auto
                       /\ job'[w].at = "config" /\ job'[w].config = job[w].config
                       /\ job[w].at = "backup"
             wrote  == /\ config' = job[w].config /\ UNCHANGED <<auto, base, live>>
                       /\ job'[w] # None /\ job'[w].auto = job[w].auto
                       /\ job'[w].at = "remove" /\ job'[w].config = job[w].config
                       /\ job[w].at = "config"
             gone   == /\ auto' = {} /\ UNCHANGED config
                       /\ job[w].at = "remove" /\ job'[w] = None
                       /\ w \in Daemons => MoveToBase(w)
                       /\ w \notin Daemons => UNCHANGED <<base, live>>
  <1>1. /\ job[w] # None /\ job[w].at # "save" /\ JobFits(job[w])
        /\ UNCHANGED <<pc, endpoint, skipped, history>>
        /\ \A v \in Workers : v # w => job'[v] = job[v]
        /\ gave \/ taken \/ saved \/ wrote \/ gone
    BY MergeEffect DEF Merging
  <1>2. \A v \in Workers : job'[v] # None => job[v] # None
    BY <1>1
  <1>3. Lone' /\ Named' /\ Offline'
    BY <1>1, <1>2 DEF FInv, Lone, At, Named, Listening, Offline, Workers
  \* Who merges is the only lemmingd, or the command while none has read the files.
  <1>4. w \in Mergers => w \notin Daemons /\ \A d \in Daemons : pc[d] = "off" /\ job[d] = None
    BY <1>1, RuleAssumption DEF FInv, Offline, IInv, JobsAsked, Answering, Listening, Draining
  <1>5. w \in Daemons =>
           /\ pc[w] # "off" /\ Holds(w) /\ OwnFits(w)
           /\ \A v \in Workers : v # w => job[v] = None
           /\ \A d \in Daemons : d # w => pc[d] = "off"
    <2> SUFFICES ASSUME w \in Daemons
                 PROVE  /\ pc[w] # "off" /\ Holds(w) /\ OwnFits(w)
                        /\ \A v \in Workers : v # w => job[v] = None
                        /\ \A d \in Daemons : d # w => pc[d] = "off"
      OBVIOUS
    <2>1. pc[w] # "off" /\ pc[w] # "configured"
      BY <1>1 DEF IInv, JobsAsked, Answering, Listening, Draining
    <2>2. OwnFits(w)
      BY <1>1 DEF FInv, OwnInv
    <2> QED
      BY <2>1, <2>2, Alone DEF Holds, OwnFits
  <1>6. w \in Daemons \/ w \in Mergers
    BY DEF Workers
  <1>7. \A d \in Daemons : d # w => job'[d] = None
    BY <1>1, <1>4, <1>5, <1>6 DEF Workers
  \* The files.
  <1>8. CASE gave \/ taken \/ saved
    <2>1. UNCHANGED <<files, base, live>>
      BY <1>8
    <2>2. JobInv'
      <3>1. \A v \in Workers : v # w /\ Merging(job'[v]) => JobFits(job[v])'
        BY <1>1, <2>1 DEF FInv, JobInv, JobFits, files
      <3>2. job'[w] # None => JobFits(job[w])'
        BY <1>1, <1>8 DEF JobFits, files
      <3> QED
        BY <3>1, <3>2 DEF JobInv, Merging
    <2>3. OwnInv'
      <3>1. w \in Daemons /\ job'[w] # None => OwnFits(w)' /\ job'[w].at # "save"
        BY <1>1, <1>5, <1>8 DEF OwnFits, files
      <3> QED
        BY <1>7, <3>1 DEF OwnInv
    <2>4. LiveInv'
      BY <1>1, <2>1 DEF FInv, LiveInv, Holds, files
    <2>5. BaseInv'
      <3> SUFFICES ASSUME "remove" \notin Failing, NEW d \in Daemons,
                          pc[d] # "off"
                   PROVE  Unknown(d)' \subseteq edited
        BY <1>1 DEF BaseInv, history
      <3>1. d = w /\ w \in Daemons
        BY <1>4, <1>5, <1>6
      <3>2. job[w].at # "remove"
        BY <1>1, <1>8, <3>1 DEF OwnFits, JobFits
      <3>3. Unknown(d) \subseteq edited /\ Unknown(d) = config \ base[d]
        BY <3>1, <3>2 DEF FInv, BaseInv, Unknown
      <3>4. Unknown(d)' \subseteq config \ base[d]
        BY <2>1 DEF Unknown, files
      <3> QED
        BY <3>3, <3>4
    <2> QED
      BY <1>1, <1>3, <2>1, <2>2, <2>3, <2>4, <2>5, SameFiles DEF FInv
  <1>9. CASE wrote
    <2>1. config' = config \cup job[w].auto /\ auto' = auto /\ UNCHANGED <<base, live, history>>
      BY <1>1, <1>9 DEF JobFits
    <2>2. \A v \in Workers : Merging(job[v]) => JobFits(job[v])
      BY DEF FInv, JobInv
    <2>3. \A v \in Workers : v # w /\ Merging(job'[v]) => JobFits(job[v])'
      <3> SUFFICES ASSUME NEW v \in Workers, v # w, Merging(job'[v])
                   PROVE  JobFits(job[v])'
        OBVIOUS
      <3>1. job'[v] = job[v] /\ JobFits(job[v])
        BY <1>1, <2>2
      <3>2. CASE auto = {}
        <4>1. config' = config /\ job[v].auto \subseteq config
          BY <1>1, <2>1, <3>1, <3>2 DEF JobFits
        <4> QED
          BY <2>1, <3>1, <4>1 DEF JobFits
      <3>3. CASE auto # {}
        <4>1. auto = job[w].auto /\ auto = job[v].auto
          BY <1>1, <3>1, <3>3 DEF JobFits
        <4>2. job[v].at \in {"backup", "config"} => job[v].config = config' \cup job[v].auto
          BY <2>1, <3>1, <4>1 DEF JobFits
        <4>3. job[v].at = "remove" => config' = job[v].config /\ job[v].auto \subseteq config'
          BY <2>1, <3>1, <4>1 DEF JobFits
        <4> QED
          BY <2>1, <3>1, <4>1, <4>2, <4>3 DEF JobFits
      <3> QED
        BY <3>2, <3>3
    <2>4. JobFits(job[w])'
      BY <1>1, <1>9, <2>1 DEF JobFits
    <2>5. JobInv'
      BY <2>3, <2>4 DEF JobInv
    <2>6. OwnInv'
      <3>1. w \in Daemons => OwnFits(w)' /\ job'[w].at # "save"
        BY <1>1, <1>5, <1>9, <2>1 DEF OwnFits
      <3> QED
        BY <1>7, <3>1 DEF OwnInv
    <2>7. LiveInv'
      BY <1>1, <2>1 DEF FInv, LiveInv, Holds
    <2>8. BaseInv'
      <3>1. \A d \in Daemons : pc[d] # "off" => d = w
        BY <1>4, <1>5, <1>6
      <3>2. w \in Daemons => Unknown(w)' = {}
        BY <1>9 DEF Unknown
      <3> QED
        BY <1>1, <3>1, <3>2 DEF BaseInv
    <2>9. AcceptedKept' /\ AutoInv'
      BY <2>1 DEF FInv, AcceptedKept, AutoInv, OneEach, history
    <2>10. HiddenInv'
      <3>1. CASE auto = {}
        BY <2>1, <3>1 DEF HiddenInv
      <3>2. CASE auto # {}
        BY <1>1, <2>1, <3>2 DEF FInv, HiddenInv, AcceptedKept, JobFits, history
      <3> QED
        BY <3>1, <3>2
    <2> QED
      BY <1>3, <2>5, <2>6, <2>7, <2>8, <2>9, <2>10 DEF FInv
  <1>10. CASE gone
    <2>1. auto' = {} /\ config' = config /\ UNCHANGED history
      BY <1>1, <1>10
    <2>2. job[w].auto \subseteq config /\ (auto = {} \/ auto = job[w].auto)
      BY <1>1, <1>10 DEF JobFits
    <2>3. JobInv'
      <3> SUFFICES ASSUME NEW v \in Workers, v # w, Merging(job'[v])
                   PROVE  JobFits(job[v])'
        BY <1>10 DEF JobInv, Merging
      <3>1. job'[v] = job[v] /\ JobFits(job[v])
        BY <1>1 DEF FInv, JobInv
      <3>2. job[v].auto \subseteq config
        BY <2>2, <3>1 DEF JobFits
      <3> QED
        BY <2>1, <3>1, <3>2 DEF JobFits
    <2>4. \A d \in Daemons : job'[d] = None
      BY <1>10, <1>7
    <2>5. w \in Daemons => /\ live'[w] = {} /\ base'[w] = base[w] \cup live[w]
      BY <1>10 DEF MoveToBase, Merged, IInv, TypeOK
    <2>6. LiveInv'
      <3>1. CASE w \in Daemons
        BY <1>1, <1>5, <2>1, <2>5, <3>1 DEF LiveInv, Holds
      <3>2. CASE w \in Mergers
        BY <1>1, <1>4, <3>2 DEF LiveInv, Holds
      <3> QED
        BY <1>6, <3>1, <3>2
    <2>7. BaseInv'
      <3>1. CASE w \in Daemons
        <4>1. auto \subseteq live[w] /\ auto = job[w].auto /\ config = base[w] \cup job[w].auto
          BY <1>5, <1>10, <3>1 DEF FInv, LiveInv, OwnFits
        <4>2. config' \subseteq base'[w]
          BY <2>1, <2>5, <3>1, <4>1
        <4>3. Unknown(w)' = {}
          BY <4>2 DEF Unknown
        <4> QED
          BY <1>1, <1>5, <3>1, <4>3 DEF BaseInv
      <3>2. CASE w \in Mergers
        BY <1>1, <1>4, <3>2 DEF BaseInv
      <3> QED
        BY <1>6, <3>1, <3>2
    <2>8. AcceptedKept'
      BY <2>1, <2>2 DEF FInv, AcceptedKept, history
    <2>9. AutoInv'
      <3>1. Cardinality({}) = 0 /\ IsFiniteSet({})
        BY FS_EmptySet
      <3> QED
        BY <2>1, <3>1, OneEachEmpty, RuleAssumption DEF AutoInv, OneEach
    <2>10. HiddenInv'
      BY <2>1 DEF HiddenInv
    <2> QED
      BY <1>3, <2>3, <2>4, <2>6, <2>7, <2>8, <2>9, <2>10 DEF FInv, OwnInv
  <1> QED
    BY <1>1, <1>8, <1>9, <1>10

LEMMA PeopleFiles ==
    ASSUME FInv, IInv, DeleteAuto \/ \E rules \in SUBSET Rules : EditConfig(rules)
    PROVE  FInv'
  <1>1. /\ UNCHANGED <<endpoint, pc, memory, job>>
        /\ \A w \in Workers : ~Merging(job[w])
    BY DEF DeleteAuto, EditConfig, Busy, Merging
  <1>2. Lone' /\ Named' /\ Offline' /\ JobInv' /\ OwnInv'
    BY <1>1, IdleFiles DEF memory
  <1>3. CASE DeleteAuto
    <2> USE <1>3 DEF DeleteAuto, memory
    <2>1. AcceptedKept' /\ HiddenInv'
      BY DEF FInv, AcceptedKept, HiddenInv
    <2>2. LiveInv'
      BY DEF FInv, LiveInv, Holds
    <2>3. BaseInv'
      BY DEF FInv, BaseInv, Unknown
    <2>4. AutoInv'
      BY OneEachEmpty DEF AutoInv, OneEach
    <2> QED
      BY <1>2, <2>1, <2>2, <2>3, <2>4 DEF FInv
  <1>4. ASSUME NEW rules \in SUBSET Rules, EditConfig(rules) PROVE FInv'
    <2> USE <1>4 DEF EditConfig, memory
    <2>1. AcceptedKept' /\ AutoInv'
      BY DEF FInv, AcceptedKept, AutoInv, OneEach
    <2>2. LiveInv'
      BY DEF FInv, LiveInv, Holds
    <2>3. BaseInv'
      <3> SUFFICES ASSUME "remove" \notin Failing, NEW d \in Daemons,
                          pc[d] # "off"
                   PROVE  rules \ base[d] \subseteq edited'
        BY <1>1 DEF BaseInv, Unknown, Workers, Merging
      <3>1. config \ base[d] \subseteq edited
        BY <1>1 DEF FInv, BaseInv, Unknown, Workers, Merging
      <3> QED
        BY <3>1
    <2>4. HiddenInv'
      <3>1. config' \ edited' \subseteq config \ edited /\ auto' = auto
        BY DEF FInv, AcceptedKept
      <3>2. accepted \subseteq config => accepted' \subseteq config'
        OBVIOUS
      <3> QED
        BY <3>1, <3>2 DEF FInv, HiddenInv
    <2> QED
      BY <1>2, <2>1, <2>2, <2>3, <2>4 DEF FInv
  <1> QED
    BY <1>3, <1>4

LEMMA FilesStep ==
    ASSUME NoOverlap
    PROVE  FInv /\ IInv /\ [Next]_vars => FInv'
  <1> SUFFICES ASSUME FInv, IInv, [Next]_vars PROVE FInv'
    OBVIOUS
  <1>1. CASE UNCHANGED vars
    <2> USE <1>1 DEF vars, files, memory, history
    <2>1. HiddenInv' /\ AutoInv' /\ AcceptedKept'
      BY SameFiles
    <2>2. Lone' /\ Named' /\ Offline'
      BY DEF FInv, Lone, At, Named, Listening, Offline
    <2>3. JobInv' /\ OwnInv'
      BY DEF FInv, JobInv, Merging, JobFits, OwnInv, OwnFits, SaveFits
    <2>4. LiveInv' /\ BaseInv'
      BY DEF FInv, LiveInv, Holds, BaseInv, Unknown
    <2> QED
      BY <2>1, <2>2, <2>3, <2>4 DEF FInv
  <1>2. ASSUME NEW d \in Daemons, RunStep(d) PROVE FInv'
    BY <1>2, StartFiles, LoadFiles, ServeFiles DEF RunStep
  <1>3. ASSUME Next PROVE FInv'
    BY <1>2, <1>3, ChangeFiles, SaveFiles, AskFiles, OfflineFiles, MergeFiles, PeopleFiles DEF Next
  <1> QED
    BY <1>1, <1>3

LEMMA AsksRunning == FInv => MergeAsksRunning
  BY DEF FInv, Offline, MergeAsksRunning, At

LEMMA LiveRoutes ==
    ASSUME "removeAuto" \notin Environment
    PROVE  FInv => LiveMatchesFile
  BY DEF FInv, LiveInv, Holds, AutoInv, LiveMatchesFile, Answering, Listening, Draining

\* An added rule that the next start would not route, because the two files do not
\* fit together, has the domain of a rule that people wrote; else config.json has it.
LEMMA StartRoutes ==
    ASSUME "remove" \notin Failing
    PROVE  FInv /\ IInv => NextStartRoutes
  <1> SUFFICES ASSUME FInv, IInv, ~EditClash, ~Valid(config, auto)
               PROVE  accepted \subseteq config
    BY DEF NextStartRoutes, Effective, FInv, AcceptedKept
  <1>1. OneEach(config) /\ OneEach(auto)
    BY DEF IInv, FInv, AutoInv
  <1>2. \E r \in config, s \in auto : DomainOf[r] = DomainOf[s]
    <2>1. CASE config \cap auto # {}
      BY <2>1
    <2>2. CASE ~OneEach(config \cup auto)
      BY <1>1, <2>2 DEF OneEach
    <2> QED
      BY <2>1, <2>2 DEF Valid
  <1>3. PICK r \in config, s \in auto : DomainOf[r] = DomainOf[s]
    BY <1>2
  <1>4. r \notin edited
    BY <1>3 DEF EditClash
  <1> QED
    BY <1>3, <1>4 DEF FInv, HiddenInv

\* The base of a lemmingd changes at the end of a merge, when its added rules are
\* what rules.auto.json had.
LEMMA MergedStep ==
    ASSUME NoOverlap, "removeAuto" \notin Environment, FInv, IInv, [Next]_vars
    PROVE  \A d \in Daemons : Answering(d) /\ base'[d] # base[d] => base'[d] = config'
  <1> SUFFICES ASSUME NEW d \in Daemons, Answering(d), base'[d] # base[d]
               PROVE  base'[d] = config'
    OBVIOUS
  <1> USE DEF files, memory, history
  <1>1. base' # base
    OBVIOUS
  <1>2. Next
    BY <1>1 DEF vars
  <1>3. ASSUME NEW e \in Daemons, RunStep(e) PROVE FALSE
    <2>1. Start(e)
      BY <1>1, <1>3 DEF RunStep, Load, Publish, Listen, Stop, CloseListener, CloseControl,
                          RemoveEndpoint, Exit, Crash, Gone
    <2>2. base'[d] = base[d] \/ pc[d] = "off"
      BY <2>1 DEF Start, At, IInv, TypeOK
    <2> QED
      BY <2>2 DEF Answering, Listening, Draining
  <1>4. ASSUME NEW e \in Daemons, AskedMerge(e) PROVE FALSE
    <2>1. Changeable(e) /\ auto = {} /\ MoveToBase(e)
      BY <1>1, <1>4 DEF AskedMerge
    <2>2. live[e] = {}
      BY <2>1, ChangeAlone DEF FInv, LiveInv
    <2>3. base' = base
      BY <2>1, <2>2 DEF MoveToBase, IInv, TypeOK
    <2> QED
      BY <1>1, <2>3
  <1>5. ASSUME NEW w \in Workers, MergeStep(w) PROVE base'[d] = config'
    <2>1. /\ job[w] # None /\ JobFits(job[w]) /\ job[w].at = "remove"
          /\ config' = config /\ w \in Daemons /\ MoveToBase(w)
      BY <1>1, <1>5, MergeEffect DEF Merging
    <2>2. d = w
      BY <2>1 DEF MoveToBase, IInv, TypeOK
    <2>3. OwnFits(d) /\ Holds(d)
      BY <2>1, <2>2 DEF FInv, OwnInv, Holds, Answering, Listening, Draining, OwnFits
    <2>4. live[d] = job[d].auto /\ config = base[d] \cup job[d].auto
      BY <2>1, <2>2, <2>3 DEF FInv, LiveInv, OwnFits
    <2>5. base'[d] = base[d] \cup live[d]
      BY <2>1, <2>2 DEF MoveToBase, IInv, TypeOK
    <2> QED
      BY <2>1, <2>4, <2>5
  <1>6. /\ \A e \in Daemons, r \in Rules : AddRule(e, r) \/ RemoveRule(e, r) => FALSE
        /\ \A e \in Daemons : SaveRules(e) => FALSE
    BY <1>1 DEF AddRule, RemoveRule, SaveRules, GiveUp
  <1>7. \A m \in Mergers : OfflineMerge(m) => FALSE
    BY <1>1 DEF OfflineMerge
  <1>8. DeleteAuto \/ (\E rules \in SUBSET Rules : EditConfig(rules)) => FALSE
    BY <1>1 DEF DeleteAuto, EditConfig
  <1> QED
    BY <1>2, <1>3, <1>4, <1>5, <1>6, <1>7, <1>8 DEF Next

-----------------------------------------------------------------------------
(***************************************************************************)
(* The theorems about the files, for lemmingds that run one at a time.      *)
(***************************************************************************)
\* What lemmingds and merges know of the files is true in every reachable state.
THEOREM FilesInvariance ==
    ASSUME NoOverlap
    PROVE  Spec => []FInv
  <1>1. Init => FInv
    BY FilesInitially
  <1>2. FInv /\ IInv /\ [Next]_vars => FInv'
    BY FilesStep
  <1>3. Spec => []IInv
    BY Invariance
  <1> QED
    BY <1>1, <1>2, <1>3, PTL DEF Spec

\* No merge, cut off anywhere, repeated or made twice at the same time, loses a rule
\* that was added with success or one that people wrote into config.json.
THEOREM KeptCorrect ==
    ASSUME NoOverlap
    PROVE  Spec => []AcceptedKept
  <1>1. FInv => AcceptedKept
    BY DEF FInv
  <1> QED
    BY <1>1, FilesInvariance, PTL

\* "lemmingd config merge" does not touch the files of a running lemmingd.
THEOREM AsksCorrect ==
    ASSUME NoOverlap
    PROVE  Spec => []MergeAsksRunning
  BY FilesInvariance, AsksRunning, PTL

\* A running lemmingd routes what rules.auto.json holds, at most MaxAutoRules rules,
\* when nobody deletes that file.
THEOREM LiveCorrect ==
    ASSUME NoOverlap, "removeAuto" \notin Environment
    PROVE  Spec => []LiveMatchesFile
  <1>1. FInv => LiveMatchesFile
    BY LiveRoutes
  <1> QED
    BY <1>1, FilesInvariance, PTL

\* The next start routes every added rule unless people wrote one for its domain,
\* when a merge that wrote config.json can remove rules.auto.json or is cut off.
THEOREM NextStartCorrect ==
    ASSUME NoOverlap, "remove" \notin Failing
    PROVE  Spec => []NextStartRoutes
  <1>1. FInv /\ IInv => NextStartRoutes
    BY StartRoutes
  <1> QED
    BY <1>1, FilesInvariance, Invariance, PTL

\* A merge that a lemmingd reports as done leaves it with the rules of config.json.
THEOREM MergedCorrect ==
    ASSUME NoOverlap, "removeAuto" \notin Environment
    PROVE  Spec => MergedMatches
  <1>1. FInv /\ IInv /\ [Next]_vars =>
           [\A d \in Daemons :
               Answering(d) /\ base'[d] # base[d] => base'[d] = config']_vars
    BY MergedStep
  <1> QED
    BY <1>1, FilesInvariance, Invariance, PTL DEF Spec, MergedMatches
==============================================================================
