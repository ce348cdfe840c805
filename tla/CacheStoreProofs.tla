-------------------------- MODULE CacheStoreProofs --------------------------
(***************************************************************************)
(* Proofs about CacheStore for every set of keys, fetches and readers and   *)
(* every choice of limits.  The first part is the inductive invariant of    *)
(* the files: the mutex excludes, the files of a key belong together at     *)
(* every instant, and whatever is served is one whole response of the       *)
(* origin.  On top of it come the books of the store: one refresh per key,  *)
(* no temporary file left, exact counts of pending and of total, and an     *)
(* index that is the directory.  The last part is the refinement of         *)
(* AbstractCache.                                                           *)
(***************************************************************************)
EXTENDS CacheStore, TLAPS, FiniteSetTheorems

-----------------------------------------------------------------------------
(***************************************************************************)
(* The inductive invariant.                                                 *)
(***************************************************************************)
\* The places of a process that holds the mutex.
Holding == {"dropBody", "rmBody", "putBody", "putMeta", "evict", "evictBody",
            "scan"}

\* Only the holder of the mutex is at such a place.
MutexInv == \A p \in Procs : pc[p] \in Holding => lock = p

\* No download runs before the scan is over or after the process has ended.
DownInv == ~Running => \A f \in Fetches : pc[f] \in Idle

\* A fetch that began knows its key.
KeyInv == \A f \in Fetches : pc[f] # "unused" => key[f] \in Keys

\* A body that was delivered is not asked for again, so its length and its
\* key are settled.
DeliveredInv ==
    \A f \in delivered :
        pc[f] \in {"eof", "rmBody", "putBody", "putMeta", "evict", "evictBody",
                   "failing", "stored", "unstored", "committed", "bypassing",
                   "ending", "closed", "dead"}

\* What a download has in its temporary file.
CaptureInv ==
    \A f \in Fetches :
        /\ pc[f] \in {"unused", "dropBody", "fetch"} => written[f] = 0
        /\ pc[f] \in {"open", "over", "writing"} => temp[f] = written[f]
        /\ pc[f] = "disabling" => temp[f] \in Nat
        /\ pc[f] \in {"eof", "rmBody", "putBody"} => temp[f] = size[f]
        /\ pc[f] \in {"eof", "rmBody", "putBody", "putMeta"} =>
              f \in delivered /\ written[f] = size[f]

\* The files of the key that the holder of the mutex works on.
StepInv ==
    /\ \A f \in Fetches :
          /\ pc[f] \in {"dropBody", "rmBody", "putBody", "putMeta"} =>
                meta[key[f]] = None
          /\ pc[f] = "putMeta" =>
                body[key[f]] = [ver |-> f, len |-> size[f]]
    /\ \A p \in Procs : pc[p] = "evictBody" =>
          order # <<>> /\ meta[Last(order)] = None

\* Metadata lies beside the body it was written for.
Together(k) ==
    /\ body[k] # None
    /\ body[k].ver = meta[k].ver
    /\ meta[k].size = size[meta[k].ver]
    /\ key[meta[k].ver] = k
    /\ meta[k].ver \in delivered

FilesInv == \A k \in Keys : meta[k] # None => Together(k)

IInv == /\ TypeOK
        /\ MutexInv /\ DownInv /\ KeyInv
        /\ DeliveredInv /\ CaptureInv /\ StepInv /\ FilesInv
        /\ ServedWhole

-----------------------------------------------------------------------------
(***************************************************************************)
(* The index as a sequence of keys.                                         *)
(***************************************************************************)
LEMMA RemoveAtType ==
    ASSUME NEW S, NEW s \in Seq(S), NEW i \in 1..Len(s)
    PROVE  RemoveAt(s, i) \in Seq(S)
  <1>1. SubSeq(s, 1, i - 1) \in Seq(S)
    OBVIOUS
  <1>2. SubSeq(s, i + 1, Len(s)) \in Seq(S)
    OBVIOUS
  <1> QED
    BY <1>1, <1>2 DEF RemoveAt

LEMMA OthersType ==
    ASSUME order \in Seq(Keys), NEW k
    PROVE  Others(k) \in Seq(Keys)
  <1>1. CASE Contains(order, k)
    <2> DEFINE i == CHOOSE j \in 1..Len(order) : order[j] = k
    <2>1. i \in 1..Len(order)
      BY <1>1 DEF Contains
    <2>2. RemoveAt(order, i) \in Seq(Keys)
      BY <2>1, RemoveAtType
    <2> QED
      BY <1>1, <2>2 DEF Others
  <1>2. CASE ~Contains(order, k)
    BY <1>2 DEF Others
  <1> QED
    BY <1>1, <1>2

LEMMA UnindexType ==
    ASSUME TypeOK, NEW k \in Keys, Unindex(k)
    PROVE  /\ order' \in Seq(Keys)
           /\ isize' \in [Keys -> Nat]
           /\ total' \in Int
  BY OthersType DEF TypeOK, Unindex

LEMMA PushFrontType ==
    ASSUME TypeOK, NEW k \in Keys, NEW n \in Nat, PushFront(k, n)
    PROVE  /\ order' \in Seq(Keys)
           /\ isize' \in [Keys -> Nat]
           /\ total' \in Int
  BY DEF TypeOK, PushFront

LEMMA LastType ==
    ASSUME order \in Seq(Keys), order # <<>>
    PROVE  Last(order) \in Keys
  BY DEF Last

LEMMA GotoType ==
    ASSUME TypeOK, NEW p \in Procs, NEW l \in PCs, Goto(p, l)
    PROVE  pc' \in [Procs -> PCs]
  BY DEF TypeOK, Goto

\* A body that was cut by one byte.
LEMMA Shorter ==
    ASSUME NEW b \in BodyFile, b.len > 0
    PROVE  /\ b.len - 1 \in Nat
           /\ [b EXCEPT !.len = @ - 1] \in BodyFile
           /\ [b EXCEPT !.len = @ - 1].ver = b.ver
  BY DEF BodyFile

-----------------------------------------------------------------------------
(***************************************************************************)
(* Each part of the invariant survives each step.                           *)
(***************************************************************************)
\* Every variable keeps its sort over every step.
LEMMA TypeStep == ASSUME IInv, Next PROVE TypeOK'
  <1> USE SizeAssumption, NameAssumption DEF IInv, TypeOK, KeyInv, CaptureInv,
     Idle, Capturing, PCs, MetaFile, BodyFile, Response, Goto, At, Procs,
     dirVars, indexVars, countVars, fetchVars, envVars, callVars
  <1>1. ASSUME NEW p \in Procs, EvictMeta(p)
       PROVE  TypeOK'
    BY <1>1 DEF EvictMeta
  <1>2. ASSUME NEW p \in Procs, EvictBody(p)
       PROVE  TypeOK'
    <2>1. Last(order) \in Keys
      BY <1>2, LastType DEF EvictBody, StepInv
    <2>2. order' \in Seq(Keys) /\ isize' \in [Keys -> Nat] /\ total' \in Int
      BY <1>2, <2>1, UnindexType DEF EvictBody
    <2> QED
      BY <1>2, <2>1, <2>2 DEF EvictBody
  <1>3. ASSUME NEW p \in Procs, EvictDone(p)
       PROVE  TypeOK'
    BY <1>3 DEF EvictDone, Unlock
  <1>4. ASSUME NEW f \in Fetches, DropBody(f)
       PROVE  TypeOK'
    <2>1. key[f] \in Keys
      BY <1>4 DEF DropBody
    <2>2. order' \in Seq(Keys) /\ isize' \in [Keys -> Nat] /\ total' \in Int
      BY <1>4, <2>1, UnindexType DEF DropBody
    <2>3. pc' \in [Procs -> PCs]
      BY <1>4 DEF DropBody
    <2> QED
      BY <1>4, <2>1, <2>2, <2>3 DEF DropBody, Unlock
  <1>5. ASSUME NEW f \in Fetches, CommitDropBody(f)
       PROVE  TypeOK'
    <2>1. key[f] \in Keys
      BY <1>5 DEF CommitDropBody
    <2>2. order' \in Seq(Keys) /\ isize' \in [Keys -> Nat] /\ total' \in Int
      BY <1>5, <2>1, UnindexType DEF CommitDropBody
    <2>3. pc' \in [Procs -> PCs]
      BY <1>5 DEF CommitDropBody
    <2> QED
      BY <1>5, <2>1, <2>2, <2>3 DEF CommitDropBody, Unlock
  <1>6. ASSUME NEW f \in Fetches, PutBody(f)
       PROVE  TypeOK'
    BY <1>6 DEF PutBody
  <1>7. ASSUME NEW f \in Fetches, PutBodyError(f)
       PROVE  TypeOK'
    BY <1>7 DEF PutBodyError, Unlock
  <1>8. ASSUME NEW f \in Fetches, PutMeta(f)
       PROVE  TypeOK'
    <2>1. written[f] + MetaSize \in Nat /\ key[f] \in Keys
      BY <1>8 DEF PutMeta
    <2>2. order' \in Seq(Keys) /\ isize' \in [Keys -> Nat] /\ total' \in Int
      BY <1>8, <2>1, PushFrontType DEF PutMeta
    <2>3. meta' \in [Keys -> MetaFile \cup {None}]
      BY <1>8 DEF PutMeta
    <2>4. pc' \in [Procs -> PCs]
      BY <1>8 DEF PutMeta
    <2> QED
      BY <1>8, <2>1, <2>2, <2>3, <2>4 DEF PutMeta
  <1>9. ASSUME NEW f \in Fetches, PutMetaError(f)
       PROVE  TypeOK'
    BY <1>9 DEF PutMetaError, Unlock
  <1>10. ASSUME NEW f \in Fetches, NEW n \in Nat, Respond(f, n)
       PROVE  TypeOK'
    BY <1>10 DEF Respond
  <1>11. ASSUME NEW f \in Fetches, Decline(f)
       PROVE  TypeOK'
    BY <1>11 DEF Decline, AfterClose
  <1>12. ASSUME NEW f \in Fetches, NEW n \in Nat, Read(f, n)
       PROVE  TypeOK'
    <2>1. CASE written[f] + n > MaxObjectBytes
      BY <1>12, <2>1 DEF Read
    <2>2. CASE ~(written[f] + n > MaxObjectBytes)
      <3>1. pc' \in [Procs -> PCs]
        <4>1. CASE OverBudget(n)
          BY <1>12, <2>2, <4>1 DEF Read
        <4>2. CASE ~OverBudget(n)
          BY <1>12, <2>2, <4>2 DEF Read
        <4> QED
          BY <4>1, <4>2
      <3>4. chunk' = [chunk EXCEPT ![f] = n]
        BY <1>12, <2>2 DEF Read
      <3>2. chunk' \in [Fetches -> Nat]
        BY <3>4
      <3>3. pending' \in Int
        BY <1>12, <2>2 DEF Read
      <3> QED
        BY <1>12, <2>2, <3>1, <3>2, <3>3 DEF Read
    <2> QED
      BY <2>1, <2>2
  <1>13. ASSUME NEW f \in Fetches, Undo(f)
       PROVE  TypeOK'
    <2>1. chunk' \in [Fetches -> Nat]
      BY <1>13 DEF Undo, GiveBack
    <2>2. pending' \in Int
      BY <1>13 DEF Undo, GiveBack
    <2>3. pc' \in [Procs -> PCs]
      BY <1>13 DEF Undo, GiveBack
    <2> QED
      BY <1>13, <2>1, <2>2, <2>3 DEF Undo
  <1>14. ASSUME NEW f \in Fetches, Write(f)
       PROVE  TypeOK'
    <2>1. written[f] + chunk[f] \in Nat /\ temp[f] + chunk[f] \in Nat
      BY <1>14 DEF Write
    <2>2. written' \in [Fetches -> Nat]
      BY <1>14, <2>1 DEF Write
    <2>3. temp' \in [Fetches -> Nat \cup {None}]
      BY <1>14, <2>1 DEF Write
    <2>4. chunk' \in [Fetches -> Nat]
      BY <1>14 DEF Write
    <2>5. pc' \in [Procs -> PCs]
      BY <1>14 DEF Write
    <2> QED
      BY <1>14, <2>1, <2>2, <2>3, <2>4, <2>5 DEF Write
  <1>15. ASSUME NEW f \in Fetches, WriteError(f)
       PROVE  TypeOK'
    <2>1. temp' \in [Fetches -> Nat \cup {None}]
      BY <1>15 DEF WriteError
    <2>2. chunk' \in [Fetches -> Nat]
      BY <1>15 DEF WriteError, GiveBack
    <2>3. pending' \in Int
      BY <1>15 DEF WriteError, GiveBack
    <2>4. pc' \in [Procs -> PCs]
      BY <1>15 DEF WriteError, GiveBack
    <2> QED
      BY <1>15, <2>1, <2>2, <2>3, <2>4 DEF WriteError
  <1>16. ASSUME NEW f \in Fetches, Abort(f)
       PROVE  TypeOK'
    BY <1>16 DEF Abort
  <1>17. ASSUME NEW f \in Fetches, Release(f)
       PROVE  TypeOK'
    <2>1. pending' \in Int
      BY <1>17 DEF Release
    <2>2. written' \in [Fetches -> Nat]
      BY <1>17 DEF Release, NothingWritten
    <2>3. pc' \in [Procs -> PCs]
      BY <1>17 DEF Release
    <2> QED
      BY <1>17, <2>1, <2>2, <2>3 DEF Release
  <1>18. ASSUME NEW f \in Fetches, Unlink(f)
       PROVE  TypeOK'
    BY <1>18 DEF Unlink
  <1>19. ASSUME NEW f \in Fetches, EndOfBody(f)
       PROVE  TypeOK'
    <2>1. pc' \in [Procs -> PCs]
      BY <1>19 DEF EndOfBody
    <2>2. delivered' \in SUBSET Fetches
      BY <1>19 DEF EndOfBody
    <2> QED
      BY <1>19, <2>1, <2>2 DEF EndOfBody
  <1>20. ASSUME NEW f \in Fetches, CommitDropMeta(f)
       PROVE  TypeOK'
    BY <1>20 DEF CommitDropMeta
  <1>21. ASSUME NEW f \in Fetches, Discard(f)
       PROVE  TypeOK'
    BY <1>21 DEF Discard
  <1>22. ASSUME NEW f \in Fetches, Settle(f)
       PROVE  TypeOK'
    <2>1. pending' \in Int
      BY <1>22 DEF Settle
    <2>2. written' \in [Fetches -> Nat]
      BY <1>22 DEF Settle, NothingWritten
    <2>3. pc' \in [Procs -> PCs]
      BY <1>22 DEF Settle
    <2> QED
      BY <1>22, <2>1, <2>2, <2>3 DEF Settle
  <1>23. ASSUME NEW f \in Fetches, ReadAgain(f)
       PROVE  TypeOK'
    <2>1. pending' \in Int
      BY <1>23 DEF ReadAgain
    <2>2. temp' \in [Fetches -> Nat \cup {None}]
      BY <1>23 DEF ReadAgain
    <2>3. pc' \in [Procs -> PCs]
      BY <1>23 DEF ReadAgain
    <2> QED
      BY <1>23, <2>1, <2>2, <2>3 DEF ReadAgain
  <1>24. ASSUME NEW f \in Fetches, CloseBody(f)
       PROVE  TypeOK'
    BY <1>24 DEF CloseBody, AfterClose
  <1>25. ASSUME NEW f \in Fetches, EndRefresh(f)
       PROVE  TypeOK'
    BY <1>25 DEF EndRefresh
  <1>26. ASSUME NEW f \in Fetches, NEW k \in Keys, Miss(f, k)
       PROVE  TypeOK'
    BY <1>26 DEF Miss, StartFetch
  <1>27. ASSUME NEW f \in Fetches, NEW k \in Keys, MissDrop(f, k)
       PROVE  TypeOK'
    BY <1>27 DEF MissDrop, StartFetch
  <1>28. ASSUME NEW r \in Readers, NEW k \in Keys, Serve(r, k)
       PROVE  TypeOK'
    <2>1. resp' \in [Readers -> Response \cup {None}]
      BY <1>28 DEF Serve, ServeFrom, Answer, Usable, Intact
    <2>2. order' \in Seq(Keys)
      BY <1>28, OthersType DEF Serve, ServeFrom
    <2> QED
      BY <1>28, <2>1, <2>2 DEF Serve, ServeFrom
  <1>29. ASSUME NEW r \in Readers, NEW k \in Keys, NEW f \in Fetches,
     ServeAndRefresh(r, k, f)
       PROVE  TypeOK'
    <2>1. resp' \in [Readers -> Response \cup {None}]
      BY <1>29 DEF ServeAndRefresh, ServeFrom, Answer, Usable, Intact
    <2>2. order' \in Seq(Keys)
      BY <1>29, OthersType DEF ServeAndRefresh, ServeFrom
    <2> QED
      BY <1>29, <2>1, <2>2 DEF ServeAndRefresh, ServeFrom, StartFetch
  <1>30. ASSUME NEW r \in Readers, CloseResponse(r)
       PROVE  TypeOK'
    BY <1>30 DEF CloseResponse
  <1>31. ASSUME Crash
       PROVE  TypeOK'
    BY <1>31 DEF Crash
  <1>32. ASSUME Restart
       PROVE  TypeOK'
    <2>1. temp' \in [Fetches -> Nat \cup {None}]
      BY <1>32 DEF Restart
    <2> QED
      BY <1>32, <2>1 DEF Restart, Idle
  <1>33. ASSUME ScanDone
       PROVE  TypeOK'
    BY <1>33 DEF ScanDone
  <1>34. ASSUME NEW k \in Keys, Damage(k)
       PROVE  TypeOK'
    <2>1. CASE meta[k] # None /\ meta' = [meta EXCEPT ![k].readable = FALSE] /\ UNCHANGED body
      <3>1. meta[k] \in MetaFile
        BY <2>1
      <3>2. [meta[k] EXCEPT !.readable = FALSE] \in MetaFile
        BY <3>1
      <3>3. meta' = [meta EXCEPT ![k] = [meta[k] EXCEPT !.readable = FALSE]]
        BY <2>1
      <3>4. meta' \in [Keys -> MetaFile \cup {None}]
        BY <3>2, <3>3
      <3> QED
        BY <1>34, <2>1, <3>4 DEF Damage
    <2>2. CASE /\ body[k] # None /\ body[k].len > 0
               /\ body' = [body EXCEPT ![k].len = @ - 1] /\ UNCHANGED meta
      <3>0. body[k] \in BodyFile
        BY <2>2
      <3>2. [body[k] EXCEPT !.len = @ - 1] \in BodyFile
        BY <2>2, <3>0, Shorter
      <3>3. body' = [body EXCEPT ![k] = [body[k] EXCEPT !.len = @ - 1]]
        BY <2>2
      <3>4. body' \in [Keys -> BodyFile \cup {None}]
        BY <3>2, <3>3
      <3> QED
        BY <1>34, <2>2, <3>4 DEF Damage
    <2> QED
      BY <1>34, <2>1, <2>2 DEF Damage
  <1>35. ASSUME NEW k \in Keys, ScanDrop(k)
       PROVE  TypeOK'
    BY <1>35 DEF ScanDrop
  <1>36. ASSUME NEW k \in Keys, ScanIndex(k)
       PROVE  TypeOK'
    <2>1. body[k] \in BodyFile
      BY <1>36 DEF ScanIndex, Whole
    <2>2. body[k].len + MetaSize \in Nat
      BY <2>1
    <2>3. order' \in Seq(Keys) /\ isize' \in [Keys -> Nat] /\ total' \in Int
      BY <1>36, <2>2, PushFrontType DEF ScanIndex
    <2> QED
      BY <1>36, <2>1, <2>2, <2>3 DEF ScanIndex
  <1>37. ASSUME NEW f \in Fetches, NEW q \in {"stale", "expired"}, Age(f, q)
       PROVE  TypeOK'
    BY <1>37 DEF Age
  <1> HIDE DEF IInv, TypeOK, KeyInv, CaptureInv, Idle, Capturing, PCs,
     MetaFile, BodyFile, Response, Goto, At, dirVars, indexVars, countVars,
     fetchVars, envVars, callVars
  <1> QED
    <2>1. ASSUME NEW p \in Procs, LockedStep(p) PROVE TypeOK'
      BY <2>1, <1>1, <1>2, <1>3, <1>4, <1>5, <1>6, <1>7, <1>8, <1>9 DEF
         LockedStep
    <2>2. ASSUME NEW f \in Fetches, FetchStep(f) PROVE TypeOK'
      BY <2>2, <1>10, <1>11, <1>12, <1>13, <1>14, <1>15, <1>16, <1>17, <1>18,
         <1>19, <1>20, <1>21, <1>22, <1>23, <1>24, <1>25 DEF FetchStep
    <2>3. ASSUME NEW f \in Fetches, NEW k \in Keys, RequestStep(f, k) PROVE TypeOK'
      BY <2>3, <1>26, <1>27 DEF RequestStep
    <2>4. ASSUME NEW r \in Readers, NEW k \in Keys, ServeStep(r, k) PROVE TypeOK'
      BY <2>4, <1>28, <1>29 DEF ServeStep
    <2>5. ASSUME ScanStep PROVE TypeOK'
      BY <2>5, <1>33, <1>35, <1>36 DEF ScanStep
    <2> QED
      BY <2>1, <2>2, <2>3, <2>4, <2>5, <1>30, <1>31, <1>32, <1>34, <1>37 DEF
         Next

\* A process gets to a place of the holder only by taking the free mutex.
LEMMA MutexStep == ASSUME IInv, Next PROVE MutexInv'
  <1> USE SizeAssumption, NameAssumption DEF IInv, TypeOK, MutexInv, Holding,
     Unlock, Goto, At, Procs, dirVars, indexVars, countVars, fetchVars,
     envVars, callVars
  <1>1. ASSUME NEW p \in Procs, EvictMeta(p)
       PROVE  MutexInv'
    BY <1>1 DEF EvictMeta
  <1>2. ASSUME NEW p \in Procs, EvictBody(p)
       PROVE  MutexInv'
    BY <1>2 DEF EvictBody, Unindex
  <1>3. ASSUME NEW p \in Procs, EvictDone(p)
       PROVE  MutexInv'
    BY <1>3 DEF EvictDone
  <1>4. ASSUME NEW f \in Fetches, DropBody(f)
       PROVE  MutexInv'
    BY <1>4 DEF DropBody, Unindex
  <1>5. ASSUME NEW f \in Fetches, CommitDropBody(f)
       PROVE  MutexInv'
    BY <1>5 DEF CommitDropBody, Unindex
  <1>6. ASSUME NEW f \in Fetches, PutBody(f)
       PROVE  MutexInv'
    BY <1>6 DEF PutBody
  <1>7. ASSUME NEW f \in Fetches, PutBodyError(f)
       PROVE  MutexInv'
    BY <1>7 DEF PutBodyError
  <1>8. ASSUME NEW f \in Fetches, PutMeta(f)
       PROVE  MutexInv'
    BY <1>8 DEF PutMeta, PushFront
  <1>9. ASSUME NEW f \in Fetches, PutMetaError(f)
       PROVE  MutexInv'
    BY <1>9 DEF PutMetaError
  <1>10. ASSUME NEW f \in Fetches, NEW n \in Nat, Respond(f, n) \/ Read(f, n)
       PROVE  MutexInv'
    <2>1. CASE Respond(f, n)
      BY <2>1 DEF Respond
    <2>2. CASE Read(f, n)
      BY <2>2 DEF Read
    <2> QED
      BY <1>10, <2>1, <2>2
  <1>11. ASSUME NEW f \in Fetches, Decline(f) \/ Undo(f) \/ Write(f) \/
     WriteError(f) \/ Abort(f) \/ Release(f) \/ Unlink(f)
       PROVE  MutexInv'
    BY <1>11 DEF Decline, AfterClose, Undo, GiveBack, Write, WriteError,
       Abort, Release, NothingWritten, Unlink
  <1>12. ASSUME NEW f \in Fetches, EndOfBody(f) \/ CommitDropMeta(f) \/
     Discard(f) \/ Settle(f) \/ ReadAgain(f) \/ CloseBody(f) \/ EndRefresh(f)
       PROVE  MutexInv'
    BY <1>12 DEF EndOfBody, AtEOF, CommitDropMeta, Discard, Settle,
       NothingWritten, ReadAgain, CloseBody, AfterClose, EndRefresh
  <1>13. ASSUME NEW f \in Fetches, NEW k \in Keys, Miss(f, k) \/ MissDrop(f,
     k)
       PROVE  MutexInv'
    BY <1>13 DEF Miss, StartFetch, MissDrop
  <1>14. ASSUME NEW r \in Readers, NEW k \in Keys, Serve(r, k)
       PROVE  MutexInv'
    BY <1>14 DEF Serve, ServeFrom, Answer
  <1>15. ASSUME NEW r \in Readers, NEW k \in Keys, NEW f \in Fetches,
     ServeAndRefresh(r, k, f)
       PROVE  MutexInv'
    BY <1>15 DEF ServeAndRefresh, StartFetch, ServeFrom, Answer
  <1>16. ASSUME NEW r \in Readers, CloseResponse(r)
       PROVE  MutexInv'
    BY <1>16 DEF CloseResponse
  <1>17. ASSUME Crash
       PROVE  MutexInv'
    BY <1>17 DEF Crash
  <1>18. ASSUME Restart
       PROVE  MutexInv'
    BY <1>18 DEF Restart, DownInv, Running, Idle
  <1>19. ASSUME ScanDone
       PROVE  MutexInv'
    BY <1>19 DEF ScanDone
  <1>20. ASSUME NEW k \in Keys, Damage(k) \/ ScanDrop(k) \/ ScanIndex(k)
       PROVE  MutexInv'
    BY <1>20 DEF Damage, ScanDrop, ScanIndex, PushFront
  <1>21. ASSUME NEW f \in Fetches, NEW q \in {"stale", "expired"}, Age(f, q)
       PROVE  MutexInv'
    BY <1>21 DEF Age
  <1> HIDE DEF IInv, TypeOK, MutexInv, Holding, Unlock, Goto, At, dirVars,
     indexVars, countVars, fetchVars, envVars, callVars
  <1> QED
    <2>1. ASSUME NEW p \in Procs, LockedStep(p) PROVE MutexInv'
      BY <2>1, <1>1, <1>2, <1>3, <1>4, <1>5, <1>6, <1>7, <1>8, <1>9 DEF
         LockedStep
    <2>2. ASSUME NEW f \in Fetches, FetchStep(f) PROVE MutexInv'
      BY <2>2, <1>10, <1>11, <1>12 DEF FetchStep
    <2>3. ASSUME NEW f \in Fetches, NEW k \in Keys, RequestStep(f, k) PROVE MutexInv'
      BY <2>3, <1>13 DEF RequestStep
    <2>4. ASSUME NEW r \in Readers, NEW k \in Keys, ServeStep(r, k) PROVE MutexInv'
      BY <2>4, <1>14, <1>15 DEF ServeStep
    <2>5. ASSUME ScanStep PROVE MutexInv'
      BY <2>5, <1>19, <1>20 DEF ScanStep
    <2> QED
      BY <2>1, <2>2, <2>3, <2>4, <2>5, <1>16, <1>17, <1>18, <1>20, <1>21 DEF
         Next

\* The scan starts only when every download of the last process is over.
LEMMA DownStep == ASSUME IInv, Next PROVE DownInv'
  <1> USE SizeAssumption, NameAssumption DEF IInv, TypeOK, DownInv, MutexInv,
     Holding, Running, Idle, AfterClose, ServeFrom, Goto, At, Procs, dirVars,
     indexVars, countVars, fetchVars, envVars, callVars
  <1>1. ASSUME NEW p \in Procs, EvictMeta(p) \/ EvictBody(p) \/ EvictDone(p)
       PROVE  DownInv'
    BY <1>1 DEF EvictMeta, EvictBody, Unindex, EvictDone, Unlock
  <1>2. ASSUME NEW f \in Fetches, DropBody(f) \/ CommitDropBody(f) \/
     PutBody(f) \/ PutBodyError(f) \/ PutMeta(f) \/ PutMetaError(f)
       PROVE  DownInv'
    BY <1>2 DEF DropBody, Unindex, Unlock, CommitDropBody, PutBody,
       PutBodyError, PutMeta, PushFront, PutMetaError
  <1>3. ASSUME NEW f \in Fetches, NEW n \in Nat, Respond(f, n) \/ Read(f, n)
       PROVE  DownInv'
    BY <1>3 DEF Respond, Read
  <1>4. ASSUME NEW f \in Fetches, Decline(f) \/ Undo(f) \/ Write(f) \/
     WriteError(f) \/ Abort(f) \/ Release(f) \/ Unlink(f)
       PROVE  DownInv'
    BY <1>4 DEF Decline, Undo, GiveBack, Write, WriteError, Abort, Release,
       NothingWritten, Unlink
  <1>5. ASSUME NEW f \in Fetches, EndOfBody(f) \/ CommitDropMeta(f) \/
     Discard(f) \/ Settle(f) \/ ReadAgain(f) \/ CloseBody(f) \/ EndRefresh(f)
       PROVE  DownInv'
    BY <1>5 DEF EndOfBody, AtEOF, CommitDropMeta, Discard, Settle,
       NothingWritten, ReadAgain, CloseBody, EndRefresh
  <1>6. ASSUME NEW f \in Fetches, NEW k \in Keys, Miss(f, k) \/ MissDrop(f, k)
       PROVE  DownInv'
    BY <1>6 DEF Miss, StartFetch, MissDrop
  <1>7. ASSUME NEW r \in Readers, NEW k \in Keys, Serve(r, k)
       PROVE  DownInv'
    BY <1>7 DEF Serve, Answer
  <1>8. ASSUME NEW r \in Readers, NEW k \in Keys, NEW f \in Fetches,
     ServeAndRefresh(r, k, f)
       PROVE  DownInv'
    BY <1>8 DEF ServeAndRefresh, StartFetch, Answer
  <1>9. ASSUME NEW r \in Readers, CloseResponse(r)
       PROVE  DownInv'
    BY <1>9 DEF CloseResponse
  <1>10. ASSUME Crash
       PROVE  DownInv'
    BY <1>10 DEF Crash
  <1>11. ASSUME Restart
       PROVE  DownInv'
    BY <1>11 DEF Restart
  <1>12. ASSUME ScanDone
       PROVE  DownInv'
    BY <1>12 DEF ScanDone
  <1>13. ASSUME NEW k \in Keys, Damage(k) \/ ScanDrop(k) \/ ScanIndex(k)
       PROVE  DownInv'
    BY <1>13 DEF Damage, ScanDrop, ScanIndex, PushFront
  <1>14. ASSUME NEW f \in Fetches, NEW q \in {"stale", "expired"}, Age(f, q)
       PROVE  DownInv'
    BY <1>14 DEF Age
  <1> HIDE DEF IInv, TypeOK, DownInv, MutexInv, Holding, Running, Idle,
     AfterClose, ServeFrom, Goto, At, dirVars, indexVars, countVars,
     fetchVars, envVars, callVars
  <1> QED
    <2>1. ASSUME NEW p \in Procs, LockedStep(p) PROVE DownInv'
      BY <2>1, <1>1, <1>2 DEF LockedStep
    <2>2. ASSUME NEW f \in Fetches, FetchStep(f) PROVE DownInv'
      BY <2>2, <1>3, <1>4, <1>5 DEF FetchStep
    <2>3. ASSUME NEW f \in Fetches, NEW k \in Keys, RequestStep(f, k) PROVE DownInv'
      BY <2>3, <1>6 DEF RequestStep
    <2>4. ASSUME NEW r \in Readers, NEW k \in Keys, ServeStep(r, k) PROVE DownInv'
      BY <2>4, <1>7, <1>8 DEF ServeStep
    <2>5. ASSUME ScanStep PROVE DownInv'
      BY <2>5, <1>12, <1>13 DEF ScanStep
    <2> QED
      BY <2>1, <2>2, <2>3, <2>4, <2>5, <1>9, <1>10, <1>11, <1>13, <1>14 DEF
         Next

\* A fetch is given its key when it begins.
LEMMA KeyStep == ASSUME IInv, Next PROVE KeyInv'
  <1> USE SizeAssumption, NameAssumption DEF IInv, TypeOK, KeyInv, AfterClose,
     Goto, At, Procs, dirVars, indexVars, countVars, fetchVars, envVars,
     callVars
  <1>1. ASSUME NEW p \in Procs, EvictMeta(p) \/ EvictBody(p) \/ EvictDone(p)
       PROVE  KeyInv'
    BY <1>1 DEF EvictMeta, EvictBody, Unindex, EvictDone, Unlock
  <1>2. ASSUME NEW f \in Fetches, DropBody(f) \/ CommitDropBody(f) \/
     PutBody(f) \/ PutBodyError(f) \/ PutMeta(f) \/ PutMetaError(f)
       PROVE  KeyInv'
    BY <1>2 DEF DropBody, Unindex, Unlock, CommitDropBody, PutBody,
       PutBodyError, PutMeta, PushFront, PutMetaError
  <1>3. ASSUME NEW f \in Fetches, NEW n \in Nat, Respond(f, n) \/ Read(f, n)
       PROVE  KeyInv'
    BY <1>3 DEF Respond, Read
  <1>4. ASSUME NEW f \in Fetches, Decline(f) \/ Undo(f) \/ Write(f) \/
     WriteError(f) \/ Abort(f) \/ Release(f) \/ Unlink(f)
       PROVE  KeyInv'
    BY <1>4 DEF Decline, Undo, GiveBack, Write, WriteError, Abort, Release,
       NothingWritten, Unlink
  <1>5. ASSUME NEW f \in Fetches, EndOfBody(f) \/ CommitDropMeta(f) \/
     Discard(f) \/ Settle(f) \/ ReadAgain(f) \/ CloseBody(f) \/ EndRefresh(f)
       PROVE  KeyInv'
    BY <1>5 DEF EndOfBody, AtEOF, CommitDropMeta, Discard, Settle,
       NothingWritten, ReadAgain, CloseBody, EndRefresh
  <1>6. ASSUME NEW f \in Fetches, NEW k \in Keys, Miss(f, k)
       PROVE  KeyInv'
    BY <1>6 DEF Miss, StartFetch
  <1>7. ASSUME NEW f \in Fetches, NEW k \in Keys, MissDrop(f, k)
       PROVE  KeyInv'
    BY <1>7 DEF MissDrop, StartFetch
  <1>8. ASSUME NEW r \in Readers, NEW k \in Keys, Serve(r, k)
       PROVE  KeyInv'
    BY <1>8 DEF Serve, ServeFrom, Answer
  <1>9. ASSUME NEW r \in Readers, NEW k \in Keys, NEW f \in Fetches,
     ServeAndRefresh(r, k, f)
       PROVE  KeyInv'
    BY <1>9 DEF ServeAndRefresh, StartFetch, ServeFrom, Answer
  <1>10. ASSUME NEW r \in Readers, CloseResponse(r)
       PROVE  KeyInv'
    BY <1>10 DEF CloseResponse
  <1>11. ASSUME Restart \/ ScanDone
       PROVE  KeyInv'
    BY <1>11 DEF Restart, ScanDone
  <1>12. ASSUME Crash
       PROVE  KeyInv'
    BY <1>12 DEF Crash
  <1>13. ASSUME NEW k \in Keys, Damage(k) \/ ScanDrop(k) \/ ScanIndex(k)
       PROVE  KeyInv'
    BY <1>13 DEF Damage, ScanDrop, ScanIndex, PushFront
  <1>14. ASSUME NEW f \in Fetches, NEW q \in {"stale", "expired"}, Age(f, q)
       PROVE  KeyInv'
    BY <1>14 DEF Age
  <1> HIDE DEF IInv, TypeOK, KeyInv, AfterClose, Goto, At, dirVars, indexVars,
     countVars, fetchVars, envVars, callVars
  <1> QED
    <2>1. ASSUME NEW p \in Procs, LockedStep(p) PROVE KeyInv'
      BY <2>1, <1>1, <1>2 DEF LockedStep
    <2>2. ASSUME NEW f \in Fetches, FetchStep(f) PROVE KeyInv'
      BY <2>2, <1>3, <1>4, <1>5 DEF FetchStep
    <2>3. ASSUME NEW f \in Fetches, NEW k \in Keys, RequestStep(f, k) PROVE KeyInv'
      BY <2>3, <1>6, <1>7 DEF RequestStep
    <2>4. ASSUME NEW r \in Readers, NEW k \in Keys, ServeStep(r, k) PROVE KeyInv'
      BY <2>4, <1>8, <1>9 DEF ServeStep
    <2>5. ASSUME ScanStep PROVE KeyInv'
      BY <2>5, <1>11, <1>13 DEF ScanStep
    <2> QED
      BY <2>1, <2>2, <2>3, <2>4, <2>5, <1>10, <1>11, <1>12, <1>13, <1>14 DEF
         Next

\* A delivered body is past the reads that count its length.
LEMMA DeliveredStep == ASSUME IInv, Next PROVE DeliveredInv'
  <1> USE SizeAssumption, NameAssumption DEF IInv, TypeOK, DeliveredInv,
     CaptureInv, AfterClose, Goto, At, Procs, dirVars, indexVars, countVars,
     fetchVars, envVars, callVars
  <1>1. ASSUME NEW p \in Procs, EvictMeta(p)
       PROVE  DeliveredInv'
    BY <1>1 DEF EvictMeta
  <1>2. ASSUME NEW p \in Procs, EvictBody(p)
       PROVE  DeliveredInv'
    BY <1>2 DEF EvictBody, Unindex
  <1>3. ASSUME NEW p \in Procs, EvictDone(p)
       PROVE  DeliveredInv'
    BY <1>3 DEF EvictDone, Unlock
  <1>4. ASSUME NEW f \in Fetches, DropBody(f) \/ CommitDropBody(f) \/
     PutBody(f) \/ PutBodyError(f) \/ PutMeta(f) \/ PutMetaError(f)
       PROVE  DeliveredInv'
    <2>1. CASE DropBody(f)
      BY <2>1 DEF DropBody, Unindex, Unlock
    <2>2. CASE CommitDropBody(f)
      BY <2>2 DEF CommitDropBody, Unindex
    <2>3. CASE PutBody(f)
      BY <2>3 DEF PutBody
    <2>4. CASE PutBodyError(f)
      BY <2>4 DEF PutBodyError, Unlock
    <2>5. CASE PutMeta(f)
      BY <2>5 DEF PutMeta, PushFront
    <2>6. CASE PutMetaError(f)
      BY <2>6 DEF PutMetaError, Unlock
    <2> QED
      BY <1>4, <2>1, <2>2, <2>3, <2>4, <2>5, <2>6
  <1>5. ASSUME NEW f \in Fetches, NEW n \in Nat, Respond(f, n) \/ Read(f, n)
       PROVE  DeliveredInv'
    <2>1. CASE Respond(f, n)
      BY <2>1 DEF Respond
    <2>2. CASE Read(f, n)
      BY <2>2 DEF Read
    <2> QED
      BY <1>5, <2>1, <2>2
  <1>6. ASSUME NEW f \in Fetches, Decline(f) \/ Undo(f) \/ Write(f) \/
     WriteError(f) \/ Abort(f) \/ Release(f) \/ Unlink(f)
       PROVE  DeliveredInv'
    <2>1. CASE Decline(f)
      BY <2>1 DEF Decline
    <2>2. CASE Undo(f)
      BY <2>2 DEF Undo, GiveBack
    <2>3. CASE Write(f)
      BY <2>3 DEF Write
    <2>4. CASE WriteError(f)
      BY <2>4 DEF WriteError, GiveBack
    <2>5. CASE Abort(f)
      BY <2>5 DEF Abort
    <2>6. CASE Release(f)
      BY <2>6 DEF Release, NothingWritten
    <2>7. CASE Unlink(f)
      BY <2>7 DEF Unlink
    <2> QED
      BY <1>6, <2>1, <2>2, <2>3, <2>4, <2>5, <2>6, <2>7
  <1>7. ASSUME NEW f \in Fetches, EndOfBody(f)
       PROVE  DeliveredInv'
    BY <1>7 DEF EndOfBody, AtEOF
  <1>8. ASSUME NEW f \in Fetches, CommitDropMeta(f)
       PROVE  DeliveredInv'
    BY <1>8 DEF CommitDropMeta
  <1>9. ASSUME NEW f \in Fetches, Discard(f)
       PROVE  DeliveredInv'
    BY <1>9 DEF Discard
  <1>10. ASSUME NEW f \in Fetches, Settle(f)
       PROVE  DeliveredInv'
    BY <1>10 DEF Settle, NothingWritten
  <1>11. ASSUME NEW f \in Fetches, ReadAgain(f)
       PROVE  DeliveredInv'
    BY <1>11 DEF ReadAgain
  <1>12. ASSUME NEW f \in Fetches, CloseBody(f)
       PROVE  DeliveredInv'
    BY <1>12 DEF CloseBody
  <1>13. ASSUME NEW f \in Fetches, EndRefresh(f)
       PROVE  DeliveredInv'
    BY <1>13 DEF EndRefresh
  <1>14. ASSUME NEW f \in Fetches, NEW k \in Keys, Miss(f, k) \/ MissDrop(f,
     k)
       PROVE  DeliveredInv'
    BY <1>14 DEF Miss, StartFetch, MissDrop
  <1>15. ASSUME NEW r \in Readers, NEW k \in Keys, Serve(r, k)
       PROVE  DeliveredInv'
    BY <1>15 DEF Serve, ServeFrom, Answer
  <1>16. ASSUME NEW r \in Readers, NEW k \in Keys, NEW f \in Fetches,
     ServeAndRefresh(r, k, f)
       PROVE  DeliveredInv'
    BY <1>16 DEF ServeAndRefresh, StartFetch, ServeFrom, Answer
  <1>17. ASSUME NEW r \in Readers, CloseResponse(r)
       PROVE  DeliveredInv'
    BY <1>17 DEF CloseResponse
  <1>18. ASSUME Crash \/ Restart \/ ScanDone
       PROVE  DeliveredInv'
    <2>1. CASE Crash
      BY <2>1 DEF Crash
    <2>2. CASE Restart
      BY <2>2 DEF Restart
    <2>3. CASE ScanDone
      BY <2>3 DEF ScanDone
    <2> QED
      BY <1>18, <2>1, <2>2, <2>3
  <1>19. ASSUME NEW k \in Keys, Damage(k) \/ ScanDrop(k) \/ ScanIndex(k)
       PROVE  DeliveredInv'
    BY <1>19 DEF Damage, ScanDrop, ScanIndex, PushFront
  <1>20. ASSUME NEW f \in Fetches, NEW q \in {"stale", "expired"}, Age(f, q)
       PROVE  DeliveredInv'
    BY <1>20 DEF Age
  <1> HIDE DEF IInv, TypeOK, DeliveredInv, CaptureInv, AfterClose, Goto, At,
     dirVars, indexVars, countVars, fetchVars, envVars, callVars
  <1> QED
    <2>1. ASSUME NEW p \in Procs, LockedStep(p) PROVE DeliveredInv'
      BY <2>1, <1>1, <1>2, <1>3, <1>4 DEF LockedStep
    <2>2. ASSUME NEW f \in Fetches, FetchStep(f) PROVE DeliveredInv'
      BY <2>2, <1>5, <1>6, <1>7, <1>8, <1>9, <1>10, <1>11, <1>12, <1>13 DEF
         FetchStep
    <2>3. ASSUME NEW f \in Fetches, NEW k \in Keys, RequestStep(f, k) PROVE DeliveredInv'
      BY <2>3, <1>14 DEF RequestStep
    <2>4. ASSUME NEW r \in Readers, NEW k \in Keys, ServeStep(r, k) PROVE DeliveredInv'
      BY <2>4, <1>15, <1>16 DEF ServeStep
    <2>5. ASSUME ScanStep PROVE DeliveredInv'
      BY <2>5, <1>18, <1>19 DEF ScanStep
    <2> QED
      BY <2>1, <2>2, <2>3, <2>4, <2>5, <1>17, <1>18, <1>19, <1>20 DEF Next

\* The temporary file of a download holds what was counted as written.
LEMMA CaptureStep == ASSUME IInv, Next PROVE CaptureInv'
  <1> USE SizeAssumption, NameAssumption DEF IInv, TypeOK, CaptureInv,
     DeliveredInv, AfterClose, Goto, At, Procs, dirVars, indexVars, countVars,
     fetchVars, envVars, callVars
  <1>1. ASSUME NEW p \in Procs, EvictMeta(p) \/ EvictBody(p) \/ EvictDone(p)
       PROVE  CaptureInv'
    BY <1>1 DEF EvictMeta, EvictBody, Unindex, EvictDone, Unlock
  <1>2. ASSUME NEW f \in Fetches, DropBody(f) \/ CommitDropBody(f) \/
     PutBody(f) \/ PutBodyError(f) \/ PutMeta(f) \/ PutMetaError(f)
       PROVE  CaptureInv'
    <2>1. CASE DropBody(f)
      BY <2>1 DEF DropBody, Unindex, Unlock
    <2>2. CASE CommitDropBody(f)
      BY <2>2 DEF CommitDropBody, Unindex
    <2>3. CASE PutBody(f)
      BY <2>3 DEF PutBody
    <2>4. CASE PutBodyError(f)
      BY <2>4 DEF PutBodyError, Unlock
    <2>5. CASE PutMeta(f)
      BY <2>5 DEF PutMeta, PushFront
    <2>6. CASE PutMetaError(f)
      BY <2>6 DEF PutMetaError, Unlock
    <2> QED
      BY <1>2, <2>1, <2>2, <2>3, <2>4, <2>5, <2>6
  <1>3. ASSUME NEW f \in Fetches, NEW n \in Nat, Respond(f, n)
       PROVE  CaptureInv'
    BY <1>3 DEF Respond
  <1>4. ASSUME NEW f \in Fetches, Decline(f)
       PROVE  CaptureInv'
    BY <1>4 DEF Decline
  <1>5. ASSUME NEW f \in Fetches, NEW n \in Nat, Read(f, n)
       PROVE  CaptureInv'
    <2>1. /\ UNCHANGED <<temp, written, size, delivered>> /\ pc[f] = "open"
          /\ pc'[f] \in {"disabling", "over", "writing"}
          /\ \A e \in Fetches : e # f => pc'[e] = pc[e]
      BY <1>5 DEF Read
    <2> QED
      BY <2>1
  <1>6. ASSUME NEW f \in Fetches, Undo(f)
       PROVE  CaptureInv'
    BY <1>6 DEF Undo, GiveBack
  <1>7. ASSUME NEW f \in Fetches, Write(f)
       PROVE  CaptureInv'
    BY <1>7 DEF Write
  <1>8. ASSUME NEW f \in Fetches, WriteError(f)
       PROVE  CaptureInv'
    BY <1>8 DEF WriteError, GiveBack
  <1>9. ASSUME NEW f \in Fetches, Abort(f)
       PROVE  CaptureInv'
    BY <1>9 DEF Abort
  <1>10. ASSUME NEW f \in Fetches, Release(f)
       PROVE  CaptureInv'
    BY <1>10 DEF Release, NothingWritten
  <1>11. ASSUME NEW f \in Fetches, Unlink(f)
       PROVE  CaptureInv'
    BY <1>11 DEF Unlink
  <1>12. ASSUME NEW f \in Fetches, EndOfBody(f) \/ CommitDropMeta(f) \/
     Discard(f) \/ Settle(f) \/ ReadAgain(f) \/ CloseBody(f) \/ EndRefresh(f)
       PROVE  CaptureInv'
    BY <1>12 DEF EndOfBody, AtEOF, CommitDropMeta, Discard, Settle,
       NothingWritten, ReadAgain, CloseBody, EndRefresh
  <1>13. ASSUME NEW f \in Fetches, NEW k \in Keys, Miss(f, k) \/ MissDrop(f,
     k)
       PROVE  CaptureInv'
    BY <1>13 DEF Miss, StartFetch, MissDrop
  <1>14. ASSUME NEW r \in Readers, NEW k \in Keys, Serve(r, k)
       PROVE  CaptureInv'
    BY <1>14 DEF Serve, ServeFrom, Answer
  <1>15. ASSUME NEW r \in Readers, NEW k \in Keys, NEW f \in Fetches,
     ServeAndRefresh(r, k, f)
       PROVE  CaptureInv'
    BY <1>15 DEF ServeAndRefresh, StartFetch, ServeFrom, Answer
  <1>16. ASSUME NEW r \in Readers, CloseResponse(r)
       PROVE  CaptureInv'
    BY <1>16 DEF CloseResponse
  <1>17. ASSUME Crash
       PROVE  CaptureInv'
    BY <1>17 DEF Crash
  <1>18. ASSUME Restart
       PROVE  CaptureInv'
    BY <1>18 DEF Restart, DownInv, Running, Idle
  <1>19. ASSUME ScanDone
       PROVE  CaptureInv'
    BY <1>19 DEF ScanDone
  <1>20. ASSUME NEW k \in Keys, Damage(k) \/ ScanDrop(k) \/ ScanIndex(k)
       PROVE  CaptureInv'
    BY <1>20 DEF Damage, ScanDrop, ScanIndex, PushFront
  <1>21. ASSUME NEW f \in Fetches, NEW q \in {"stale", "expired"}, Age(f, q)
       PROVE  CaptureInv'
    BY <1>21 DEF Age
  <1> HIDE DEF IInv, TypeOK, CaptureInv, DeliveredInv, AfterClose, Goto, At,
     dirVars, indexVars, countVars, fetchVars, envVars, callVars
  <1> QED
    <2>1. ASSUME NEW p \in Procs, LockedStep(p) PROVE CaptureInv'
      BY <2>1, <1>1, <1>2 DEF LockedStep
    <2>2. ASSUME NEW f \in Fetches, FetchStep(f) PROVE CaptureInv'
      BY <2>2, <1>3, <1>4, <1>5, <1>6, <1>7, <1>8, <1>9, <1>10, <1>11, <1>12
         DEF FetchStep
    <2>3. ASSUME NEW f \in Fetches, NEW k \in Keys, RequestStep(f, k) PROVE CaptureInv'
      BY <2>3, <1>13 DEF RequestStep
    <2>4. ASSUME NEW r \in Readers, NEW k \in Keys, ServeStep(r, k) PROVE CaptureInv'
      BY <2>4, <1>14, <1>15 DEF ServeStep
    <2>5. ASSUME ScanStep PROVE CaptureInv'
      BY <2>5, <1>19, <1>20 DEF ScanStep
    <2> QED
      BY <2>1, <2>2, <2>3, <2>4, <2>5, <1>16, <1>17, <1>18, <1>20, <1>21 DEF
         Next

LEMMA StepFrame ==
    ASSUME StepInv, UNCHANGED <<meta, body, order, key, size>>,
           \A p \in Procs :
              pc'[p] = pc[p] \/ pc'[p] \in {"disabling", "over", "writing"}
    PROVE  StepInv'
  BY DEF StepInv, Procs

\* While a process works on the files of a key nobody else changes them.
LEMMA StepStep == ASSUME IInv, Next PROVE StepInv'
  <1> USE SizeAssumption, NameAssumption DEF IInv, TypeOK, StepInv, MutexInv,
     Holding, DownInv, Running, Idle, KeyInv, CaptureInv, FilesInv, Together,
     Whole, AfterClose, Goto, At, Procs, dirVars, indexVars, countVars,
     fetchVars, envVars, callVars
  <1>1. ASSUME NEW p \in Procs, EvictMeta(p)
       PROVE  StepInv'
    BY <1>1, LastType DEF EvictMeta
  <1>2. ASSUME NEW p \in Procs, EvictBody(p)
       PROVE  StepInv'
    BY <1>2 DEF EvictBody, Unindex
  <1>3. ASSUME NEW p \in Procs, EvictDone(p)
       PROVE  StepInv'
    BY <1>3 DEF EvictDone, Unlock
  <1>4. ASSUME NEW f \in Fetches, DropBody(f)
       PROVE  StepInv'
    BY <1>4 DEF DropBody, Unindex, Unlock
  <1>5. ASSUME NEW f \in Fetches, CommitDropBody(f)
       PROVE  StepInv'
    BY <1>5 DEF CommitDropBody, Unindex
  <1>6. ASSUME NEW f \in Fetches, PutBody(f)
       PROVE  StepInv'
    BY <1>6 DEF PutBody
  <1>7. ASSUME NEW f \in Fetches, PutBodyError(f)
       PROVE  StepInv'
    BY <1>7 DEF PutBodyError, Unlock
  <1>8. ASSUME NEW f \in Fetches, PutMeta(f)
       PROVE  StepInv'
    BY <1>8 DEF PutMeta, PushFront
  <1>9. ASSUME NEW f \in Fetches, PutMetaError(f)
       PROVE  StepInv'
    BY <1>9 DEF PutMetaError, Unlock
  <1>10. ASSUME NEW f \in Fetches, NEW n \in Nat, Respond(f, n)
       PROVE  StepInv'
    BY <1>10 DEF Respond
  <1>11. ASSUME NEW f \in Fetches, Decline(f)
       PROVE  StepInv'
    BY <1>11 DEF Decline
  <1>12. ASSUME NEW f \in Fetches, NEW n \in Nat, Read(f, n)
       PROVE  StepInv'
    <2>1. UNCHANGED <<meta, body, order, key, size>>
      BY <1>12 DEF Read
    <2>2. \A p \in Procs :
             pc'[p] = pc[p] \/ pc'[p] \in {"disabling", "over", "writing"}
      BY <1>12 DEF Read
    <2> QED
      BY <2>1, <2>2, StepFrame
  <1>13. ASSUME NEW f \in Fetches, Undo(f)
       PROVE  StepInv'
    BY <1>13 DEF Undo, GiveBack
  <1>14. ASSUME NEW f \in Fetches, Write(f)
       PROVE  StepInv'
    BY <1>14 DEF Write
  <1>15. ASSUME NEW f \in Fetches, WriteError(f)
       PROVE  StepInv'
    BY <1>15 DEF WriteError, GiveBack
  <1>16. ASSUME NEW f \in Fetches, Abort(f)
       PROVE  StepInv'
    BY <1>16 DEF Abort
  <1>17. ASSUME NEW f \in Fetches, Release(f)
       PROVE  StepInv'
    BY <1>17 DEF Release, NothingWritten
  <1>18. ASSUME NEW f \in Fetches, Unlink(f)
       PROVE  StepInv'
    BY <1>18 DEF Unlink
  <1>19. ASSUME NEW f \in Fetches, EndOfBody(f)
       PROVE  StepInv'
    BY <1>19 DEF EndOfBody, AtEOF
  <1>20. ASSUME NEW f \in Fetches, CommitDropMeta(f)
       PROVE  StepInv'
    BY <1>20 DEF CommitDropMeta
  <1>21. ASSUME NEW f \in Fetches, Discard(f)
       PROVE  StepInv'
    BY <1>21 DEF Discard
  <1>22. ASSUME NEW f \in Fetches, Settle(f)
       PROVE  StepInv'
    BY <1>22 DEF Settle, NothingWritten
  <1>23. ASSUME NEW f \in Fetches, ReadAgain(f)
       PROVE  StepInv'
    BY <1>23 DEF ReadAgain
  <1>24. ASSUME NEW f \in Fetches, CloseBody(f)
       PROVE  StepInv'
    BY <1>24 DEF CloseBody
  <1>25. ASSUME NEW f \in Fetches, EndRefresh(f)
       PROVE  StepInv'
    BY <1>25 DEF EndRefresh
  <1>26. ASSUME NEW f \in Fetches, NEW k \in Keys, Miss(f, k)
       PROVE  StepInv'
    BY <1>26 DEF Miss, StartFetch
  <1>27. ASSUME NEW f \in Fetches, NEW k \in Keys, MissDrop(f, k)
       PROVE  StepInv'
    BY <1>27 DEF MissDrop, StartFetch
  <1>28. ASSUME NEW r \in Readers, NEW k \in Keys, Serve(r, k)
       PROVE  StepInv'
    BY <1>28 DEF Serve, ServeFrom, Answer
  <1>29. ASSUME NEW r \in Readers, NEW k \in Keys, NEW f \in Fetches,
     ServeAndRefresh(r, k, f)
       PROVE  StepInv'
    BY <1>29 DEF ServeAndRefresh, StartFetch, ServeFrom, Answer
  <1>30. ASSUME NEW r \in Readers, CloseResponse(r)
       PROVE  StepInv'
    BY <1>30 DEF CloseResponse
  <1>31. ASSUME Crash
       PROVE  StepInv'
    BY <1>31 DEF Crash
  <1>32. ASSUME Restart
       PROVE  StepInv'
    BY <1>32 DEF Restart
  <1>33. ASSUME ScanDone
       PROVE  StepInv'
    BY <1>33 DEF ScanDone
  <1>34. ASSUME NEW k \in Keys, Damage(k) \/ ScanDrop(k) \/ ScanIndex(k)
       PROVE  StepInv'
    BY <1>34 DEF Damage, ScanDrop, ScanIndex, PushFront
  <1>35. ASSUME NEW f \in Fetches, NEW q \in {"stale", "expired"}, Age(f, q)
       PROVE  StepInv'
    BY <1>35 DEF Age
  <1> HIDE DEF IInv, TypeOK, StepInv, MutexInv, Holding, DownInv, Running,
     Idle, KeyInv, CaptureInv, FilesInv, Together, Whole, AfterClose, Goto,
     At, dirVars, indexVars, countVars, fetchVars, envVars, callVars
  <1> QED
    <2>1. ASSUME NEW p \in Procs, LockedStep(p) PROVE StepInv'
      BY <2>1, <1>1, <1>2, <1>3, <1>4, <1>5, <1>6, <1>7, <1>8, <1>9 DEF
         LockedStep
    <2>2. ASSUME NEW f \in Fetches, FetchStep(f) PROVE StepInv'
      BY <2>2, <1>10, <1>11, <1>12, <1>13, <1>14, <1>15, <1>16, <1>17, <1>18,
         <1>19, <1>20, <1>21, <1>22, <1>23, <1>24, <1>25 DEF FetchStep
    <2>3. ASSUME NEW f \in Fetches, NEW k \in Keys, RequestStep(f, k) PROVE StepInv'
      BY <2>3, <1>26, <1>27 DEF RequestStep
    <2>4. ASSUME NEW r \in Readers, NEW k \in Keys, ServeStep(r, k) PROVE StepInv'
      BY <2>4, <1>28, <1>29 DEF ServeStep
    <2>5. ASSUME ScanStep PROVE StepInv'
      BY <2>5, <1>33, <1>34 DEF ScanStep
    <2> QED
      BY <2>1, <2>2, <2>3, <2>4, <2>5, <1>30, <1>31, <1>32, <1>34, <1>35 DEF
         Next

\* The order of removals and renames keeps the two files of a key together.
LEMMA FilesStep == ASSUME IInv, Next PROVE FilesInv'
  <1> USE SizeAssumption, NameAssumption DEF IInv, TypeOK, FilesInv, Together,
     StepInv, KeyInv, CaptureInv, Goto, At, Procs, dirVars, indexVars,
     countVars, fetchVars, envVars, callVars
  <1>1. ASSUME NEW p \in Procs, EvictMeta(p)
       PROVE  FilesInv'
    BY <1>1 DEF EvictMeta
  <1>2. ASSUME NEW p \in Procs, EvictBody(p)
       PROVE  FilesInv'
    <2>1. meta[Last(order)] = None
      BY <1>2 DEF EvictBody
    <2>2. /\ \A k \in Keys : k # Last(order) => body'[k] = body[k]
          /\ UNCHANGED <<meta, key, size, delivered>>
      BY <1>2 DEF EvictBody, Unindex
    <2>3. \A k \in Keys : meta[k] # None => k # Last(order) /\ Together(k)
      BY <2>1
    <2> QED
      BY <2>2, <2>3
  <1>3. ASSUME NEW p \in Procs, EvictDone(p)
       PROVE  FilesInv'
    BY <1>3 DEF EvictDone, Unlock
  <1>4. ASSUME NEW f \in Fetches, DropBody(f)
       PROVE  FilesInv'
    <2>1. key[f] \in Keys /\ meta[key[f]] = None
      BY <1>4 DEF DropBody
    <2>2. \A x \in Keys : meta'[x] # None => meta'[x] = meta[x] /\ body'[x] = body[x]
      BY <1>4, <2>1 DEF DropBody
    <2>3. UNCHANGED <<key, size, delivered>>
      BY <1>4 DEF DropBody
    <2> QED
      BY <2>2, <2>3
  <1>5. ASSUME NEW f \in Fetches, CommitDropBody(f)
       PROVE  FilesInv'
    <2>1. key[f] \in Keys /\ meta[key[f]] = None
      BY <1>5 DEF CommitDropBody
    <2>2. \A x \in Keys : meta'[x] # None => meta'[x] = meta[x] /\ body'[x] = body[x]
      BY <1>5, <2>1 DEF CommitDropBody
    <2>3. UNCHANGED <<key, size, delivered>>
      BY <1>5 DEF CommitDropBody
    <2> QED
      BY <2>2, <2>3
  <1>6. ASSUME NEW f \in Fetches, PutBody(f)
       PROVE  FilesInv'
    BY <1>6 DEF PutBody
  <1>7. ASSUME NEW f \in Fetches, PutBodyError(f)
       PROVE  FilesInv'
    BY <1>7 DEF PutBodyError, Unlock
  <1>8. ASSUME NEW f \in Fetches, PutMeta(f)
       PROVE  FilesInv'
    <2>1. key[f] \in Keys
      BY <1>8 DEF PutMeta
    <2>2. body[key[f]] = [ver |-> f, len |-> size[f]]
      BY <1>8 DEF PutMeta
    <2>3. [ver |-> f, len |-> size[f]] \in BodyFile
      BY DEF BodyFile
    <2>4. body[key[f]] # None /\ body[key[f]].ver = f
      BY <2>2, <2>3
    <2>5. f \in delivered /\ written[f] = size[f]
      BY <1>8 DEF PutMeta
    <2>6. meta' = [meta EXCEPT ![key[f]] =
                      [ver |-> f, size |-> written[f], readable |-> TRUE]]
      BY <1>8 DEF PutMeta
    <2>7. UNCHANGED <<body, key, size, delivered>>
      BY <1>8 DEF PutMeta
    <2>8. meta'[key[f]].ver = f /\ meta'[key[f]].size = size[f]
      BY <2>1, <2>5, <2>6
    <2>9. \A x \in Keys : x # key[f] => meta'[x] = meta[x]
      BY <2>6
    <2>10. \A x \in Keys : x = key[f] => Together(x)'
      BY <2>4, <2>5, <2>7, <2>8
    <2>11. \A x \in Keys : x # key[f] /\ meta'[x] # None => Together(x)'
      BY <2>7, <2>9
    <2> HIDE DEF Together
    <2> QED
      BY <2>10, <2>11
  <1>9. ASSUME NEW f \in Fetches, PutMetaError(f)
       PROVE  FilesInv'
    <2>1. key[f] \in Keys /\ meta[key[f]] = None
      BY <1>9 DEF PutMetaError
    <2>2. \A x \in Keys : meta'[x] # None => meta'[x] = meta[x] /\ body'[x] = body[x]
      BY <1>9, <2>1 DEF PutMetaError
    <2>3. UNCHANGED <<key, size, delivered>>
      BY <1>9 DEF PutMetaError
    <2> QED
      BY <2>2, <2>3
  <1>10. ASSUME NEW f \in Fetches, Decline(f) \/ Undo(f) \/ Write(f) \/
     WriteError(f) \/ Abort(f) \/ Release(f) \/ Unlink(f)
       PROVE  FilesInv'
    BY <1>10 DEF Decline, AfterClose, Undo, GiveBack, Write, WriteError,
       Abort, Release, NothingWritten, Unlink
  <1>11. ASSUME NEW f \in Fetches, NEW n \in Nat, Read(f, n)
       PROVE  FilesInv'
    BY <1>11 DEF Read
  <1>12. ASSUME NEW f \in Fetches, NEW n \in Nat, Respond(f, n)
       PROVE  FilesInv'
    <2>1. f \notin delivered
      BY <1>12 DEF Respond, DeliveredInv
    <2>2. UNCHANGED <<meta, body, key, delivered>>
      BY <1>12 DEF Respond
    <2>3. \A g \in delivered : size'[g] = size[g]
      BY <1>12, <2>1 DEF Respond
    <2> QED
      BY <2>2, <2>3
  <1>13. ASSUME NEW f \in Fetches, EndOfBody(f) \/ CommitDropMeta(f) \/
     Discard(f) \/ Settle(f) \/ ReadAgain(f) \/ CloseBody(f) \/ EndRefresh(f)
       PROVE  FilesInv'
    BY <1>13 DEF EndOfBody, AtEOF, CommitDropMeta, Discard, Settle,
       NothingWritten, ReadAgain, CloseBody, AfterClose, EndRefresh
  <1>14. ASSUME NEW f \in Fetches, NEW k \in Keys, Miss(f, k)
       PROVE  FilesInv'
    <2>1. f \notin delivered
      BY <1>14 DEF Miss, StartFetch, DeliveredInv
    <2>2. \A g \in delivered : key'[g] = key[g]
      BY <1>14, <2>1 DEF Miss, StartFetch
    <2>3. UNCHANGED <<body, size, delivered>>
      BY <1>14 DEF Miss
    <2>4. \A x \in Keys : meta'[x] # None => meta'[x] = meta[x]
      BY <1>14 DEF Miss
    <2> QED
      BY <2>2, <2>3, <2>4
  <1>15. ASSUME NEW f \in Fetches, NEW k \in Keys, MissDrop(f, k)
       PROVE  FilesInv'
    <2>1. f \notin delivered
      BY <1>15 DEF MissDrop, StartFetch, DeliveredInv
    <2>2. \A g \in delivered : key'[g] = key[g]
      BY <1>15, <2>1 DEF MissDrop, StartFetch
    <2>3. UNCHANGED <<body, size, delivered>>
      BY <1>15 DEF MissDrop
    <2>4. \A x \in Keys : meta'[x] # None => meta'[x] = meta[x]
      BY <1>15 DEF MissDrop
    <2> QED
      BY <2>2, <2>3, <2>4
  <1>16. ASSUME NEW r \in Readers, NEW k \in Keys, Serve(r, k)
       PROVE  FilesInv'
    BY <1>16 DEF Serve, ServeFrom, Answer
  <1>17. ASSUME NEW r \in Readers, NEW k \in Keys, NEW f \in Fetches,
     ServeAndRefresh(r, k, f)
       PROVE  FilesInv'
    <2>1. f \notin delivered
      BY <1>17 DEF ServeAndRefresh, StartFetch, DeliveredInv
    <2>2. \A g \in delivered : key'[g] = key[g]
      BY <1>17, <2>1 DEF ServeAndRefresh, StartFetch
    <2>3. UNCHANGED <<meta, body, size, delivered>>
      BY <1>17 DEF ServeAndRefresh, ServeFrom
    <2> QED
      BY <2>2, <2>3
  <1>18. ASSUME NEW r \in Readers, CloseResponse(r)
       PROVE  FilesInv'
    BY <1>18 DEF CloseResponse
  <1>19. ASSUME Crash \/ Restart \/ ScanDone
       PROVE  FilesInv'
    BY <1>19 DEF Crash, Restart, ScanDone
  <1>20. ASSUME NEW k \in Keys, Damage(k)
       PROVE  FilesInv'
    <2>1. UNCHANGED <<key, size, delivered>>
      BY <1>20 DEF Damage
    <2>2. CASE meta[k] # None /\ meta' = [meta EXCEPT ![k].readable = FALSE] /\ UNCHANGED body
      <3>1. meta[k] \in MetaFile
        BY <2>2 DEF MetaFile
      <3>2. meta'[k].ver = meta[k].ver /\ meta'[k].size = meta[k].size
        BY <2>2, <3>1 DEF MetaFile
      <3>3. \A x \in Keys : x # k => meta'[x] = meta[x]
        BY <2>2
      <3>4. \A x \in Keys :
               /\ meta'[x].ver = meta[x].ver /\ meta'[x].size = meta[x].size
               /\ meta'[x] # None => meta[x] # None
        BY <2>2, <3>2, <3>3
      <3> QED
        BY <2>1, <2>2, <3>4
    <2>3. CASE /\ body[k] # None /\ body[k].len > 0
               /\ body' = [body EXCEPT ![k].len = @ - 1] /\ UNCHANGED meta
      <3>1. body[k] \in BodyFile
        BY <2>3 DEF BodyFile
      <3>2. body'[k] = [body[k] EXCEPT !.len = @ - 1]
        BY <2>3
      <3>5. body'[k] \in BodyFile /\ body'[k].ver = body[k].ver
        BY <2>3, <3>1, <3>2, Shorter
      <3>3. \A x \in Keys : x # k => body'[x] = body[x]
        BY <2>3
      <3>6. body'[k] # None
        BY <3>5
      <3>7. \A x \in Keys : body[x] # None => body'[x] # None /\ body'[x].ver = body[x].ver
        BY <3>3, <3>5, <3>6
      <3> QED
        BY <2>1, <2>3, <3>7
    <2> QED
      BY <1>20, <2>2, <2>3 DEF Damage
  <1>21. ASSUME NEW k \in Keys, ScanDrop(k)
       PROVE  FilesInv'
    BY <1>21 DEF ScanDrop
  <1>22. ASSUME NEW k \in Keys, ScanIndex(k)
       PROVE  FilesInv'
    BY <1>22 DEF ScanIndex, PushFront
  <1>23. ASSUME NEW f \in Fetches, NEW q \in {"stale", "expired"}, Age(f, q)
       PROVE  FilesInv'
    BY <1>23 DEF Age
  <1> HIDE DEF IInv, TypeOK, FilesInv, Together, StepInv, KeyInv, CaptureInv,
     Goto, At, dirVars, indexVars, countVars, fetchVars, envVars, callVars
  <1> QED
    <2>1. ASSUME NEW p \in Procs, LockedStep(p) PROVE FilesInv'
      BY <2>1, <1>1, <1>2, <1>3, <1>4, <1>5, <1>6, <1>7, <1>8, <1>9 DEF
         LockedStep
    <2>2. ASSUME NEW f \in Fetches, FetchStep(f) PROVE FilesInv'
      BY <2>2, <1>10, <1>11, <1>12, <1>13 DEF FetchStep
    <2>3. ASSUME NEW f \in Fetches, NEW k \in Keys, RequestStep(f, k) PROVE FilesInv'
      BY <2>3, <1>14, <1>15 DEF RequestStep
    <2>4. ASSUME NEW r \in Readers, NEW k \in Keys, ServeStep(r, k) PROVE FilesInv'
      BY <2>4, <1>16, <1>17 DEF ServeStep
    <2>5. ASSUME ScanStep PROVE FilesInv'
      BY <2>5, <1>19, <1>21, <1>22 DEF ScanStep
    <2> QED
      BY <2>1, <2>2, <2>3, <2>4, <2>5, <1>18, <1>19, <1>20, <1>23 DEF Next

\* An answer is taken from files that belong together, and stays what it was.
LEMMA ServedStep == ASSUME IInv, Next PROVE ServedWhole'
  <1> USE SizeAssumption, NameAssumption DEF IInv, TypeOK, ServedWhole, Goto,
     At, Procs, dirVars, indexVars, countVars, fetchVars, envVars, callVars
  <1>1. ASSUME NEW p \in Procs, EvictMeta(p) \/ EvictBody(p) \/ EvictDone(p)
       PROVE  ServedWhole'
    BY <1>1 DEF EvictMeta, EvictBody, Unindex, EvictDone, Unlock
  <1>2. ASSUME NEW f \in Fetches, DropBody(f) \/ CommitDropBody(f) \/
     PutBody(f) \/ PutBodyError(f) \/ PutMeta(f) \/ PutMetaError(f)
       PROVE  ServedWhole'
    BY <1>2 DEF DropBody, Unindex, Unlock, CommitDropBody, PutBody,
       PutBodyError, PutMeta, PushFront, PutMetaError
  <1>3. ASSUME NEW f \in Fetches, Decline(f) \/ Undo(f) \/ Write(f) \/
     WriteError(f) \/ Abort(f) \/ Release(f) \/ Unlink(f)
       PROVE  ServedWhole'
    BY <1>3 DEF Decline, AfterClose, Undo, GiveBack, Write, WriteError, Abort,
       Release, NothingWritten, Unlink
  <1>4. ASSUME NEW f \in Fetches, NEW n \in Nat, Read(f, n)
       PROVE  ServedWhole'
    BY <1>4 DEF Read
  <1>5. ASSUME NEW f \in Fetches, NEW n \in Nat, Respond(f, n)
       PROVE  ServedWhole'
    <2>1. f \notin delivered
      BY <1>5 DEF Respond, DeliveredInv
    <2>2. UNCHANGED <<resp, key, delivered>>
      BY <1>5 DEF Respond
    <2>3. \A g \in delivered : size'[g] = size[g]
      BY <1>5, <2>1 DEF Respond
    <2> QED
      BY <2>2, <2>3
  <1>6. ASSUME NEW f \in Fetches, EndOfBody(f) \/ CommitDropMeta(f) \/
     Discard(f) \/ Settle(f) \/ ReadAgain(f) \/ CloseBody(f) \/ EndRefresh(f)
       PROVE  ServedWhole'
    BY <1>6 DEF EndOfBody, AtEOF, CommitDropMeta, Discard, Settle,
       NothingWritten, ReadAgain, CloseBody, AfterClose, EndRefresh
  <1>7. ASSUME NEW f \in Fetches, NEW k \in Keys, Miss(f, k)
       PROVE  ServedWhole'
    <2>1. f \notin delivered
      BY <1>7 DEF Miss, StartFetch, DeliveredInv
    <2>2. \A g \in delivered : key'[g] = key[g]
      BY <1>7, <2>1 DEF Miss, StartFetch
    <2>3. UNCHANGED <<resp, size, delivered>>
      BY <1>7 DEF Miss
    <2> QED
      BY <2>2, <2>3
  <1>8. ASSUME NEW f \in Fetches, NEW k \in Keys, MissDrop(f, k)
       PROVE  ServedWhole'
    <2>1. f \notin delivered
      BY <1>8 DEF MissDrop, StartFetch, DeliveredInv
    <2>2. \A g \in delivered : key'[g] = key[g]
      BY <1>8, <2>1 DEF MissDrop, StartFetch
    <2>3. UNCHANGED <<resp, size, delivered>>
      BY <1>8 DEF MissDrop
    <2> QED
      BY <2>2, <2>3
  <1>9. ASSUME NEW r \in Readers, CloseResponse(r)
       PROVE  ServedWhole'
    BY <1>9 DEF CloseResponse
  <1>10. ASSUME NEW r \in Readers, NEW k \in Keys, Serve(r, k)
       PROVE  ServedWhole'
    <2>1. Answer(k).body = [ver |-> meta[k].ver, len |-> size[meta[k].ver]]
      BY <1>10 DEF Serve, ServeFrom, Answer, Usable, Intact, FilesInv, Together, BodyFile
    <2>2. meta[k].ver \in delivered /\ key[meta[k].ver] = k
      BY <1>10 DEF Serve, ServeFrom, Usable, Intact, FilesInv, Together
    <2>3. resp' = [resp EXCEPT ![r] = Answer(k)]
      BY <1>10 DEF Serve, ServeFrom
    <2>4. UNCHANGED <<size, delivered, key>>
      BY <1>10 DEF Serve, ServeFrom
    <2> QED
      BY <2>1, <2>2, <2>3, <2>4 DEF Answer
  <1>11. ASSUME NEW r \in Readers, NEW k \in Keys, NEW f \in Fetches,
     ServeAndRefresh(r, k, f)
       PROVE  ServedWhole'
    <2>1. Answer(k).body = [ver |-> meta[k].ver, len |-> size[meta[k].ver]]
      BY <1>11 DEF ServeAndRefresh, ServeFrom, Answer, Usable, Intact, FilesInv, Together, BodyFile
    <2>2. meta[k].ver \in delivered /\ key[meta[k].ver] = k
      BY <1>11 DEF ServeAndRefresh, ServeFrom, Usable, Intact, FilesInv, Together
    <2>3. resp' = [resp EXCEPT ![r] = Answer(k)]
      BY <1>11 DEF ServeAndRefresh, ServeFrom
    <2>4. f \notin delivered
      BY <1>11 DEF ServeAndRefresh, StartFetch, DeliveredInv
    <2>5. \A g \in delivered : key'[g] = key[g]
      BY <1>11, <2>4 DEF ServeAndRefresh, StartFetch
    <2>6. UNCHANGED <<size, delivered>>
      BY <1>11 DEF ServeAndRefresh, ServeFrom
    <2> QED
      BY <2>1, <2>2, <2>3, <2>5, <2>6 DEF Answer
  <1>12. ASSUME Crash \/ Restart \/ ScanDone
       PROVE  ServedWhole'
    BY <1>12 DEF Crash, Restart, ScanDone
  <1>13. ASSUME NEW k \in Keys, Damage(k) \/ ScanDrop(k) \/ ScanIndex(k)
       PROVE  ServedWhole'
    BY <1>13 DEF Damage, ScanDrop, ScanIndex, PushFront
  <1>14. ASSUME NEW f \in Fetches, NEW q \in {"stale", "expired"}, Age(f, q)
       PROVE  ServedWhole'
    BY <1>14 DEF Age
  <1> HIDE DEF IInv, TypeOK, ServedWhole, Goto, At, dirVars, indexVars,
     countVars, fetchVars, envVars, callVars
  <1> QED
    <2>1. ASSUME NEW p \in Procs, LockedStep(p) PROVE ServedWhole'
      BY <2>1, <1>1, <1>2 DEF LockedStep
    <2>2. ASSUME NEW f \in Fetches, FetchStep(f) PROVE ServedWhole'
      BY <2>2, <1>3, <1>4, <1>5, <1>6 DEF FetchStep
    <2>3. ASSUME NEW f \in Fetches, NEW k \in Keys, RequestStep(f, k) PROVE ServedWhole'
      BY <2>3, <1>7, <1>8 DEF RequestStep
    <2>4. ASSUME NEW r \in Readers, NEW k \in Keys, ServeStep(r, k) PROVE ServedWhole'
      BY <2>4, <1>10, <1>11 DEF ServeStep
    <2>5. ASSUME ScanStep PROVE ServedWhole'
      BY <2>5, <1>12, <1>13 DEF ScanStep
    <2> QED
      BY <2>1, <2>2, <2>3, <2>4, <2>5, <1>9, <1>12, <1>13, <1>14 DEF Next

LEMMA Stutter == ASSUME IInv, UNCHANGED vars PROVE IInv'
  BY DEF IInv, TypeOK, MutexInv, DownInv, KeyInv, DeliveredInv, CaptureInv,
     StepInv, FilesInv, Together, ServedWhole, Running, vars, dirVars, indexVars,
     countVars, fetchVars, envVars, callVars

LEMMA InitInv == ASSUME Init PROVE IInv
  <1>1. TypeOK
    BY NameAssumption DEF Init, TypeOK, Procs, PCs, Idle, Capturing
  <1>2. MutexInv /\ DownInv /\ KeyInv /\ DeliveredInv
    BY NameAssumption DEF Init, MutexInv, DownInv, KeyInv, DeliveredInv,
       Running, Procs, Holding
  <1>3. CaptureInv /\ StepInv /\ FilesInv /\ ServedWhole
    BY NameAssumption DEF Init, CaptureInv, StepInv, FilesInv, ServedWhole,
       Procs
  <1> QED
    BY <1>1, <1>2, <1>3 DEF IInv

-----------------------------------------------------------------------------
\* IInv holds in every reachable state, for every set of keys, fetches and
\* readers and every limit.
THEOREM Invariance == Spec => []IInv
  <1>1. IInv /\ [Next]_vars => IInv'
    <2>1. ASSUME IInv, Next PROVE IInv'
      BY <2>1, TypeStep, MutexStep, DownStep, KeyStep, DeliveredStep,
         CaptureStep, StepStep, FilesStep, ServedStep DEF IInv
    <2> QED
      BY <2>1, Stutter
  <1> QED
    BY InitInv, <1>1, PTL DEF Spec

\* Every variable of the store keeps its sort.
THEOREM TypeCorrect == Spec => []TypeOK
  BY Invariance, PTL DEF IInv

\* The mutex of the store excludes: two processes are never both between its
\* acquisition and its release.
MutualExclusion ==
    \A p, q \in Procs : pc[p] \in Holding /\ pc[q] \in Holding => p = q

THEOREM MutexCorrect == Spec => []MutualExclusion
  <1>1. IInv => MutualExclusion
    BY DEF IInv, MutexInv, MutualExclusion
  <1> QED
    BY <1>1, Invariance, PTL

\* The metadata and the body of a key come from the same fetch at every
\* instant, also between the file operations of a commit or of an eviction.
THEOREM PairCorrect == Spec => []PairIntact
  <1>1. IInv => PairIntact
    BY DEF IInv, FilesInv, Together, PairIntact
  <1> QED
    BY <1>1, Invariance, PTL

\* load serves one whole response of the origin for the key that was asked,
\* whatever crashes, evictions and replacements happened before.
THEOREM ServedCorrect == Spec => []ServedWhole
  BY Invariance, PTL DEF IInv

-----------------------------------------------------------------------------
(***************************************************************************)
(* Sums.  SumFunctionOnSet is a fold, which is a recursive function on the  *)
(* subsets of a set.  That it has a value, and that the order in which the  *)
(* elements are chosen does not matter, is shown with a minimal             *)
(* counterexample: the subsets of a finite set are well-founded.            *)
(***************************************************************************)
Pick(s) == CHOOSE x \in s : TRUE

IsIter(g, S, it) ==
    it = [s \in SUBSET S |->
             IF s = {} THEN 0
             ELSE LET x == CHOOSE x \in s : TRUE IN g[x] + it[s \ {x}]]

IterOf(g, S) == CHOOSE it : IsIter(g, S, it)

LEMMA MinimalSubset ==
    ASSUME NEW S, IsFiniteSet(S), NEW B \in SUBSET SUBSET S, B # {}
    PROVE  \E T \in B : \A U \in B : U \subseteq T => U = T
  <1>1. FiniteSubsetsOf(S) = SUBSET S
    BY FS_FiniteSubsetsOfFinite
  <1>2. IsWellFoundedOn(StrictSubsetOrdering(S), SUBSET S)
    BY <1>1, FS_StrictSubsetOrderingWellFounded
  <1>3. \E T \in B : \A U \in B : ~(<<U, T>> \in StrictSubsetOrdering(S))
    BY <1>2, WFMin
  <1> QED
    BY <1>3 DEF StrictSubsetOrdering

LEMMA PickIn == ASSUME NEW s, s # {} PROVE Pick(s) \in s
  BY DEF Pick

LEMMA IterValues ==
    ASSUME NEW g, NEW S, NEW it, IsIter(g, S, it)
    PROVE  /\ it[{}] = 0
           /\ \A s \in SUBSET S : s # {} => it[s] = g[Pick(s)] + it[s \ {Pick(s)}]
  <1>1. it = [s \in SUBSET S |-> IF s = {} THEN 0 ELSE g[Pick(s)] + it[s \ {Pick(s)}]]
    BY DEF IsIter, Pick
  <1>2. \A s \in SUBSET S :
           it[s] = IF s = {} THEN 0 ELSE g[Pick(s)] + it[s \ {Pick(s)}]
    BY <1>1
  <1> QED
    BY <1>2

LEMMA IterUnique ==
    ASSUME NEW g, NEW S, IsFiniteSet(S), NEW i, NEW j, IsIter(g, S, i), IsIter(g, S, j)
    PROVE  i = j
  <1> DEFINE B == {s \in SUBSET S : i[s] # j[s]}
  <1>1. CASE B = {}
    <2>1. \A s \in SUBSET S : i[s] = j[s]
      BY <1>1
    <2>2. i = [s \in SUBSET S |-> i[s]] /\ j = [s \in SUBSET S |-> j[s]]
      BY DEF IsIter
    <2> QED
      BY <2>1, <2>2
  <1>2. CASE B # {}
    <2>1. PICK T \in B : \A U \in B : U \subseteq T => U = T
      <3>1. B \in SUBSET SUBSET S
        OBVIOUS
      <3> HIDE DEF B
      <3> QED
        BY <1>2, <3>1, MinimalSubset
    <2>2. T \in SUBSET S /\ i[T] # j[T]
      BY <2>1
    <2>3. T # {}
      BY <2>2, IterValues
    <2>4. Pick(T) \in T /\ T \ {Pick(T)} \in SUBSET S
      BY <2>2, <2>3, PickIn
    <2>5. i[T \ {Pick(T)}] = j[T \ {Pick(T)}]
      BY <2>1, <2>4
    <2>6. /\ i[T] = g[Pick(T)] + i[T \ {Pick(T)}]
          /\ j[T] = g[Pick(T)] + j[T \ {Pick(T)}]
      BY <2>2, <2>3, IterValues
    <2> QED
      BY <2>2, <2>5, <2>6
  <1> QED
    BY <1>1, <1>2

LEMMA IterRestrict ==
    ASSUME NEW g, NEW S, NEW it, IsIter(g, S, it), NEW R \in SUBSET S
    PROVE  IsIter(g, R, [s \in SUBSET R |-> it[s]])
  <1> DEFINE h == [s \in SUBSET R |-> it[s]]
  <1>1. ASSUME NEW s \in SUBSET R, s # {}
        PROVE  h[s] = g[Pick(s)] + h[s \ {Pick(s)}]
    <2>1. s \in SUBSET S /\ s \ {Pick(s)} \in SUBSET R
      OBVIOUS
    <2> QED
      BY <1>1, <2>1, IterValues
  <1>2. h[{}] = 0
    BY IterValues
  <1>3. h = [s \in SUBSET R |-> h[s]]
    OBVIOUS
  <1> HIDE DEF h
  <1>4. h = [s \in SUBSET R |-> IF s = {} THEN 0 ELSE g[Pick(s)] + h[s \ {Pick(s)}]]
    BY <1>1, <1>2, <1>3
  <1>5. IsIter(g, R, h)
    BY <1>4 DEF IsIter, Pick
  <1> QED
    BY <1>5 DEF h

LEMMA IterExists ==
    ASSUME NEW g, NEW S, IsFiniteSet(S)
    PROVE  IsIter(g, S, IterOf(g, S))
  <1> DEFINE B == {R \in SUBSET S : ~\E it : IsIter(g, R, it)}
  <1>1. CASE B = {}
    <2>1. \E it : IsIter(g, S, it)
      BY <1>1
    <2> QED
      BY <2>1 DEF IterOf
  <1>2. CASE B # {}
    <2>1. PICK T \in B : \A U \in B : U \subseteq T => U = T
      <3>1. B \in SUBSET SUBSET S
        OBVIOUS
      <3> HIDE DEF B
      <3> QED
        BY <1>2, <3>1, MinimalSubset
    <2>2. T \in SUBSET S /\ ~\E it : IsIter(g, T, it)
      BY <2>1
    <2> DEFINE V(s) == IterOf(g, s)[s]
               it == [s \in SUBSET T |->
                         IF s = {} THEN 0 ELSE g[Pick(s)] + V(s \ {Pick(s)})]
    <2>3. ASSUME NEW R \in SUBSET T, R # T
          PROVE  IsIter(g, R, IterOf(g, R))
      <3>1. R \in SUBSET S /\ R \notin B
        BY <2>1, <2>2, <2>3
      <3>2. \E h : IsIter(g, R, h)
        BY <3>1
      <3> QED
        BY <3>2 DEF IterOf
    <2>4. ASSUME NEW R \in SUBSET T, R # T
          PROVE  it[R] = V(R)
      <3>1. IsIter(g, R, IterOf(g, R))
        BY <2>3, <2>4
      <3>2. CASE R = {}
        <4>1. IterOf(g, R)[{}] = 0
          BY <3>1, IterValues
        <4> QED
          BY <3>2, <4>1
      <3>3. CASE R # {}
        <4> DEFINE Q == R \ {Pick(R)}
        <4>1. Pick(R) \in R
          BY <3>3, PickIn
        <4>2. Q \in SUBSET R /\ Q \in SUBSET T /\ Q # T /\ IsFiniteSet(Q)
          BY <2>2, <2>4, <4>1, FS_Subset
        <4>3. V(R) = g[Pick(R)] + IterOf(g, R)[Q]
          BY <3>1, <3>3, IterValues
        <4>4. IsIter(g, Q, [s \in SUBSET Q |-> IterOf(g, R)[s]])
          BY <3>1, <4>2, IterRestrict
        <4>5. IsIter(g, Q, IterOf(g, Q))
          BY <2>3, <4>2
        <4>6. IterOf(g, Q) = [s \in SUBSET Q |-> IterOf(g, R)[s]]
          BY <4>2, <4>4, <4>5, IterUnique
        <4>7. V(Q) = IterOf(g, R)[Q]
          BY <4>6
        <4>8. it[R] = g[Pick(R)] + V(Q)
          BY <3>3
        <4> QED
          BY <4>3, <4>7, <4>8
      <3> QED
        BY <3>2, <3>3
    <2>5. ASSUME NEW s \in SUBSET T, s # {}
          PROVE  it[s] = g[Pick(s)] + it[s \ {Pick(s)}]
      <3>1. Pick(s) \in s
        BY <2>5, PickIn
      <3>2. s \ {Pick(s)} \in SUBSET T /\ s \ {Pick(s)} # T
        BY <3>1
      <3>3. it[s \ {Pick(s)}] = V(s \ {Pick(s)})
        BY <2>4, <3>2
      <3> QED
        BY <2>5, <3>3
    <2>6. it[{}] = 0
      OBVIOUS
    <2>7. it = [s \in SUBSET T |-> it[s]]
      OBVIOUS
    <2> HIDE DEF it
    <2>8. it = [s \in SUBSET T |-> IF s = {} THEN 0 ELSE g[Pick(s)] + it[s \ {Pick(s)}]]
      BY <2>5, <2>6, <2>7
    <2>9. IsIter(g, T, it)
      BY <2>8 DEF IsIter, Pick
    <2> QED
      BY <2>2, <2>9
  <1> QED
    BY <1>1, <1>2

LEMMA SumIsIter ==
    ASSUME NEW g, NEW S PROVE SumFunctionOnSet(g, S) = IterOf(g, S)[S]
  BY DEF SumFunctionOnSet, FoldFunctionOnSet, MapThenFoldSet, IterOf, IsIter

LEMMA SumEmpty == ASSUME NEW g PROVE SumFunctionOnSet(g, {}) = 0
  <1>1. IsIter(g, {}, IterOf(g, {}))
    BY IterExists, FS_EmptySet
  <1> QED
    BY <1>1, IterValues, SumIsIter

LEMMA SumPick ==
    ASSUME NEW g, NEW S, IsFiniteSet(S), S # {}
    PROVE  SumFunctionOnSet(g, S) = g[Pick(S)] + SumFunctionOnSet(g, S \ {Pick(S)})
  <1> DEFINE Q == S \ {Pick(S)}
  <1>1. Q \in SUBSET S /\ IsFiniteSet(Q)
    BY FS_Subset
  <1>2. IsIter(g, S, IterOf(g, S)) /\ IsIter(g, Q, IterOf(g, Q))
    BY <1>1, IterExists
  <1>3. IsIter(g, Q, [s \in SUBSET Q |-> IterOf(g, S)[s]])
    BY <1>1, <1>2, IterRestrict
  <1>4. IterOf(g, Q) = [s \in SUBSET Q |-> IterOf(g, S)[s]]
    BY <1>1, <1>2, <1>3, IterUnique
  <1>5. IterOf(g, Q)[Q] = IterOf(g, S)[Q]
    BY <1>4
  <1>6. IterOf(g, S)[S] = g[Pick(S)] + IterOf(g, S)[Q]
    BY <1>2, IterValues
  <1> QED
    BY <1>5, <1>6, SumIsIter

LEMMA SumType ==
    ASSUME NEW S, IsFiniteSet(S), NEW g, \A x \in S : g[x] \in Int
    PROVE  SumFunctionOnSet(g, S) \in Int
  <1> DEFINE B == {T \in SUBSET S : SumFunctionOnSet(g, T) \notin Int}
  <1>1. CASE B # {}
    <2>1. PICK T \in B : \A U \in B : U \subseteq T => U = T
      <3>1. B \in SUBSET SUBSET S
        OBVIOUS
      <3> HIDE DEF B
      <3> QED
        BY <1>1, <3>1, MinimalSubset
    <2>2. T \in SUBSET S /\ IsFiniteSet(T)
      BY <2>1, FS_Subset
    <2>2a. T # {}
      <3>1. SumFunctionOnSet(g, T) \notin Int
        BY <2>1
      <3>2. SumFunctionOnSet(g, {}) = 0
        BY SumEmpty
      <3> QED
        BY <3>1, <3>2
    <2>3. Pick(T) \in T
      BY <2>2a, PickIn
    <2>4. SumFunctionOnSet(g, T \ {Pick(T)}) \in Int
      BY <2>1, <2>2, <2>3
    <2>5. SumFunctionOnSet(g, T) = g[Pick(T)] + SumFunctionOnSet(g, T \ {Pick(T)})
      BY <2>2, <2>2a, SumPick
    <2> QED
      BY <2>1, <2>2, <2>3, <2>4, <2>5
  <1> QED
    BY <1>1

\* Any element may be taken first.
LEMMA SumAdd ==
    ASSUME NEW U, IsFiniteSet(U), NEW g, \A x \in U : g[x] \in Int,
           NEW S \in SUBSET U, NEW a \in U, a \notin S
    PROVE  SumFunctionOnSet(g, S \cup {a}) = g[a] + SumFunctionOnSet(g, S)
  <1> DEFINE Sum(T) == SumFunctionOnSet(g, T)
  <1> DEFINE B == {T \in SUBSET U : \E x \in U \ T : Sum(T \cup {x}) # g[x] + Sum(T)}
  <1>0. \A T \in SUBSET U : IsFiniteSet(T) /\ Sum(T) \in Int
    <2> SUFFICES ASSUME NEW T \in SUBSET U PROVE IsFiniteSet(T) /\ Sum(T) \in Int
      OBVIOUS
    <2>1. IsFiniteSet(T)
      BY FS_Subset
    <2> QED
      BY <2>1, SumType
  <1>0a. \A T \in SUBSET U : T # {} => Sum(T) = g[Pick(T)] + Sum(T \ {Pick(T)})
    BY <1>0, SumPick
  <1> HIDE DEF Sum
  <1>1. CASE B # {}
    <2>1. PICK T \in B : \A V \in B : V \subseteq T => V = T
      <3> HIDE DEF B
      <3>1. B \in SUBSET SUBSET U
        BY DEF B
      <3> QED
        BY <1>1, <3>1, MinimalSubset
    <2>2. T \in SUBSET U
      BY <2>1
    <2>3. PICK x \in U \ T : Sum(T \cup {x}) # g[x] + Sum(T)
      BY <2>1
    <2> DEFINE W == T \cup {x}
               y == Pick(W)
    <2>4. W \in SUBSET U /\ y \in W /\ y \in U
      BY <2>2, PickIn
    <2>5. Sum(W) = g[y] + Sum(W \ {y})
      BY <2>4, <1>0a
    <2> HIDE DEF y
    <2>6. CASE y = x
      <3>1. W \ {y} = T
        BY <2>3, <2>6
      <3> QED
        BY <2>3, <2>5, <2>6, <3>1
    <2>7. CASE y # x
      <3> DEFINE V == T \ {y}
      <3>1. y \in T /\ V \in SUBSET U /\ V \subseteq T /\ V # T
        BY <2>2, <2>4, <2>7
      <3>2. V \notin B
        BY <2>1, <3>1
      <3>3. Sum(V \cup {x}) = g[x] + Sum(V) /\ Sum(V \cup {y}) = g[y] + Sum(V)
        BY <2>3, <2>4, <3>1, <3>2
      <3>4. W \ {y} = V \cup {x} /\ V \cup {y} = T
        BY <2>3, <2>7, <3>1
      <3>5. g[x] \in Int /\ g[y] \in Int /\ Sum(V) \in Int
        BY <1>0, <2>3, <2>4, <3>1
      <3> HIDE DEF V
      <3>6. Sum(W) = g[y] + (g[x] + Sum(V)) /\ Sum(T) = g[y] + Sum(V)
        BY <2>5, <3>3, <3>4
      <3>7. Sum(W) = g[x] + Sum(T)
        BY <3>5, <3>6
      <3> QED
        BY <2>3, <3>7
    <2> QED
      BY <2>6, <2>7
  <1>2. CASE B = {}
    <2>1. S \notin B
      BY <1>2
    <2> QED
      BY <2>1 DEF Sum
  <1> QED
    BY <1>1, <1>2

LEMMA SumRemove ==
    ASSUME NEW S, IsFiniteSet(S), NEW g, \A x \in S : g[x] \in Int, NEW a \in S
    PROVE  /\ SumFunctionOnSet(g, S \ {a}) \in Int
           /\ SumFunctionOnSet(g, S) = g[a] + SumFunctionOnSet(g, S \ {a})
  <1>1. IsFiniteSet(S \ {a}) /\ S \ {a} \in SUBSET S /\ (S \ {a}) \cup {a} = S
    BY FS_Subset
  <1>2. SumFunctionOnSet(g, S \ {a}) \in Int
    BY <1>1, SumType
  <1>3. SumFunctionOnSet(g, (S \ {a}) \cup {a}) = g[a] + SumFunctionOnSet(g, S \ {a})
    BY <1>1, SumAdd
  <1> QED
    BY <1>1, <1>2, <1>3

\* Sums of functions that are ordered pointwise are ordered.
LEMMA SumOrder ==
    ASSUME NEW S, IsFiniteSet(S), NEW g, NEW h,
           \A x \in S : g[x] \in Int /\ h[x] \in Int /\ g[x] <= h[x]
    PROVE  SumFunctionOnSet(g, S) <= SumFunctionOnSet(h, S)
  <1> DEFINE B == {T \in SUBSET S : ~(SumFunctionOnSet(g, T) <= SumFunctionOnSet(h, T))}
  <1>1. CASE B # {}
    <2>1. PICK T \in B : \A V \in B : V \subseteq T => V = T
      <3>1. B \in SUBSET SUBSET S
        OBVIOUS
      <3> HIDE DEF B
      <3> QED
        BY <1>1, <3>1, MinimalSubset
    <2>2. T \in SUBSET S /\ IsFiniteSet(T)
      BY <2>1, FS_Subset
    <2>3. T # {}
      <3>1. SumFunctionOnSet(g, {}) = 0 /\ SumFunctionOnSet(h, {}) = 0
        BY SumEmpty
      <3> SUFFICES ASSUME T = {} PROVE FALSE
        OBVIOUS
      <3>2. SumFunctionOnSet(g, T) = 0 /\ SumFunctionOnSet(h, T) = 0
        BY <3>1
      <3>3. ~(SumFunctionOnSet(g, T) <= SumFunctionOnSet(h, T))
        BY <2>1
      <3> QED
        BY <3>2, <3>3
    <2> DEFINE a == Pick(T)
    <2>4. a \in T
      BY <2>3, PickIn
    <2> HIDE DEF a
    <2>5. SumFunctionOnSet(g, T \ {a}) <= SumFunctionOnSet(h, T \ {a})
      BY <2>1, <2>2, <2>4
    <2>6. /\ SumFunctionOnSet(g, T \ {a}) \in Int
          /\ SumFunctionOnSet(g, T) = g[a] + SumFunctionOnSet(g, T \ {a})
      BY <2>2, <2>4, SumRemove
    <2>7. /\ SumFunctionOnSet(h, T \ {a}) \in Int
          /\ SumFunctionOnSet(h, T) = h[a] + SumFunctionOnSet(h, T \ {a})
      BY <2>2, <2>4, SumRemove
    <2>8. g[a] \in Int /\ h[a] \in Int /\ g[a] <= h[a]
      BY <2>2, <2>4
    <2>9. SumFunctionOnSet(g, T) <= SumFunctionOnSet(h, T)
      BY <2>5, <2>6, <2>7, <2>8
    <2> QED
      BY <2>1, <2>9
  <1> QED
    BY <1>1

LEMMA SumSame ==
    ASSUME NEW S, IsFiniteSet(S), NEW g, NEW h, \A x \in S : g[x] \in Int /\ g[x] = h[x]
    PROVE  SumFunctionOnSet(g, S) = SumFunctionOnSet(h, S)
  <1>1. /\ SumFunctionOnSet(g, S) <= SumFunctionOnSet(h, S)
        /\ SumFunctionOnSet(h, S) <= SumFunctionOnSet(g, S)
    BY SumOrder
  <1>2. SumFunctionOnSet(g, S) \in Int /\ SumFunctionOnSet(h, S) \in Int
    BY SumType
  <1> QED
    BY <1>1, <1>2

\* One element changes.
LEMMA SumChange ==
    ASSUME NEW S, IsFiniteSet(S), NEW g, NEW h, NEW a \in S,
           \A x \in S : g[x] \in Int /\ h[x] \in Int,
           \A x \in S \ {a} : g[x] = h[x]
    PROVE  SumFunctionOnSet(h, S) = SumFunctionOnSet(g, S) - g[a] + h[a]
  <1>1. /\ SumFunctionOnSet(g, S \ {a}) \in Int
        /\ SumFunctionOnSet(g, S) = g[a] + SumFunctionOnSet(g, S \ {a})
    BY SumRemove
  <1>2. SumFunctionOnSet(h, S) = h[a] + SumFunctionOnSet(h, S \ {a})
    BY SumRemove
  <1>3. SumFunctionOnSet(g, S \ {a}) = SumFunctionOnSet(h, S \ {a})
    <2>1. IsFiniteSet(S \ {a})
      BY FS_RemoveElement
    <2> QED
      BY <2>1, SumSame
  <1>4. g[a] \in Int /\ h[a] \in Int
    OBVIOUS
  <1> QED
    BY <1>1, <1>2, <1>3, <1>4

\* Nothing sums up to nothing.
LEMMA SumZero ==
    ASSUME NEW S, IsFiniteSet(S), NEW g, \A x \in S : g[x] = 0
    PROVE  SumFunctionOnSet(g, S) = 0
  <1> DEFINE B == {T \in SUBSET S : SumFunctionOnSet(g, T) # 0}
  <1>1. CASE B # {}
    <2>1. PICK T \in B : \A V \in B : V \subseteq T => V = T
      <3>1. B \in SUBSET SUBSET S
        OBVIOUS
      <3> HIDE DEF B
      <3> QED
        BY <1>1, <3>1, MinimalSubset
    <2>2. T \in SUBSET S /\ IsFiniteSet(T) /\ T # {}
      BY <2>1, FS_Subset, SumEmpty
    <2>3. Pick(T) \in T
      BY <2>2, PickIn
    <2>4. SumFunctionOnSet(g, T \ {Pick(T)}) = 0
      BY <2>1, <2>2, <2>3
    <2>5. SumFunctionOnSet(g, T) = g[Pick(T)] + SumFunctionOnSet(g, T \ {Pick(T)})
      BY <2>2, SumPick
    <2> QED
      BY <2>1, <2>2, <2>3, <2>4, <2>5
  <1> QED
    BY <1>1

\* A part of natural numbers is not more than all of them.
LEMMA SumPart ==
    ASSUME NEW S, IsFiniteSet(S), NEW g, \A x \in S : g[x] \in Nat, NEW P \in SUBSET S
    PROVE  SumFunctionOnSet(g, P) <= SumFunctionOnSet(g, S)
  <1> DEFINE B == {T \in SUBSET S : P \subseteq T /\ ~(SumFunctionOnSet(g, P) <= SumFunctionOnSet(g, T))}
  <1>0. IsFiniteSet(P)
    BY FS_Subset
  <1>00. SumFunctionOnSet(g, P) \in Int
    BY <1>0, SumType
  <1>1. CASE B # {}
    <2>1. PICK T \in B : \A V \in B : V \subseteq T => V = T
      <3>1. B \in SUBSET SUBSET S
        OBVIOUS
      <3> HIDE DEF B
      <3> QED
        BY <1>1, <3>1, MinimalSubset
    <2>2. T \in SUBSET S /\ IsFiniteSet(T) /\ P \subseteq T
      BY <2>1, FS_Subset
    <2>3. T # P
      BY <1>00, <2>1
    <2>4. PICK a \in T : a \notin P
      BY <2>2, <2>3
    <2>5. SumFunctionOnSet(g, P) <= SumFunctionOnSet(g, T \ {a})
      BY <2>1, <2>2, <2>4
    <2>6. /\ SumFunctionOnSet(g, T \ {a}) \in Int
          /\ SumFunctionOnSet(g, T) = g[a] + SumFunctionOnSet(g, T \ {a})
      BY <2>2, <2>4, SumRemove
    <2>7. g[a] \in Nat
      BY <2>2, <2>4
    <2>8. SumFunctionOnSet(g, P) <= SumFunctionOnSet(g, T)
      BY <1>00, <2>5, <2>6, <2>7
    <2> QED
      BY <2>1, <2>8
  <1> QED
    BY <1>1

-----------------------------------------------------------------------------
(***************************************************************************)
(* What the books of the store rest on: the mark of a refresh, the bytes of *)
(* the downloads, and the index of the entries.                             *)
(***************************************************************************)
\* Only a refresh runs endRefresh, and it is one from its first step.
RefresherInv ==
    \A f \in Fetches :
        /\ pc[f] = "ending" => f \in refresher
        /\ f \in refresher => pc[f] # "unused"

\* A temporary file is there from capture to its rename or removal.
TempAt(f) ==
    pc[f] \in {"unused", "dropBody", "fetch", "bypassing", "putMeta", "evict",
               "evictBody", "stored", "unstored", "committed", "ending",
               "closed"} => temp[f] = None

\* Bytes are counted only between a Read and what becomes of its chunk, and
\* until the download has given them back.
CountAt(f) ==
    /\ pc[f] \notin {"over", "writing"} => chunk[f] = 0
    /\ pc[f] \in Idle \cup {"dropBody", "fetch", "unlinking", "bypassing",
                            "committed", "ending"} => written[f] = 0

\* What each download has on the disk and in pending.
BytesInv == \A f \in Fetches : TempAt(f) /\ CountAt(f)

\* The bytes that pending has of a download.
Counted   == [f \in Fetches |-> written[f] + chunk[f]]
\* The bytes that are in the file of a download, or that Read may put there.
Held      == [f \in Fetches |-> written[f] + IF pc[f] = "writing" THEN chunk[f] ELSE 0]

\* pending is their sum, and what is on the disk fits the budget.
PendingInv == pending = SumFunctionOnSet(Counted, Fetches)
HeldInv    == SumFunctionOnSet(Held, Fetches) <= MaxBytes

\* The holder of the mutex is between two file operations of k.
Worked(k) ==
    \/ \E f \in Fetches : pc[f] \in {"dropBody", "rmBody", "putMeta"} /\ key[f] = k
    \/ \E p \in Procs : pc[p] = "evictBody" /\ order # <<>> /\ Last(order) = k

\* The scan has looked at every file.
Scanned == pc[Scanner] \in {"running", "evict", "evictBody"}

\* What the index says of a key at rest.
IndexAt(k) ==
    IF Contains(order, k) THEN Whole(k) /\ isize[k] = body[k].len + MetaSize
                          ELSE Scanned => meta[k] = None /\ body[k] = None

\* An entry that is indexed has both its files and is listed with their size;
\* once the scan is over, no other key has a file.
IndexInv ==
    /\ \A k \in Keys : ~Worked(k) => IndexAt(k)
    /\ \A f \in Fetches :
          pc[f] \in {"putBody", "putMeta"} => ~Contains(order, key[f])
    /\ At(Scanner, "dead") => order = <<>>

\* The size that the index has of each key, each listed once.
Listed == [k \in Keys |-> IF Contains(order, k) THEN isize[k] ELSE 0]

OrderInv == IsInjective(order)

\* total is what the index lists.
TotalInv == total = SumFunctionOnSet(Listed, Keys)

\* An eviction goes on while total is too much.
LimitInv ==
    Running /\ (\A p \in Procs : pc[p] \notin {"evict", "evictBody"}) => total <= MaxBytes

-----------------------------------------------------------------------------
(***************************************************************************)
(* One refresh per key.                                                     *)
(***************************************************************************)
\* One refresh per key, and only refreshes end as such.
MarkInv == RefresherInv /\ SingleRefresh

\* A step that starts, ends and renames no refresh.
LEMMA MarkFrame ==
    ASSUME MarkInv, UNCHANGED <<refreshing, refresher>>,
           \A f \in refresher : key'[f] = key[f] /\ (pc'[f] \in Idle <=> pc[f] \in Idle),
           \A f \in Fetches : pc'[f] = "ending" => f \in refresher,
           \A f \in refresher : pc[f] # "unused" => pc'[f] # "unused"
    PROVE  MarkInv'
  <1>1. RefresherInv'
    BY DEF MarkInv, RefresherInv
  <1>2. \A f \in Fetches : Refreshing(f)' <=> Refreshing(f)
    BY DEF Refreshing
  <1>3. \A f \in Fetches : Refreshing(f) => key'[f] = key[f]
    BY DEF Refreshing
  <1>4. refreshing' = {key'[f] : f \in {g \in Fetches : Refreshing(g)'}}
    BY <1>2, <1>3 DEF MarkInv, SingleRefresh
  <1>5. \A f, g \in Fetches :
           Refreshing(f)' /\ Refreshing(g)' /\ key'[f] = key'[g] => f = g
    BY <1>2, <1>3 DEF MarkInv, SingleRefresh
  <1> QED
    BY <1>1, <1>4, <1>5 DEF MarkInv, SingleRefresh

\* The mark of a key comes with its refresh and goes with it.
LEMMA MarkStep == ASSUME IInv, MarkInv, Next PROVE MarkInv'
  <1> USE NameAssumption DEF IInv, TypeOK, Goto, At, Procs, Idle,
     dirVars, indexVars, countVars, fetchVars, envVars, callVars
  <1>0. \A f \in Fetches : /\ pc[f] = "ending" => f \in refresher
                           /\ f \in refresher => pc[f] # "unused"
    BY DEF MarkInv, RefresherInv
  <1> USE <1>0
  <1>1. ASSUME NEW p \in Procs, EvictMeta(p) \/ EvictBody(p) \/ EvictDone(p)
       PROVE  MarkInv'
    BY <1>1, MarkFrame DEF EvictMeta, EvictBody, EvictDone
  <1>2. ASSUME NEW f \in Fetches, DropBody(f) \/ CommitDropBody(f) \/
     PutBody(f) \/ PutBodyError(f) \/ PutMeta(f) \/ PutMetaError(f)
       PROVE  MarkInv'
    <2>1. CASE DropBody(f)
      BY <2>1, MarkFrame DEF DropBody
    <2>2. CASE CommitDropBody(f)
      BY <2>2, MarkFrame DEF CommitDropBody
    <2>3. CASE PutBody(f)
      BY <2>3, MarkFrame DEF PutBody
    <2>4. CASE PutBodyError(f)
      BY <2>4, MarkFrame DEF PutBodyError
    <2>5. CASE PutMeta(f)
      BY <2>5, MarkFrame DEF PutMeta
    <2>6. CASE PutMetaError(f)
      BY <2>6, MarkFrame DEF PutMetaError
    <2> QED
      BY <1>2, <2>1, <2>2, <2>3, <2>4, <2>5, <2>6
  <1>3. ASSUME NEW f \in Fetches, Undo(f) \/ Write(f) \/ WriteError(f) \/
     Abort(f) \/ Release(f) \/ Unlink(f)
       PROVE  MarkInv'
    <2>1. CASE Undo(f)
      BY <2>1, MarkFrame DEF Undo, GiveBack
    <2>2. CASE Write(f)
      BY <2>2, MarkFrame DEF Write
    <2>3. CASE WriteError(f)
      BY <2>3, MarkFrame DEF WriteError, GiveBack
    <2>4. CASE Abort(f)
      BY <2>4, MarkFrame DEF Abort
    <2>5. CASE Release(f)
      BY <2>5, MarkFrame DEF Release
    <2>6. CASE Unlink(f)
      BY <2>6, MarkFrame DEF Unlink
    <2> QED
      BY <1>3, <2>1, <2>2, <2>3, <2>4, <2>5, <2>6
  <1>4. ASSUME NEW f \in Fetches, NEW n \in Nat, Read(f, n) \/ Respond(f, n)
       PROVE  MarkInv'
    <2>1. CASE Read(f, n)
      BY <2>1, MarkFrame DEF Read
    <2>2. CASE Respond(f, n)
      BY <2>2, MarkFrame DEF Respond
    <2> QED
      BY <1>4, <2>1, <2>2
  <1>5. ASSUME NEW f \in Fetches, EndOfBody(f) \/ CommitDropMeta(f) \/
     Discard(f) \/ Settle(f) \/ ReadAgain(f)
       PROVE  MarkInv'
    <2>1. CASE EndOfBody(f)
      BY <2>1, MarkFrame DEF EndOfBody
    <2>2. CASE CommitDropMeta(f)
      BY <2>2, MarkFrame DEF CommitDropMeta
    <2>3. CASE Discard(f)
      BY <2>3, MarkFrame DEF Discard
    <2>4. CASE Settle(f)
      BY <2>4, MarkFrame DEF Settle
    <2>5. CASE ReadAgain(f)
      BY <2>5, MarkFrame DEF ReadAgain
    <2> QED
      BY <1>5, <2>1, <2>2, <2>3, <2>4, <2>5
  <1>6. ASSUME NEW f \in Fetches, Decline(f) \/ CloseBody(f)
       PROVE  MarkInv'
    BY <1>6, MarkFrame DEF Decline, CloseBody, AfterClose
  <1>7. ASSUME NEW f \in Fetches, NEW k \in Keys, Miss(f, k) \/ MissDrop(f, k)
       PROVE  MarkInv'
    BY <1>7, MarkFrame DEF Miss, MissDrop, StartFetch
  <1>8. ASSUME NEW r \in Readers, NEW k \in Keys, Serve(r, k)
       PROVE  MarkInv'
    BY <1>8, MarkFrame DEF Serve
  <1>9. ASSUME Restart \/ ScanDone
       PROVE  MarkInv'
    BY <1>9, MarkFrame DEF Restart, ScanDone
  <1>10. ASSUME NEW k \in Keys, Damage(k) \/ ScanDrop(k) \/ ScanIndex(k)
       PROVE  MarkInv'
    BY <1>10, MarkFrame DEF Damage, ScanDrop, ScanIndex
  <1>11. ASSUME NEW f \in Fetches, NEW q \in {"stale", "expired"}, Age(f, q)
       PROVE  MarkInv'
    BY <1>11, MarkFrame DEF Age
  <1>12. ASSUME NEW r \in Readers, NEW k \in Keys, NEW f \in Fetches,
     ServeAndRefresh(r, k, f)
       PROVE  MarkInv'
    <2>1. /\ refreshing' = refreshing \cup {k} /\ k \notin refreshing
          /\ refresher' = refresher \cup {f} /\ f \notin refresher
          /\ pc' = [pc EXCEPT ![f] = "fetch"] /\ key' = [key EXCEPT ![f] = k]
      BY <1>12 DEF ServeAndRefresh, NeedsRefresh, StartFetch
    <2>2. RefresherInv'
      BY <2>1 DEF RefresherInv
    <2>3. \A g \in Fetches : Refreshing(g)' <=> (Refreshing(g) \/ g = f)
      BY <2>1 DEF Refreshing
    <2>4. \A g \in Fetches : Refreshing(g) => key'[g] = key[g] /\ key[g] # k
      BY <2>1 DEF Refreshing, MarkInv, SingleRefresh
    <2>5. key'[f] = k
      BY <2>1
    <2>6. refreshing' = {key'[g] : g \in {h \in Fetches : Refreshing(h)'}}
      BY <2>1, <2>3, <2>4, <2>5 DEF MarkInv, SingleRefresh
    <2>7. \A g, h \in Fetches :
             Refreshing(g)' /\ Refreshing(h)' /\ key'[g] = key'[h] => g = h
      BY <2>3, <2>4, <2>5 DEF MarkInv, SingleRefresh
    <2> QED
      BY <2>2, <2>6, <2>7 DEF MarkInv, SingleRefresh
  <1>13. ASSUME NEW f \in Fetches, EndRefresh(f)
       PROVE  MarkInv'
    <2>1. /\ refreshing' = refreshing \ {key[f]} /\ pc[f] = "ending"
          /\ UNCHANGED <<refresher, key>> /\ pc' = [pc EXCEPT ![f] = "closed"]
      BY <1>13 DEF EndRefresh
    <2>2. RefresherInv'
      BY <2>1 DEF RefresherInv
    <2>3. \A g \in Fetches : Refreshing(g)' <=> (Refreshing(g) /\ g # f)
      BY <2>1 DEF Refreshing
    <2>4. Refreshing(f)
      BY <2>1 DEF Refreshing
    <2>5. \A g \in Fetches : Refreshing(g) /\ g # f => key[g] # key[f]
      BY <2>4 DEF MarkInv, SingleRefresh
    <2>6. refreshing' = {key'[g] : g \in {h \in Fetches : Refreshing(h)'}}
      BY <2>1, <2>3, <2>4, <2>5 DEF MarkInv, SingleRefresh
    <2>7. \A g, h \in Fetches :
             Refreshing(g)' /\ Refreshing(h)' /\ key'[g] = key'[h] => g = h
      BY <2>1, <2>3 DEF MarkInv, SingleRefresh
    <2> QED
      BY <2>2, <2>6, <2>7 DEF MarkInv, SingleRefresh
  <1>14. ASSUME NEW r \in Readers, CloseResponse(r)
       PROVE  MarkInv'
    BY <1>14, MarkFrame DEF CloseResponse
  <1>15. ASSUME Crash
       PROVE  MarkInv'
    <2>1. \A g \in Fetches : pc'[g] \in Idle
      BY <1>15 DEF Crash
    <2>2. RefresherInv'
      BY <1>15 DEF Crash, RefresherInv
    <2>3. refreshing' = {}
      BY <1>15 DEF Crash
    <2> QED
      BY <2>1, <2>2, <2>3 DEF MarkInv, SingleRefresh, Refreshing
  <1> HIDE <1>0
  <1> HIDE DEF IInv, TypeOK, Goto, At, Idle, dirVars, indexVars, countVars,
     fetchVars, envVars, callVars
  <1> QED
    <2>1. ASSUME NEW p \in Procs, LockedStep(p) PROVE MarkInv'
      BY <2>1, <1>1, <1>2 DEF LockedStep
    <2>2. ASSUME NEW f \in Fetches, FetchStep(f) PROVE MarkInv'
      <3>1. ASSUME NEW n \in BodySizes, Respond(f, n) PROVE MarkInv'
        BY <3>1, <1>4, SizeAssumption
      <3>2. ASSUME NEW n \in 1..size[f], Read(f, n) PROVE MarkInv'
        <4>1. n \in Nat
          BY DEF IInv, TypeOK
        <4> QED
          BY <3>2, <4>1, <1>4
      <3> QED
        BY <2>2, <3>1, <3>2, <1>3, <1>5, <1>6, <1>13 DEF FetchStep
    <2>3. ASSUME NEW f \in Fetches, NEW k \in Keys, RequestStep(f, k) PROVE MarkInv'
      BY <2>3, <1>7 DEF RequestStep
    <2>4. ASSUME NEW r \in Readers, NEW k \in Keys, ServeStep(r, k) PROVE MarkInv'
      BY <2>4, <1>8, <1>12 DEF ServeStep
    <2>5. ASSUME ScanStep PROVE MarkInv'
      BY <2>5, <1>9, <1>10 DEF ScanStep
    <2> QED
      BY <2>1, <2>2, <2>3, <2>4, <2>5, <1>9, <1>10, <1>11, <1>15, <1>14 DEF Next

-----------------------------------------------------------------------------
(***************************************************************************)
(* Temporary files and the bytes that are counted for them.                 *)
(***************************************************************************)
\* A step that touches the books of one download at most.
LEMMA BytesFrame ==
    ASSUME BytesInv, NEW p, p \in Fetches => (TempAt(p) /\ CountAt(p))',
           \A f \in Fetches \ {p} :
               /\ pc'[f] = pc[f] /\ temp'[f] = temp[f]
               /\ chunk'[f] = chunk[f] /\ written'[f] = written[f]
    PROVE  BytesInv'
  <1>1. ASSUME NEW f \in Fetches \ {p} PROVE (TempAt(f) /\ CountAt(f))'
    BY DEF BytesInv, TempAt, CountAt
  <1> QED
    BY <1>1, BytesFrame DEF BytesInv

\* A temporary file goes, and its bytes are given back, on every path that
\* ends a download.
LEMMA BytesStep == ASSUME IInv, BytesInv, Next PROVE BytesInv'
  <1>0. /\ pc \in [Procs -> PCs] /\ temp \in [Fetches -> Nat \cup {None}]
        /\ written \in [Fetches -> Nat] /\ chunk \in [Fetches -> Nat]
        /\ Scanner \notin Fetches
        /\ \A f \in Fetches : TempAt(f) /\ CountAt(f)
    BY NameAssumption DEF IInv, TypeOK, BytesInv
  <1> USE <1>0 DEF TempAt, CountAt, Goto, At, Procs, Idle,
     dirVars, indexVars, countVars, fetchVars, envVars, callVars
  <1>1. ASSUME NEW p \in Procs, EvictMeta(p) \/ EvictBody(p) \/ EvictDone(p)
       PROVE  BytesInv'
    <2>1. CASE EvictMeta(p)
      BY <2>1, BytesFrame DEF EvictMeta
    <2>2. CASE EvictBody(p)
      BY <2>2, BytesFrame DEF EvictBody
    <2>3. CASE EvictDone(p)
      BY <2>3, BytesFrame DEF EvictDone
    <2> QED
      BY <1>1, <2>1, <2>2, <2>3
  <1>2. ASSUME NEW f \in Fetches, DropBody(f) \/ CommitDropBody(f) \/
     PutBody(f) \/ PutBodyError(f) \/ PutMeta(f) \/ PutMetaError(f)
       PROVE  BytesInv'
    <2>1. CASE DropBody(f)
      BY <2>1, BytesFrame DEF DropBody
    <2>2. CASE CommitDropBody(f)
      BY <2>2, BytesFrame DEF CommitDropBody
    <2>3. CASE PutBody(f)
      BY <2>3, BytesFrame DEF PutBody
    <2>4. CASE PutBodyError(f)
      BY <2>4, BytesFrame DEF PutBodyError
    <2>5. CASE PutMeta(f)
      BY <2>5, BytesFrame DEF PutMeta
    <2>6. CASE PutMetaError(f)
      BY <2>6, BytesFrame DEF PutMetaError
    <2> QED
      BY <1>2, <2>1, <2>2, <2>3, <2>4, <2>5, <2>6
  <1>3. ASSUME NEW f \in Fetches, Undo(f) \/ WriteError(f)
       PROVE  BytesInv'
    BY <1>3, BytesFrame DEF Undo, WriteError, GiveBack
  <1>4. ASSUME NEW f \in Fetches, Write(f)
       PROVE  BytesInv'
    BY <1>4, BytesFrame DEF Write
  <1>5. ASSUME NEW f \in Fetches, Abort(f) \/ Release(f) \/ Unlink(f)
       PROVE  BytesInv'
    BY <1>5, BytesFrame DEF Abort, Release, NothingWritten, Unlink
  <1>6. ASSUME NEW f \in Fetches, NEW n \in Nat, Read(f, n) \/ Respond(f, n)
       PROVE  BytesInv'
    BY <1>6, BytesFrame DEF Read, Respond
  <1>7. ASSUME NEW f \in Fetches, EndOfBody(f) \/ CommitDropMeta(f) \/
     Discard(f) \/ Settle(f) \/ ReadAgain(f)
       PROVE  BytesInv'
    BY <1>7, BytesFrame DEF EndOfBody, CommitDropMeta, Discard, Settle, NothingWritten, ReadAgain
  <1>8. ASSUME NEW f \in Fetches, Decline(f) \/ CloseBody(f) \/ EndRefresh(f)
       PROVE  BytesInv'
    BY <1>8, BytesFrame DEF Decline, CloseBody, EndRefresh, AfterClose
  <1>9. ASSUME NEW f \in Fetches, NEW k \in Keys, Miss(f, k) \/ MissDrop(f, k)
       PROVE  BytesInv'
    BY <1>9, BytesFrame DEF Miss, MissDrop, StartFetch
  <1>10. ASSUME NEW r \in Readers, NEW k \in Keys, Serve(r, k)
       PROVE  BytesInv'
    BY <1>10 DEF BytesInv, Serve, ServeFrom
  <1>11. ASSUME NEW r \in Readers, NEW k \in Keys, NEW f \in Fetches,
     ServeAndRefresh(r, k, f)
       PROVE  BytesInv'
    BY <1>11, BytesFrame DEF ServeAndRefresh, ServeFrom, StartFetch
  <1>12. ASSUME NEW r \in Readers, CloseResponse(r)
       PROVE  BytesInv'
    BY <1>12 DEF BytesInv, CloseResponse
  <1>13. ASSUME Crash \/ Restart \/ ScanDone
       PROVE  BytesInv'
    <2>1. CASE Crash
      BY <2>1 DEF Crash, BytesInv
    <2>2. CASE Restart \/ ScanDone
      BY <2>2 DEF Restart, ScanDone, BytesInv
    <2> QED
      BY <1>13, <2>1, <2>2
  <1>14. ASSUME NEW k \in Keys, Damage(k) \/ ScanDrop(k) \/ ScanIndex(k)
       PROVE  BytesInv'
    BY <1>14 DEF BytesInv, Damage, ScanDrop, ScanIndex
  <1>15. ASSUME NEW f \in Fetches, NEW q \in {"stale", "expired"}, Age(f, q)
       PROVE  BytesInv'
    BY <1>15 DEF BytesInv, Age
  <1> HIDE <1>0
  <1> HIDE DEF TempAt, CountAt, Goto, At, Idle, dirVars, indexVars, countVars,
     fetchVars, envVars, callVars
  <1> QED
    <2>1. ASSUME NEW p \in Procs, LockedStep(p) PROVE BytesInv'
      BY <2>1, <1>1, <1>2 DEF LockedStep
    <2>2. ASSUME NEW f \in Fetches, FetchStep(f) PROVE BytesInv'
      <3>1. ASSUME NEW n \in BodySizes, Respond(f, n) PROVE BytesInv'
        BY <3>1, <1>6, SizeAssumption
      <3>2. ASSUME NEW n \in 1..size[f], Read(f, n) PROVE BytesInv'
        <4>1. n \in Nat
          BY DEF IInv, TypeOK
        <4> QED
          BY <3>2, <4>1, <1>6
      <3> QED
        BY <2>2, <3>1, <3>2, <1>3, <1>4, <1>5, <1>7, <1>8 DEF FetchStep
    <2>3. ASSUME NEW f \in Fetches, NEW k \in Keys, RequestStep(f, k)
          PROVE  BytesInv'
      BY <2>3, <1>9 DEF RequestStep
    <2>4. ASSUME NEW r \in Readers, NEW k \in Keys, ServeStep(r, k)
          PROVE  BytesInv'
      BY <2>4, <1>10, <1>11 DEF ServeStep
    <2>5. ASSUME ScanStep PROVE BytesInv'
      BY <2>5, <1>13, <1>14 DEF ScanStep
    <2> QED
      BY <2>1, <2>2, <2>3, <2>4, <2>5, <1>12, <1>13, <1>14, <1>15 DEF Next

-----------------------------------------------------------------------------
(***************************************************************************)
(* The sum of what the downloads count, and of what they have on the disk.  *)
(***************************************************************************)
\* What is counted, for finitely many downloads.
SumInv == PendingInv /\ HeldInv

\* A step that counts nothing and starts no Write.
LEMMA SumQuiet ==
    ASSUME IInv, SumInv, IsFiniteSet(Fetches), UNCHANGED <<pending, written, chunk>>,
           \A f \in Fetches : pc'[f] = "writing" => pc[f] = "writing"
    PROVE  SumInv'
  <1>1. PendingInv'
    BY DEF SumInv, PendingInv, Counted
  <1>2. HeldInv'
    <2>1. \A f \in Fetches : written[f] \in Nat /\ chunk[f] \in Nat
      BY DEF IInv, TypeOK
    <2>2. \A f \in Fetches : Held[f] \in Int /\ Held'[f] \in Int /\ Held'[f] <= Held[f]
      BY <2>1 DEF Held
    <2>3. SumFunctionOnSet(Held', Fetches) <= SumFunctionOnSet(Held, Fetches)
      BY <2>2, SumOrder
    <2>4. SumFunctionOnSet(Held', Fetches) \in Int /\ SumFunctionOnSet(Held, Fetches) \in Int
      BY <2>2, SumType
    <2> QED
      BY <2>3, <2>4, SizeAssumption DEF SumInv, HeldInv
  <1> QED
    BY <1>1, <1>2 DEF SumInv

\* A step that changes what one download counts, by what it adds to pending.
LEMMA PendingChange ==
    ASSUME IInv, TypeOK', PendingInv, IsFiniteSet(Fetches), NEW f \in Fetches,
           \A g \in Fetches \ {f} : written'[g] = written[g] /\ chunk'[g] = chunk[g],
           pending' = pending - (written[f] + chunk[f]) + (written'[f] + chunk'[f])
    PROVE  PendingInv'
  <1>1. \A g \in Fetches : /\ written[g] \in Nat /\ chunk[g] \in Nat
                           /\ written'[g] \in Nat /\ chunk'[g] \in Nat
    BY DEF IInv, TypeOK
  <1>2. \A g \in Fetches : Counted[g] \in Int /\ Counted'[g] \in Int
    BY <1>1 DEF Counted
  <1>3. \A g \in Fetches \ {f} : Counted[g] = Counted'[g]
    BY DEF Counted
  <1>4. SumFunctionOnSet(Counted', Fetches)
           = SumFunctionOnSet(Counted, Fetches) - Counted[f] + Counted'[f]
    BY <1>2, <1>3, SumChange
  <1>5. Counted[f] = written[f] + chunk[f] /\ Counted'[f] = written'[f] + chunk'[f]
    BY DEF Counted
  <1> QED
    BY <1>4, <1>5 DEF PendingInv

\* A step after which no download holds more than before.
LEMMA HeldLess ==
    ASSUME IInv, TypeOK', HeldInv, IsFiniteSet(Fetches),
           \A g \in Fetches : Held'[g] <= Held[g]
    PROVE  HeldInv'
  <1>1. \A g \in Fetches : Held[g] \in Int /\ Held'[g] \in Int
    BY DEF IInv, TypeOK, Held
  <1>2. SumFunctionOnSet(Held', Fetches) <= SumFunctionOnSet(Held, Fetches)
    BY <1>1, SumOrder
  <1>3. SumFunctionOnSet(Held', Fetches) \in Int /\ SumFunctionOnSet(Held, Fetches) \in Int
    BY <1>1, SumType
  <1> QED
    BY <1>2, <1>3, SizeAssumption DEF HeldInv

\* A Read that is not over the budget: what it may write fits with the rest.
LEMMA HeldRead ==
    ASSUME IInv, TypeOK', PendingInv', IsFiniteSet(Fetches), pending' <= MaxBytes
    PROVE  HeldInv'
  <1>1. \A g \in Fetches : written'[g] \in Nat /\ chunk'[g] \in Nat
    BY DEF TypeOK
  <1>2. \A g \in Fetches : /\ Held'[g] \in Int /\ Counted'[g] \in Int
                           /\ Held'[g] <= Counted'[g]
    BY <1>1 DEF Held, Counted
  <1>3. SumFunctionOnSet(Held', Fetches) <= SumFunctionOnSet(Counted', Fetches)
    BY <1>2, SumOrder
  <1>4. SumFunctionOnSet(Held', Fetches) \in Int /\ SumFunctionOnSet(Counted', Fetches) \in Int
    BY <1>2, SumType
  <1> QED
    BY <1>3, <1>4, SizeAssumption DEF HeldInv, PendingInv

\* pending.Add and the writes that follow it keep both sums, in every order
\* of the Reads of different downloads.
LEMMA SumStep ==
    ASSUME IInv, IInv', BytesInv, SumInv, IsFiniteSet(Fetches), Next
    PROVE  SumInv'
  <1>0. /\ pc \in [Procs -> PCs] /\ Scanner \notin Fetches /\ pending \in Int
        /\ \A f \in Fetches : /\ written[f] \in Nat /\ chunk[f] \in Nat
                              /\ CountAt(f) /\ pc[f] \in PCs
        /\ written \in [Fetches -> Nat] /\ chunk \in [Fetches -> Nat]
    BY NameAssumption DEF IInv, TypeOK, BytesInv, Procs
  <1>t. TypeOK' /\ PendingInv /\ HeldInv
    BY DEF IInv, SumInv
  <1> USE <1>0 DEF Goto, At, Procs, countVars
  <1>1. ASSUME NEW p \in Procs, EvictMeta(p) \/ EvictBody(p) \/ EvictDone(p)
        PROVE  SumInv'
    BY <1>1, SumQuiet DEF EvictMeta, EvictBody, EvictDone
  <1>2. ASSUME NEW f \in Fetches, DropBody(f) \/ CommitDropBody(f) \/
     PutBody(f) \/ PutBodyError(f) \/ PutMeta(f) \/ PutMetaError(f)
        PROVE  SumInv'
    BY <1>2, SumQuiet DEF DropBody, CommitDropBody, PutBody, PutBodyError,
       PutMeta, PutMetaError
  <1>3. ASSUME NEW f \in Fetches, NEW n \in Nat, Respond(f, n) \/ Decline(f) \/ Abort(f)
     \/ Unlink(f) \/ EndOfBody(f) \/ CommitDropMeta(f) \/ Discard(f) \/ CloseBody(f)
     \/ EndRefresh(f)
        PROVE  SumInv'
    BY <1>3, SumQuiet DEF Respond, Decline, AfterClose, Abort, Unlink, EndOfBody,
       CommitDropMeta, Discard, CloseBody, EndRefresh
  <1>4. ASSUME NEW f \in Fetches, NEW k \in Keys, Miss(f, k) \/ MissDrop(f, k)
        PROVE  SumInv'
    BY <1>4, SumQuiet DEF Miss, MissDrop
  <1>5. ASSUME NEW r \in Readers, NEW k \in Keys, ServeStep(r, k)
        PROVE  SumInv'
    BY <1>5, SumQuiet DEF ServeStep, Serve, ServeAndRefresh, ServeFrom
  <1>6. ASSUME NEW r \in Readers, CloseResponse(r)
        PROVE  SumInv'
    BY <1>6, SumQuiet DEF CloseResponse
  <1>7. ASSUME Restart \/ ScanStep
        PROVE  SumInv'
    BY <1>7, SumQuiet DEF Restart, ScanStep, ScanDone, ScanDrop, ScanIndex
  <1>8. ASSUME NEW k \in Keys, Damage(k)
        PROVE  SumInv'
    BY <1>8, SumQuiet DEF Damage
  <1>9. ASSUME NEW f \in Fetches, NEW q \in {"stale", "expired"}, Age(f, q)
        PROVE  SumInv'
    BY <1>9, SumQuiet DEF Age
  <1>10. ASSUME NEW f \in Fetches, NEW n \in Nat, Read(f, n)
         PROVE  SumInv'
    <2>1. CASE written[f] + n > MaxObjectBytes
      BY <1>10, <2>1, SumQuiet DEF Read
    <2>2. CASE ~(written[f] + n > MaxObjectBytes)
      <3>1. /\ pending' = pending + n /\ UNCHANGED written /\ chunk[f] = 0
            /\ chunk' = [chunk EXCEPT ![f] = n]
            /\ pc' = [pc EXCEPT ![f] = IF OverBudget(n) THEN "over" ELSE "writing"]
        BY <1>10, <2>2 DEF Read, CountAt
      <3>2. PendingInv'
        BY <3>1, <1>t, PendingChange
      <3>3. CASE OverBudget(n)
        <4>1. \A g \in Fetches : Held'[g] <= Held[g]
          BY <3>1, <3>3, <1>10 DEF Held, Read
        <4> QED
          BY <3>2, <4>1, <1>t, HeldLess DEF SumInv
      <3>4. CASE ~OverBudget(n)
        <4>1. pending' <= MaxBytes
          BY <3>1, <3>4, SizeAssumption DEF OverBudget
        <4> QED
          BY <3>2, <4>1, <1>t, HeldRead DEF SumInv
      <3> QED
        BY <3>3, <3>4
    <2> QED
      BY <2>1, <2>2
  <1>11. ASSUME NEW f \in Fetches, Undo(f) \/ WriteError(f)
         PROVE  SumInv'
    <2>1. /\ pending' = pending - chunk[f] /\ UNCHANGED written
          /\ chunk' = [chunk EXCEPT ![f] = 0]
          /\ pc' = [pc EXCEPT ![f] = "disabling"]
      BY <1>11 DEF Undo, WriteError, GiveBack
    <2>2. PendingInv'
      BY <2>1, <1>t, PendingChange
    <2>3. \A g \in Fetches : Held'[g] <= Held[g]
      BY <2>1 DEF Held
    <2> QED
      BY <2>2, <2>3, <1>t, HeldLess DEF SumInv
  <1>12. ASSUME NEW f \in Fetches, Write(f)
         PROVE  SumInv'
    <2>1. /\ pending' = pending /\ pc[f] = "writing"
          /\ written' = [written EXCEPT ![f] = written[f] + chunk[f]]
          /\ chunk' = [chunk EXCEPT ![f] = 0]
          /\ pc' = [pc EXCEPT ![f] = "open"]
      BY <1>12 DEF Write
    <2>2. PendingInv'
      BY <2>1, <1>t, PendingChange
    <2>3. \A g \in Fetches : Held'[g] <= Held[g]
      BY <2>1 DEF Held
    <2> QED
      BY <2>2, <2>3, <1>t, HeldLess DEF SumInv
  <1>13. ASSUME NEW f \in Fetches, Release(f) \/ Settle(f)
         PROVE  SumInv'
    <2>1. /\ pending' = pending - written[f] /\ UNCHANGED chunk
          /\ written' = [written EXCEPT ![f] = 0]
          /\ \A g \in Fetches : pc'[g] = "writing" => pc[g] = "writing"
      BY <1>13 DEF Release, Settle, NothingWritten
    <2>2. PendingInv'
      BY <2>1, <1>t, PendingChange
    <2>3. \A g \in Fetches : Held'[g] <= Held[g]
      BY <2>1 DEF Held
    <2> QED
      BY <2>2, <2>3, <1>t, HeldLess DEF SumInv
  <1>14. ASSUME NEW f \in Fetches, ReadAgain(f)
         PROVE  SumInv'
    <2>1. written[f] = 0
      BY <1>14 DEF ReadAgain, CountAt
    <2> QED
      BY <1>14, <2>1, SumQuiet DEF ReadAgain
  <1>15. ASSUME Crash
         PROVE  SumInv'
    <2>1. /\ pending' = 0
          /\ \A g \in Fetches : written'[g] = 0 /\ chunk'[g] = 0
      BY <1>15 DEF Crash
    <2>2. \A g \in Fetches : Counted'[g] = 0
      BY <2>1 DEF Counted
    <2>3. PendingInv'
      BY <2>1, <2>2, SumZero DEF PendingInv
    <2>4. \A g \in Fetches : Held'[g] <= Held[g]
      BY <2>1 DEF Held
    <2> QED
      BY <2>3, <2>4, <1>t, HeldLess DEF SumInv
  <1> HIDE <1>0 DEF Goto, At, countVars
  <1> QED
    <2>1. ASSUME NEW p \in Procs, LockedStep(p) PROVE SumInv'
      BY <2>1, <1>1, <1>2 DEF LockedStep
    <2>2. ASSUME NEW f \in Fetches, FetchStep(f) PROVE SumInv'
      <3>1. ASSUME NEW n \in BodySizes, Respond(f, n) PROVE SumInv'
        BY <3>1, <1>3, SizeAssumption
      <3>2. ASSUME NEW n \in 1..size[f], Read(f, n) PROVE SumInv'
        <4>1. n \in Nat
          BY DEF IInv, TypeOK
        <4> QED
          BY <3>2, <4>1, <1>10
      <3> QED
        BY <2>2, <3>1, <3>2, <1>3, <1>11, <1>12, <1>13, <1>14 DEF FetchStep
    <2>3. ASSUME NEW f \in Fetches, NEW k \in Keys, RequestStep(f, k) PROVE SumInv'
      BY <2>3, <1>4 DEF RequestStep
    <2> QED
      BY <2>1, <2>2, <2>3, <1>5, <1>6, <1>7, <1>8, <1>9, <1>15 DEF Next

-----------------------------------------------------------------------------
(***************************************************************************)
(* The second layer of the invariant, and what it says.                     *)
(***************************************************************************)
\* What needs no finiteness.
BooksInv == MarkInv /\ BytesInv

LEMMA BooksInit == ASSUME Init PROVE BooksInv
  <1>1. MarkInv
    BY NameAssumption DEF Init, MarkInv, RefresherInv, SingleRefresh,
       Refreshing, Idle, Procs
  <1>2. BytesInv
    BY NameAssumption DEF Init, BytesInv, TempAt, CountAt, Procs, Idle
  <1> QED
    BY <1>1, <1>2 DEF BooksInv

THEOREM Books == Spec => []BooksInv
  <1>1. IInv /\ BooksInv /\ [Next]_vars => BooksInv'
    <2>1. ASSUME IInv, BooksInv, Next PROVE BooksInv'
      BY <2>1, MarkStep, BytesStep DEF BooksInv
    <2>2. ASSUME BooksInv, UNCHANGED vars PROVE BooksInv'
      BY <2>2 DEF BooksInv, MarkInv, RefresherInv, SingleRefresh, Refreshing,
         BytesInv, TempAt, CountAt, vars, dirVars, countVars, fetchVars, callVars
    <2> QED
      BY <2>1, <2>2
  <1> QED
    BY <1>1, BooksInit, Invariance, PTL DEF Spec

\* load starts one refresh per key, and its mark stands as long as it runs.
THEOREM RefreshCorrect == Spec => []SingleRefresh
  <1>1. BooksInv => SingleRefresh
    BY DEF BooksInv, MarkInv
  <1> QED
    BY <1>1, Books, PTL

\* No temporary file outlives the download it was made for, unless the process
\* ends: every path of Read, Close, disable and commit renames or removes it.
THEOREM TemporaryCorrect == Spec => []NoTemporaryLeft
  <1>1. BooksInv => NoTemporaryLeft
    BY DEF BooksInv, BytesInv, TempAt, NoTemporaryLeft
  <1> QED
    BY <1>1, Books, PTL

LEMMA SumInit == ASSUME Init, IsFiniteSet(Fetches) PROVE SumInv
  <1>1. \A f \in Fetches : Counted[f] = 0 /\ Held[f] = 0
    BY DEF Init, Counted, Held
  <1>2. SumFunctionOnSet(Counted, Fetches) = 0 /\ SumFunctionOnSet(Held, Fetches) = 0
    BY <1>1, SumZero
  <1> QED
    BY <1>2, SizeAssumption DEF Init, SumInv, PendingInv, HeldInv

\* What is in the temporary files is what their downloads hold, at most.
LEMMA TemporaryHeld ==
    ASSUME IInv, SumInv, IsFiniteSet(Fetches)
    PROVE  SumFunctionOnSet(temp, {f \in Fetches : pc[f] \in Capturing}) <= MaxBytes
  <1> DEFINE C == {f \in Fetches : pc[f] \in Capturing}
  <1>1. C \in SUBSET Fetches /\ IsFiniteSet(C)
    BY FS_Subset
  <1>2. \A f \in Fetches : written[f] \in Nat /\ chunk[f] \in Nat
    BY DEF IInv, TypeOK
  <1>3. \A f \in Fetches : Held[f] \in Nat
    BY <1>2 DEF Held
  <1>4. \A f \in C : temp[f] = written[f]
    BY DEF IInv, CaptureInv, Capturing
  <1>5. \A f \in C : temp[f] \in Int /\ Held[f] \in Int /\ temp[f] <= Held[f]
    BY <1>1, <1>2, <1>4 DEF Held
  <1> HIDE DEF C
  <1>6. SumFunctionOnSet(temp, C) <= SumFunctionOnSet(Held, C)
    BY <1>1, <1>5, SumOrder
  <1>7. SumFunctionOnSet(Held, C) <= SumFunctionOnSet(Held, Fetches)
    BY <1>1, <1>3, SumPart
  <1>8. SumFunctionOnSet(temp, C) \in Int /\ SumFunctionOnSet(Held, C) \in Int
        /\ SumFunctionOnSet(Held, Fetches) \in Int
    BY <1>1, <1>3, <1>5, SumType
  <1>9. SumFunctionOnSet(temp, C) <= MaxBytes
    BY <1>6, <1>7, <1>8, SizeAssumption DEF SumInv, HeldInv
  <1> QED
    BY <1>9 DEF C

\* store.pending is the sum of what the downloads hold, and what they have in
\* their temporary files stays within max_size_mib, for any number of them.
THEOREM PendingCorrect == ASSUME IsFiniteSet(Fetches) PROVE Spec => []PendingExact
  <1>1. Init => SumInv
    BY SumInit
  <1>2. IInv /\ IInv' /\ BooksInv /\ SumInv /\ [Next]_vars => SumInv'
    <2>1. ASSUME IInv, IInv', BooksInv, SumInv, Next PROVE SumInv'
      BY <2>1, SumStep DEF BooksInv
    <2>2. ASSUME IInv, SumInv, UNCHANGED vars PROVE SumInv'
      BY <2>2, SumQuiet DEF vars, countVars
    <2> QED
      BY <2>1, <2>2
  <1>3. IInv /\ SumInv => PendingExact
    BY TemporaryHeld DEF SumInv, PendingInv, Counted, PendingExact
  <1> QED
    BY <1>1, <1>2, <1>3, Invariance, Books, PTL DEF Spec

-----------------------------------------------------------------------------
(***************************************************************************)
(* The index: a sequence of keys without repetitions.                       *)
(***************************************************************************)
\* removeLocked takes the one element of the key out of the index.
LEMMA OthersFacts ==
    ASSUME order \in Seq(Keys), IsInjective(order), NEW k \in Keys
    PROVE  /\ Others(k) \in Seq(Keys) /\ IsInjective(Others(k))
           /\ \A x \in Keys : Contains(Others(k), x) <=> Contains(order, x) /\ x # k
  <1> DEFINE r == Others(k)
  <1>1. CASE ~Contains(order, k)
    BY <1>1 DEF Others
  <1>2. CASE Contains(order, k)
    <2> DEFINE n == CHOOSE j \in 1..Len(order) : order[j] = k
               a == SubSeq(order, 1, n - 1)
               b == SubSeq(order, n + 1, Len(order))
    <2>1. n \in 1..Len(order) /\ order[n] = k
      BY <1>2 DEF Contains
    <2>2. r = a \o b
      BY <1>2 DEF Others, RemoveAt
    <2> HIDE DEF n
    <2>3. /\ a \in Seq(Keys) /\ Len(a) = n - 1
          /\ \A i \in 1..(n - 1) : a[i] = order[i]
      BY <2>1
    <2>4. /\ b \in Seq(Keys) /\ Len(b) = Len(order) - n
          /\ \A i \in 1..(Len(order) - n) : b[i] = order[i + n]
      BY <2>1
    <2> HIDE DEF r, a, b
    <2>5. /\ r \in Seq(Keys) /\ Len(r) = Len(order) - 1
          /\ \A i \in 1..(Len(order) - 1) : r[i] = IF i < n THEN order[i] ELSE order[i + 1]
      <3>1. r \in Seq(Keys) /\ Len(r) = Len(order) - 1
        BY <2>1, <2>2, <2>3, <2>4
      <3>2. ASSUME NEW i \in 1..(Len(order) - 1), i < n PROVE r[i] = order[i]
        BY <2>1, <2>2, <2>3, <2>4, <3>2
      <3>3. ASSUME NEW i \in 1..(Len(order) - 1), ~(i < n) PROVE r[i] = order[i + 1]
        <4>1. i \in (Len(a) + 1)..(Len(a) + Len(b)) /\ i - Len(a) \in 1..(Len(order) - n)
          BY <2>1, <2>3, <2>4, <3>3
        <4>2. r[i] = b[i - Len(a)]
          BY <2>2, <2>3, <2>4, <4>1
        <4> QED
          BY <2>1, <2>3, <2>4, <4>1, <4>2
      <3> QED
        BY <3>1, <3>2, <3>3
    <2>6. IsInjective(r)
      <3> SUFFICES ASSUME NEW i \in 1..(Len(order) - 1), NEW j \in 1..(Len(order) - 1),
                          r[i] = r[j]
                   PROVE  i = j
        BY <2>5 DEF IsInjective
      <3> DEFINE at(m) == IF m < n THEN m ELSE m + 1
      <3>1. at(i) \in 1..Len(order) /\ at(j) \in 1..Len(order) /\ order[at(i)] = order[at(j)]
        BY <2>1, <2>5
      <3>2. at(i) = at(j)
        BY <3>1 DEF IsInjective
      <3> QED
        BY <2>1, <3>2
    <2>7. ASSUME NEW i \in 1..Len(r) PROVE Contains(order, r[i]) /\ r[i] # k
      <3>1. PICK m \in 1..Len(order) : m # n /\ r[i] = order[m]
        <4>1. CASE i < n
          BY <2>1, <2>5, <4>1
        <4>2. CASE ~(i < n)
          <5>1. i + 1 \in 1..Len(order) /\ i + 1 # n /\ r[i] = order[i + 1]
            BY <2>1, <2>5, <4>2
          <5> QED
            BY <5>1
        <4> QED
          BY <4>1, <4>2
      <3>2. order[m] # order[n]
        BY <2>1, <3>1 DEF IsInjective
      <3> QED
        BY <2>1, <3>1, <3>2 DEF Contains
    <2>8. ASSUME NEW i \in 1..Len(order), order[i] # k PROVE Contains(r, order[i])
      <3>1. CASE i < n
        BY <2>1, <2>5, <3>1 DEF Contains
      <3>2. CASE i > n
        <4>1. i - 1 \in 1..Len(r) /\ r[i - 1] = order[i]
          BY <2>1, <2>5, <3>2
        <4> QED
          BY <4>1 DEF Contains
      <3> QED
        BY <2>1, <2>8, <3>1, <3>2
    <2> QED
      BY <2>5, <2>6, <2>7, <2>8 DEF Contains, r
  <1> QED
    BY <1>1, <1>2

\* PushFront of a key that is not in the index.
LEMMA FrontFacts ==
    ASSUME NEW s \in Seq(Keys), IsInjective(s), NEW k \in Keys, ~Contains(s, k)
    PROVE  /\ <<k>> \o s \in Seq(Keys) /\ IsInjective(<<k>> \o s)
           /\ \A x \in Keys : Contains(<<k>> \o s, x) <=> x = k \/ Contains(s, x)
  <1> DEFINE r == <<k>> \o s
  <1>1. /\ r \in Seq(Keys) /\ Len(r) = Len(s) + 1 /\ r[1] = k
        /\ \A i \in 1..Len(s) : r[i + 1] = s[i]
    OBVIOUS
  <1> HIDE DEF r
  <1>2. \A i \in 1..Len(r) : i = 1 \/ (i - 1 \in 1..Len(s) /\ r[i] = s[i - 1])
    <2> SUFFICES ASSUME NEW i \in 1..Len(r), i # 1
                 PROVE  i - 1 \in 1..Len(s) /\ r[i] = s[i - 1]
      OBVIOUS
    <2>1. i - 1 \in 1..Len(s)
      BY <1>1
    <2>2. r[(i - 1) + 1] = s[i - 1]
      BY <1>1, <2>1
    <2>3. (i - 1) + 1 = i
      OBVIOUS
    <2> QED
      BY <2>1, <2>2, <2>3
  <1>3. IsInjective(r)
    <2> SUFFICES ASSUME NEW i \in 1..Len(r), NEW j \in 1..Len(r), r[i] = r[j]
                 PROVE  i = j
      BY <1>1 DEF IsInjective
    <2>1. CASE i = 1 \/ j = 1
      BY <1>1, <1>2, <2>1 DEF Contains
    <2>2. CASE i # 1 /\ j # 1
      <3>1. i - 1 \in 1..Len(s) /\ j - 1 \in 1..Len(s) /\ s[i - 1] = s[j - 1]
        BY <1>2, <2>2
      <3>2. i - 1 = j - 1
        BY <3>1 DEF IsInjective
      <3> QED
        BY <1>1, <3>2
    <2> QED
      BY <2>1, <2>2
  <1>4. ASSUME NEW x \in Keys PROVE Contains(r, x) <=> x = k \/ Contains(s, x)
    <2>1. ASSUME NEW i \in 1..Len(s) PROVE i + 1 \in 1..Len(r) /\ r[i + 1] = s[i]
      BY <1>1
    <2>2. 1 \in 1..Len(r)
      BY <1>1
    <2>3. ASSUME Contains(s, x) PROVE Contains(r, x)
      BY <2>1, <2>3 DEF Contains
    <2>4. Contains(r, k)
      BY <1>1, <2>2 DEF Contains
    <2>5. ASSUME NEW i \in 1..Len(r), r[i] = x PROVE x = k \/ Contains(s, x)
      BY <1>1, <1>2, <2>5 DEF Contains
    <2> QED
      BY <2>3, <2>4, <2>5 DEF Contains
  <1> QED
    BY <1>1, <1>3, <1>4 DEF r

LEMMA LastFacts ==
    ASSUME order \in Seq(Keys), order # <<>>
    PROVE  Last(order) \in Keys /\ Contains(order, Last(order))
  BY LastType DEF Last, Contains

-----------------------------------------------------------------------------
(***************************************************************************)
(* The index and the files.                                                 *)
(***************************************************************************)
\* Where the holder of the mutex is in the middle of the files of a key.
Midway == {"dropBody", "rmBody", "putBody", "putMeta", "evictBody"}

\* A step that leaves the files and the set of indexed keys.
LEMMA IndexFrame ==
    ASSUME IndexInv, UNCHANGED <<meta, body, isize>>,
           \A k \in Keys : Contains(order', k) <=> Contains(order, k),
           \A k \in Keys : Worked(k) => Worked(k)',
           \A f \in Fetches : pc'[f] \in {"putBody", "putMeta"} =>
              pc[f] \in {"putBody", "putMeta"} /\ key'[f] = key[f] /\ key[f] \in Keys,
           Scanned' => Scanned,
           pc'[Scanner] = "dead" => order' = <<>>
    PROVE  IndexInv'
  <1>1. ASSUME NEW k \in Keys, ~Worked(k)' PROVE IndexAt(k)'
    BY <1>1 DEF IndexInv, IndexAt, Whole
  <1>2. ASSUME NEW f \in Fetches, pc'[f] \in {"putBody", "putMeta"}
        PROVE  ~Contains(order', key'[f])
    BY <1>2 DEF IndexInv
  <1> QED
    BY <1>1, <1>2 DEF IndexInv, At

\* A step of a process that is not midway, before or after it.
LEMMA IndexQuiet ==
    ASSUME IInv, IndexInv, UNCHANGED <<meta, body, isize, order>>,
           \A p \in Procs : pc[p] \in Midway \/ pc'[p] \in Midway => pc'[p] = pc[p],
           \A f \in Fetches : pc[f] \in Midway => key'[f] = key[f],
           Scanned' => Scanned,
           pc'[Scanner] = "dead" => pc[Scanner] = "dead"
    PROVE  IndexInv'
  <1>1. \A f \in Fetches : f \in Procs /\ (pc[f] # "unused" => key[f] \in Keys)
    BY DEF IInv, KeyInv, Procs
  <1>2. \A k \in Keys : Worked(k) => Worked(k)'
    BY <1>1 DEF Worked, Midway
  <1>3. \A f \in Fetches : pc'[f] \in {"putBody", "putMeta"} =>
              pc[f] \in {"putBody", "putMeta"} /\ key'[f] = key[f] /\ key[f] \in Keys
    BY <1>1 DEF Midway
  <1> QED
    BY <1>2, <1>3, IndexFrame DEF IndexInv, At

\* With the mutex free nobody is midway.
LEMMA FreeMutex == ASSUME IInv, lock = None PROVE \A p \in Procs : pc[p] \notin Holding
  BY NameAssumption DEF IInv, MutexInv

\* The holder of the mutex is the only one.
LEMMA OneHolder ==
    ASSUME IInv, NEW p \in Procs, pc[p] \in Holding
    PROVE  \A q \in Procs \ {p} : pc[q] \notin Holding
  BY DEF IInv, MutexInv

\* A step of p, alone with the mutex before and after it.
Alone(p) ==
    /\ \A q \in Procs \ {p} : pc[q] \notin Holding /\ pc'[q] = pc[q]
    /\ UNCHANGED key

LEMMA IndexChange ==
    ASSUME IInv, IndexInv, NEW p \in Procs, Alone(p), NEW x \in Keys,
           \A k \in Keys \ {x} : /\ meta'[k] = meta[k] /\ body'[k] = body[k]
                                 /\ isize'[k] = isize[k]
                                 /\ Contains(order', k) <=> Contains(order, k)
                                 /\ ~Worked(k),
           Worked(x)' \/ IndexAt(x)',
           pc'[p] \in {"putBody", "putMeta"} =>
              p \in Fetches /\ key[p] = x /\ ~Contains(order', x),
           Scanned' => Scanned,
           pc'[Scanner] = "dead" => order' = <<>>
    PROVE  IndexInv'
  <1>1. ASSUME NEW k \in Keys, ~Worked(k)' PROVE IndexAt(k)'
    <2>1. CASE k = x
      BY <1>1, <2>1
    <2>2. CASE k # x
      BY <2>2 DEF IndexInv, IndexAt, Whole
    <2> QED
      BY <2>1, <2>2
  <1>2. ASSUME NEW f \in Fetches, pc'[f] \in {"putBody", "putMeta"}
        PROVE  ~Contains(order', key'[f])
    <2>1. f = p
      BY <1>2 DEF Alone, Procs, Holding
    <2> QED
      BY <1>2, <2>1 DEF Alone
  <1> QED
    BY <1>1, <1>2 DEF IndexInv, At

\* Unindex takes a key out of the index, and only that key.
LEMMA UnindexFacts ==
    ASSUME IInv, OrderInv, NEW k \in Keys, Unindex(k)
    PROVE  /\ OrderInv' /\ UNCHANGED isize
           /\ \A x \in Keys : Contains(order', x) <=> Contains(order, x) /\ x # k
  <1>1. order \in Seq(Keys) /\ order' = Others(k) /\ UNCHANGED isize
    BY DEF IInv, TypeOK, Unindex
  <1> QED
    BY <1>1, OthersFacts DEF OrderInv

\* PushFront adds a key that is not in the index, with its size.
LEMMA PushFrontFacts ==
    ASSUME IInv, OrderInv, NEW k \in Keys, NEW n, ~Contains(order, k), PushFront(k, n)
    PROVE  /\ OrderInv'
           /\ isize'[k] = n /\ \A x \in Keys \ {k} : isize'[x] = isize[x]
           /\ \A x \in Keys : Contains(order', x) <=> Contains(order, x) \/ x = k
  <1>1. order \in Seq(Keys) /\ order' = <<k>> \o order /\ isize' = [isize EXCEPT ![k] = n]
        /\ isize \in [Keys -> Nat]
    BY DEF IInv, TypeOK, PushFront
  <1>2. /\ IsInjective(<<k>> \o order)
        /\ \A x \in Keys : Contains(<<k>> \o order, x) <=> x = k \/ Contains(order, x)
    BY <1>1, FrontFacts DEF OrderInv
  <1> QED
    BY <1>1, <1>2 DEF OrderInv

\* A key that is served moves to the front.
LEMMA ServeFacts ==
    ASSUME IInv, OrderInv, NEW r \in Readers, NEW k \in Keys, ServeFrom(r, k)
    PROVE  /\ OrderInv' /\ UNCHANGED <<meta, body, isize, total>>
           /\ \A x \in Keys : Contains(order', x) <=> Contains(order, x)
  <1>1. /\ order \in Seq(Keys) /\ UNCHANGED <<meta, body, isize, total>>
        /\ order' = IF Contains(order, k) THEN <<k>> \o Others(k) ELSE order
    BY DEF IInv, TypeOK, ServeFrom, dirVars
  <1>2. CASE ~Contains(order, k)
    BY <1>1, <1>2 DEF OrderInv
  <1>3. CASE Contains(order, k)
    <2>1. /\ Others(k) \in Seq(Keys) /\ IsInjective(Others(k))
          /\ \A x \in Keys : Contains(Others(k), x) <=> Contains(order, x) /\ x # k
      BY <1>1, OthersFacts DEF OrderInv
    <2>2. /\ IsInjective(<<k>> \o Others(k))
          /\ \A x \in Keys : Contains(<<k>> \o Others(k), x) <=> x = k \/ Contains(Others(k), x)
      BY <2>1, FrontFacts
    <2> QED
      BY <1>1, <1>3, <2>1, <2>2 DEF OrderInv
  <1> QED
    BY <1>2, <1>3

LEMMA EmptyContains == \A k : ~Contains(<<>>, k)
  BY DEF Contains

\* The index and the directory agree after each step, up to the key the holder
\* of the mutex is working on.
LEMMA IndexStep == ASSUME IInv, IInv', IndexInv, OrderInv, Next PROVE IndexInv'
  <1>0. /\ pc \in [Procs -> PCs] /\ Scanner \notin Fetches
        /\ \A f \in Fetches : f \in Procs /\ (pc[f] # "unused" => key[f] \in Keys)
        /\ \A k \in Keys : meta[k] # None => body[k] # None
        /\ meta \in [Keys -> MetaFile \cup {None}] /\ body \in [Keys -> BodyFile \cup {None}]
        /\ key \in [Fetches -> Keys \cup {None}]
        /\ \A k \in Keys : ~Worked(k) => IndexAt(k)
    BY NameAssumption DEF IInv, TypeOK, Procs, KeyInv, FilesInv, Together, IndexInv
  <1> USE <1>0 DEF Goto, At, dirVars, indexVars, countVars, fetchVars, envVars,
     callVars, Midway, Holding
  <1>1. ASSUME NEW p \in Procs, EvictMeta(p)
        PROVE  IndexInv'
    <2>0. order # <<>> /\ order \in Seq(Keys)
      BY <1>1 DEF EvictMeta, IInv, TypeOK
    <2>2. PICK x \in Keys : x = Last(order)
      BY <2>0, LastFacts
    <2>1. /\ order # <<>> /\ pc[p] = "evict"
          /\ pc' = [pc EXCEPT ![p] = "evictBody"]
          /\ meta' = [meta EXCEPT ![x] = None] /\ UNCHANGED <<body, isize, order, key>>
      BY <1>1, <2>0, <2>2 DEF EvictMeta
    <2>3. Alone(p)
      BY <2>1, OneHolder DEF Alone
    <2>4. \A k \in Keys : ~Worked(k)
      BY <2>1, <2>3 DEF Worked, Alone
    <2>5. Worked(x)'
      BY <2>1, <2>2 DEF Worked
    <2>6. (Scanned' => Scanned) /\ pc'[Scanner] # "dead"
      BY <2>1 DEF Scanned, IInv, DownInv, Idle, Running, Procs
    <2>7. pc'[p] \notin {"putBody", "putMeta"}
      BY <2>1
    <2> QED
      BY <2>1, <2>2, <2>3, <2>4, <2>5, <2>6, <2>7, IndexChange
  <1>2. ASSUME NEW p \in Procs, EvictBody(p)
        PROVE  IndexInv'
    <2>0. order # <<>> /\ order \in Seq(Keys) /\ meta[Last(order)] = None
      BY <1>2 DEF EvictBody, IInv, TypeOK, StepInv
    <2>2. PICK x \in Keys : x = Last(order)
      BY <2>0, LastFacts
    <2>1. /\ order # <<>> /\ pc[p] = "evictBody" /\ meta[x] = None
          /\ pc' = [pc EXCEPT ![p] = "evict"]
          /\ body' = [body EXCEPT ![x] = None] /\ UNCHANGED <<meta, key>> /\ Unindex(x)
      BY <1>2, <2>0, <2>2 DEF EvictBody
    <2>3. Alone(p)
      BY <2>1, OneHolder DEF Alone
    <2>4. \A k \in Keys \ {x} : ~Worked(k)
      BY <2>1, <2>2, <2>3 DEF Worked, Alone
    <2>5. UNCHANGED isize /\ \A k \in Keys : Contains(order', k) <=> Contains(order, k) /\ k # x
      BY <2>1, <2>2, UnindexFacts
    <2>6. IndexAt(x)'
      BY <2>1, <2>2, <2>5 DEF IndexAt
    <2>7. (Scanned' => Scanned) /\ pc'[Scanner] # "dead"
      BY <2>1 DEF Scanned, IInv, DownInv, Idle, Running, Procs
    <2>8. pc'[p] \notin {"putBody", "putMeta"}
      BY <2>1
    <2> QED
      BY <2>1, <2>2, <2>3, <2>4, <2>5, <2>6, <2>7, <2>8, IndexChange
  <1>3. ASSUME NEW p \in Procs, EvictDone(p)
        PROVE  IndexInv'
    BY <1>3, IndexQuiet DEF EvictDone, Scanned
  <1>4. ASSUME NEW f \in Fetches, DropBody(f) \/ CommitDropBody(f)
        PROVE  IndexInv'
    <2>0. PICK x \in Keys : x = key[f]
      BY <1>4 DEF DropBody, CommitDropBody
    <2>1. /\ pc[f] \in {"dropBody", "rmBody"} /\ meta[x] = None
          /\ pc' = [pc EXCEPT ![f] = IF pc[f] = "dropBody" THEN "fetch" ELSE "putBody"]
          /\ body' = [body EXCEPT ![x] = None] /\ UNCHANGED <<meta, key>> /\ Unindex(x)
      BY <2>0, <1>4 DEF DropBody, CommitDropBody, IInv, StepInv
    <2>3. Alone(f)
      BY <2>1, OneHolder DEF Alone
    <2>4. \A k \in Keys \ {x} : ~Worked(k)
      BY <2>0, <2>1, <2>3 DEF Worked, Alone
    <2>5. UNCHANGED isize /\ \A k \in Keys : Contains(order', k) <=> Contains(order, k) /\ k # x
      BY <2>1, UnindexFacts
    <2>6. IndexAt(x)'
      BY <2>1, <2>5 DEF IndexAt
    <2>7. Scanned' = Scanned /\ pc'[Scanner] = pc[Scanner] /\ pc[Scanner] # "dead"
      BY <2>1 DEF Scanned, IInv, DownInv, Idle, Running
    <2>8. pc'[f] \in {"putBody", "putMeta"} => f \in Fetches /\ key[f] = x /\ ~Contains(order', x)
      BY <2>0, <2>1, <2>5
    <2> QED
      BY <2>1, <2>3, <2>4, <2>5, <2>6, <2>7, <2>8, IndexChange
  <1>5. ASSUME NEW f \in Fetches, PutBody(f)
        PROVE  IndexInv'
    <2>0. PICK x \in Keys : x = key[f]
      BY <1>5 DEF PutBody
    <2>1. /\ pc[f] = "putBody" /\ ~Contains(order, x)
          /\ pc' = [pc EXCEPT ![f] = "putMeta"]
          /\ \A k \in Keys \ {x} : body'[k] = body[k]
          /\ UNCHANGED <<meta, key, order, isize>>
      BY <2>0, <1>5 DEF PutBody, IndexInv
    <2>3. Alone(f)
      BY <2>1, OneHolder DEF Alone
    <2>4. \A k \in Keys \ {x} : ~Worked(k)
      BY <2>0, <2>1, <2>3 DEF Worked, Alone
    <2>5. Worked(x)'
      BY <2>0, <2>1 DEF Worked
    <2>7. Scanned' = Scanned /\ pc'[Scanner] = pc[Scanner] /\ pc[Scanner] # "dead"
      BY <2>1 DEF Scanned, IInv, DownInv, Idle, Running
    <2>8. pc'[f] \in {"putBody", "putMeta"} => f \in Fetches /\ key[f] = x /\ ~Contains(order', x)
      BY <2>0, <2>1
    <2> QED
      BY <2>1, <2>3, <2>4, <2>5, <2>7, <2>8, IndexChange
  <1>6. ASSUME NEW f \in Fetches, PutBodyError(f)
        PROVE  IndexInv'
    <2>1. /\ pc[f] = "putBody" /\ pc' = [pc EXCEPT ![f] = "failing"]
          /\ UNCHANGED <<meta, body, key, order, isize>>
      BY <1>6 DEF PutBodyError
    <2>3. Alone(f)
      BY <2>1, OneHolder DEF Alone
    <2>4. \A k \in Keys : ~Worked(k)
      BY <2>1, <2>3 DEF Worked, Alone
    <2>5. \A g \in Fetches : pc'[g] \notin {"putBody", "putMeta"}
      BY <2>1, <2>3 DEF Alone
    <2>7. Scanned' = Scanned /\ pc'[Scanner] = pc[Scanner]
      BY <2>1 DEF Scanned
    <2> QED
      BY <2>1, <2>4, <2>5, <2>7, IndexFrame DEF IndexInv
  <1>7. ASSUME NEW f \in Fetches, PutMeta(f)
        PROVE  IndexInv'
    <2>0. PICK x \in Keys : x = key[f]
      BY <1>7 DEF PutMeta
    <2>1. /\ pc[f] = "putMeta" /\ ~Contains(order, x)
          /\ pc' = [pc EXCEPT ![f] = "evict"]
          /\ meta' = [meta EXCEPT ![x] = [ver |-> f, size |-> written[f], readable |-> TRUE]]
          /\ UNCHANGED <<body, key>> /\ PushFront(x, written[f] + MetaSize)
          /\ body[x] = [ver |-> f, len |-> size[f]] /\ written[f] = size[f]
      BY <2>0, <1>7 DEF PutMeta, IndexInv, IInv, StepInv, CaptureInv
    <2>2. meta'[x] # None /\ body'[x] # None /\ body'[x].len = written[f]
      <3>1. meta' \in [Keys -> MetaFile \cup {None}] /\ written[f] \in Nat /\ size[f] \in Nat
        BY DEF IInv, TypeOK
      <3>2. [ver |-> f, size |-> written[f], readable |-> TRUE] \in MetaFile
        BY <3>1 DEF MetaFile
      <3>3. [ver |-> f, len |-> size[f]] \in BodyFile
        BY <3>1 DEF BodyFile
      <3>4. /\ meta'[x] = [ver |-> f, size |-> written[f], readable |-> TRUE]
            /\ body'[x] = [ver |-> f, len |-> size[f]]
        BY <2>1
      <3>5. meta'[x] \in MetaFile /\ body'[x] \in BodyFile
        BY <3>2, <3>3, <3>4
      <3>6. body'[x].len = size[f]
        BY <3>4
      <3> QED
        BY <2>1, <3>5, <3>6, NameAssumption
    <2>3. Alone(f)
      BY <2>1, OneHolder DEF Alone
    <2>4. \A k \in Keys \ {x} : ~Worked(k)
      BY <2>0, <2>1, <2>3 DEF Worked, Alone
    <2>5. /\ isize'[x] = written[f] + MetaSize
          /\ \A k \in Keys \ {x} : isize'[k] = isize[k]
          /\ \A k \in Keys : Contains(order', k) <=> Contains(order, k) \/ k = x
      BY <2>1, PushFrontFacts
    <2>6. IndexAt(x)'
      BY <2>1, <2>2, <2>5 DEF IndexAt, Whole
    <2>7. Scanned' = Scanned /\ pc'[Scanner] = pc[Scanner] /\ pc[Scanner] # "dead"
      BY <2>1 DEF Scanned, IInv, DownInv, Idle, Running
    <2> QED
      BY <2>1, <2>3, <2>4, <2>5, <2>6, <2>7, IndexChange
  <1>8. ASSUME NEW f \in Fetches, PutMetaError(f)
        PROVE  IndexInv'
    <2>0. PICK x \in Keys : x = key[f]
      BY <1>8 DEF PutMetaError
    <2>1. /\ pc[f] = "putMeta" /\ ~Contains(order, x)
          /\ pc' = [pc EXCEPT ![f] = "failing"]
          /\ body' = [body EXCEPT ![x] = None] /\ UNCHANGED <<meta, key, order, isize>>
          /\ meta[x] = None
      BY <2>0, <1>8 DEF PutMetaError, IndexInv, IInv, StepInv
    <2>3. Alone(f)
      BY <2>1, OneHolder DEF Alone
    <2>4. \A k \in Keys \ {x} : ~Worked(k)
      BY <2>0, <2>1, <2>3 DEF Worked, Alone
    <2>6. IndexAt(x)'
      BY <2>1 DEF IndexAt
    <2>7. Scanned' = Scanned /\ pc'[Scanner] = pc[Scanner] /\ pc[Scanner] # "dead"
      BY <2>1 DEF Scanned, IInv, DownInv, Idle, Running
    <2> QED
      BY <2>1, <2>3, <2>4, <2>6, <2>7, IndexChange
  <1>9. ASSUME NEW f \in Fetches, CommitDropMeta(f)
        PROVE  IndexInv'
    <2>0. PICK x \in Keys : x = key[f]
      BY <1>9 DEF CommitDropMeta
    <2>1. /\ pc[f] = "eof" /\ lock = None
          /\ pc' = [pc EXCEPT ![f] = "rmBody"]
          /\ meta' = [meta EXCEPT ![x] = None] /\ UNCHANGED <<body, key, order, isize>>
      BY <2>0, <1>9 DEF CommitDropMeta
    <2>3. Alone(f) /\ \A k \in Keys : ~Worked(k)
      BY <2>1, FreeMutex DEF Alone, Worked
    <2>5. Worked(x)'
      BY <2>0, <2>1 DEF Worked
    <2>7. Scanned' = Scanned /\ pc'[Scanner] = pc[Scanner] /\ pc[Scanner] # "dead"
      BY <2>1 DEF Scanned, IInv, DownInv, Idle, Running
    <2> QED
      BY <2>1, <2>3, <2>5, <2>7, IndexChange
  <1>10. ASSUME NEW f \in Fetches, NEW k \in Keys, MissDrop(f, k)
        PROVE  IndexInv'
    <2>1. /\ pc[f] = "unused" /\ lock = None /\ pc[Scanner] = "running"
          /\ pc' = [pc EXCEPT ![f] = "dropBody"] /\ key' = [key EXCEPT ![f] = k]
          /\ meta' = [meta EXCEPT ![k] = None] /\ UNCHANGED <<body, order, isize>>
      BY <1>10 DEF MissDrop, StartFetch, Running
    <2>3. \A q \in Procs : pc[q] \notin Holding
      BY <2>1, FreeMutex
    <2>4. \A x \in Keys : ~Worked(x)
      BY <2>3 DEF Worked
    <2>5. Worked(k)'
      BY <2>1 DEF Worked
    <2>6. ASSUME NEW x \in Keys, ~Worked(x)' PROVE IndexAt(x)'
      <3>1. x # k
        BY <2>5, <2>6
      <3> QED
        BY <2>1, <2>4, <3>1 DEF IndexAt, Whole, Scanned
    <2>7. \A g \in Fetches : pc'[g] \notin {"putBody", "putMeta"}
      BY <2>1, <2>3
    <2> QED
      BY <2>1, <2>6, <2>7 DEF IndexInv
  <1>11. ASSUME NEW f \in Fetches, NEW n \in Nat, Respond(f, n) \/ Decline(f) \/ Abort(f)
     \/ Read(f, n) \/ Undo(f) \/ Write(f) \/ WriteError(f)
        PROVE  IndexInv'
    <2>1. /\ UNCHANGED <<meta, body, isize, order, key>>
          /\ pc[f] \in {"fetch", "open", "over", "writing"}
          /\ \E l \in {"open", "ending", "closed", "disabling", "over", "writing"} :
                pc' = [pc EXCEPT ![f] = l]
      BY <1>11 DEF Respond, Decline, AfterClose, Abort, Read, Undo, Write, WriteError,
         GiveBack
    <2> QED
      BY <2>1, IndexQuiet DEF Scanned
  <1>12. ASSUME NEW f \in Fetches, Release(f) \/ Unlink(f) \/ EndOfBody(f) \/ Discard(f) \/
     Settle(f) \/ ReadAgain(f) \/ CloseBody(f) \/ EndRefresh(f)
        PROVE  IndexInv'
    <2>1. /\ UNCHANGED <<meta, body, isize, order, key>>
          /\ pc[f] \in {"disabling", "unlinking", "open", "failing", "stored", "unstored",
                        "committed", "bypassing", "ending"}
          /\ \E l \in {"unlinking", "bypassing", "eof", "failing", "unstored", "committed",
                        "ending", "closed"} : pc' = [pc EXCEPT ![f] = l]
      BY <1>12 DEF Release, Unlink, EndOfBody, Discard, Settle, ReadAgain, CloseBody,
         AfterClose, EndRefresh
    <2> QED
      BY <2>1, IndexQuiet DEF Scanned
  <1>13. ASSUME NEW f \in Fetches, NEW k \in Keys, Miss(f, k)
        PROVE  IndexInv'
    BY <1>13, IndexQuiet DEF Miss, StartFetch, Scanned
  <1>14. ASSUME NEW r \in Readers, CloseResponse(r)
        PROVE  IndexInv'
    BY <1>14, IndexQuiet DEF CloseResponse, Scanned
  <1>15. ASSUME NEW f \in Fetches, NEW q \in {"stale", "expired"}, Age(f, q)
        PROVE  IndexInv'
    BY <1>15, IndexQuiet DEF Age, Scanned
  <1>16. ASSUME NEW r \in Readers, NEW k \in Keys, ServeStep(r, k)
        PROVE  IndexInv'
    <2>1. ServeFrom(r, k) /\ lock = None /\ pc[Scanner] = "running"
      BY <1>16 DEF ServeStep, Serve, ServeAndRefresh, ServeFrom, Running
    <2>2. \A q \in Procs : pc[q] \notin Holding
      BY <2>1, FreeMutex
    <2>3. /\ \A q \in Procs : pc'[q] \notin {"putBody", "putMeta"}
          /\ pc'[Scanner] = pc[Scanner]
      <3>1. CASE Serve(r, k)
        BY <2>2, <3>1 DEF Serve
      <3>2. CASE \E f \in Fetches : ServeAndRefresh(r, k, f)
        <4>1. PICK f \in Fetches : pc' = [pc EXCEPT ![f] = "fetch"]
          BY <3>2 DEF ServeAndRefresh
        <4> QED
          BY <2>2, <4>1
      <3> QED
        BY <3>1, <3>2, <1>16 DEF ServeStep
    <2>4. \A x \in Keys : ~Worked(x)
      BY <2>2 DEF Worked
    <2>5. UNCHANGED <<meta, body, isize>> /\ \A x \in Keys : Contains(order', x) <=> Contains(order, x)
      BY <2>1, ServeFacts
    <2> QED
      BY <2>1, <2>3, <2>4, <2>5, IndexFrame DEF Scanned
  <1>17. ASSUME Crash
        PROVE  IndexInv'
    <2>1. /\ order' = <<>> /\ pc'[Scanner] = "dead"
          /\ \A f \in Fetches : pc'[f] \in Idle
      BY <1>17 DEF Crash, Procs, Idle
    <2> QED
      BY <2>1, EmptyContains DEF IndexInv, IndexAt, Scanned, Idle
  <1>18. ASSUME Restart \/ \E k \in Keys : Damage(k)
        PROVE  IndexInv'
    <2>1. /\ order = <<>> /\ order' = <<>> /\ pc'[Scanner] \in {"dead", "scan"}
          /\ \A f \in Fetches : pc'[f] = pc[f] /\ pc[f] \in Idle
      BY <1>18 DEF Restart, Damage, IndexInv, IInv, DownInv, Running
    <2> QED
      BY <2>1, EmptyContains DEF IndexInv, IndexAt, Scanned, Idle
  <1>19. ASSUME NEW k \in Keys, ScanDrop(k)
        PROVE  IndexInv'
    <2>1. /\ pc[Scanner] = "scan" /\ ~Whole(k) /\ UNCHANGED <<order, isize, pc, key>>
          /\ \A x \in Keys \ {k} : meta'[x] = meta[x] /\ body'[x] = body[x]
          /\ meta'[k] = None /\ body'[k] = None
      BY <1>19 DEF ScanDrop
    <2>2. Scanner \in Procs /\ Alone(Scanner) /\ \A x \in Keys : ~Worked(x)
      BY <2>1, OneHolder DEF Alone, Worked, Procs
    <2>3. ~Contains(order, k)
      BY <2>1, <2>2 DEF IndexAt
    <2>4. IndexAt(k)'
      BY <2>1, <2>3 DEF IndexAt
    <2> QED
      BY <2>1, <2>2, <2>4, IndexChange DEF Scanned
  <1>20. ASSUME NEW k \in Keys, ScanIndex(k)
        PROVE  IndexInv'
    <2>1. /\ pc[Scanner] = "scan" /\ Whole(k) /\ ~Contains(order, k)
          /\ UNCHANGED <<meta, body, pc, key>>
          /\ PushFront(k, body[k].len + MetaSize)
      BY <1>20 DEF ScanIndex
    <2>2. Scanner \in Procs /\ Alone(Scanner) /\ \A x \in Keys : ~Worked(x)
      BY <2>1, OneHolder DEF Alone, Worked, Procs
    <2>3. /\ isize'[k] = body[k].len + MetaSize
          /\ \A x \in Keys \ {k} : isize'[x] = isize[x]
          /\ \A x \in Keys : Contains(order', x) <=> Contains(order, x) \/ x = k
      BY <2>1, PushFrontFacts
    <2>4. IndexAt(k)'
      BY <2>1, <2>3 DEF IndexAt, Whole
    <2> QED
      BY <2>1, <2>2, <2>3, <2>4, IndexChange DEF Scanned
  <1>21. ASSUME ScanDone
        PROVE  IndexInv'
    <2>1. /\ pc[Scanner] = "scan" /\ pc' = [pc EXCEPT ![Scanner] = "evict"]
          /\ UNCHANGED <<meta, body, order, isize, key>>
          /\ \A k \in Keys : ~Contains(order, k) => meta[k] = None /\ body[k] = None
      BY <1>21 DEF ScanDone
    <2>2. \A x \in Keys : ~Worked(x)
      BY <2>1, OneHolder DEF Worked, Procs
    <2>3. \A x \in Keys : IndexAt(x)'
      BY <2>1, <2>2 DEF IndexAt, Whole
    <2>4. \A f \in Fetches : pc'[f] = pc[f]
      BY <2>1
    <2> QED
      BY <2>1, <2>3, <2>4 DEF IndexInv, Procs
  <1> HIDE <1>0 DEF Goto, At, dirVars, indexVars, countVars, fetchVars, envVars,
     callVars, Midway, Holding
  <1> QED
    <2>1. ASSUME NEW p \in Procs, LockedStep(p) PROVE IndexInv'
      BY <2>1, <1>1, <1>2, <1>3, <1>4, <1>5, <1>6, <1>7, <1>8 DEF LockedStep
    <2>2. ASSUME NEW f \in Fetches, FetchStep(f) PROVE IndexInv'
      <3>1. ASSUME NEW n \in BodySizes, Respond(f, n) PROVE IndexInv'
        BY <3>1, <1>11, SizeAssumption
      <3>2. ASSUME NEW n \in 1..size[f], Read(f, n) PROVE IndexInv'
        <4>1. n \in Nat
          BY DEF IInv, TypeOK
        <4> QED
          BY <3>2, <4>1, <1>11
      <3> QED
        BY <2>2, <3>1, <3>2, <1>9, <1>11, <1>12 DEF FetchStep
    <2>3. ASSUME NEW f \in Fetches, NEW k \in Keys, RequestStep(f, k) PROVE IndexInv'
      BY <2>3, <1>10, <1>13 DEF RequestStep
    <2>4. ASSUME ScanStep PROVE IndexInv'
      BY <2>4, <1>19, <1>20, <1>21 DEF ScanStep
    <2> QED
      BY <2>1, <2>2, <2>3, <2>4, <1>14, <1>15, <1>16, <1>17, <1>18 DEF Next

\* What a step may do to the index.
LEMMA IndexSteps ==
    ASSUME IInv, IndexInv, Next
    PROVE  \/ \E k \in Keys : Unindex(k)
           \/ \E k \in Keys, n \in Nat : ~Contains(order, k) /\ PushFront(k, n)
           \/ \E r \in Readers, k \in Keys : ServeFrom(r, k)
           \/ order' = <<>> /\ total' = 0
           \/ UNCHANGED indexVars
  <1> DEFINE Goal == \/ \E k \in Keys : Unindex(k)
                     \/ \E k \in Keys, n \in Nat : ~Contains(order, k) /\ PushFront(k, n)
                     \/ \E r \in Readers, k \in Keys : ServeFrom(r, k)
                     \/ order' = <<>> /\ total' = 0
                     \/ UNCHANGED indexVars
  <1>1. ASSUME NEW p \in Procs, LockedStep(p) PROVE Goal
    <2>1. CASE EvictMeta(p) \/ EvictDone(p)
      BY <2>1 DEF EvictMeta, EvictDone
    <2>2. CASE EvictBody(p)
      <3>1. order # <<>> /\ order \in Seq(Keys)
        BY <2>2 DEF EvictBody, At, IInv, StepInv, TypeOK
      <3>2. Last(order) \in Keys /\ Unindex(Last(order))
        BY <2>2, <3>1, LastFacts DEF EvictBody
      <3> QED
        BY <3>2
    <2>3. CASE p \in Fetches /\ (DropBody(p) \/ CommitDropBody(p))
      <3>1. key[p] \in Keys /\ Unindex(key[p])
        BY <2>3 DEF DropBody, CommitDropBody, At, IInv, KeyInv
      <3> QED
        BY <3>1
    <2>4. CASE p \in Fetches /\ PutMeta(p)
      <3>1. key[p] \in Keys /\ ~Contains(order, key[p]) /\ written[p] + MetaSize \in Nat
        BY <2>4, SizeAssumption DEF PutMeta, At, IInv, KeyInv, IndexInv, TypeOK
      <3> QED
        BY <2>4, <3>1 DEF PutMeta
    <2>5. CASE p \in Fetches /\ (PutBody(p) \/ PutBodyError(p) \/ PutMetaError(p))
      BY <2>5 DEF PutBody, PutBodyError, PutMetaError
    <2> QED
      BY <1>1, <2>1, <2>2, <2>3, <2>4, <2>5 DEF LockedStep
  <1>2. ASSUME NEW f \in Fetches, FetchStep(f) PROVE Goal
    BY <1>2 DEF FetchStep, Respond, Decline, Read, Undo, Write, WriteError, Abort,
       Release, Unlink, EndOfBody, CommitDropMeta, Discard, Settle, ReadAgain, CloseBody,
       EndRefresh
  <1>3. ASSUME NEW f \in Fetches, NEW k \in Keys, RequestStep(f, k) PROVE Goal
    BY <1>3 DEF RequestStep, Miss, MissDrop
  <1>4. ASSUME NEW r \in Readers, NEW k \in Keys, ServeStep(r, k) PROVE Goal
    BY <1>4 DEF ServeStep, Serve, ServeAndRefresh
  <1>5. ASSUME ScanStep PROVE Goal
    <2>1. ASSUME NEW k \in Keys, ScanIndex(k) PROVE Goal
      <3>1. body[k].len + MetaSize \in Nat
        BY <2>1, SizeAssumption DEF ScanIndex, Whole, IInv, TypeOK, BodyFile
      <3> QED
        BY <2>1, <3>1 DEF ScanIndex
    <2>2. ASSUME NEW k \in Keys, ScanDrop(k) PROVE Goal
      BY <2>2 DEF ScanDrop
    <2>3. CASE ScanDone
      BY <2>3 DEF ScanDone
    <2> QED
      BY <1>5, <2>1, <2>2, <2>3 DEF ScanStep
  <1>6. CASE \/ Crash \/ Restart
             \/ \E k \in Keys : Damage(k)
             \/ \E r \in Readers : CloseResponse(r)
             \/ \E f \in Fetches, p \in {"stale", "expired"} : Age(f, p)
    BY <1>6 DEF Crash, Restart, Damage, CloseResponse, Age
  <1> QED
    BY <1>1, <1>2, <1>3, <1>4, <1>5, <1>6 DEF Next

\* No key is ever listed twice.
LEMMA OrderStep == ASSUME IInv, IndexInv, OrderInv, Next PROVE OrderInv'
  <1>1. CASE \E k \in Keys : Unindex(k)
    BY <1>1, UnindexFacts
  <1>2. CASE \E k \in Keys, n \in Nat : ~Contains(order, k) /\ PushFront(k, n)
    BY <1>2, PushFrontFacts
  <1>3. CASE \E r \in Readers, k \in Keys : ServeFrom(r, k)
    BY <1>3, ServeFacts
  <1>4. CASE order' = <<>>
    BY <1>4 DEF OrderInv, IsInjective
  <1>5. CASE UNCHANGED indexVars
    BY <1>5 DEF OrderInv, indexVars
  <1> QED
    BY <1>1, <1>2, <1>3, <1>4, <1>5, IndexSteps

\* total follows the index over every step.
LEMMA TotalStep ==
    ASSUME IInv, IInv', IndexInv, OrderInv, TotalInv, IsFiniteSet(Keys), Next
    PROVE  TotalInv'
  <1>1. \A k \in Keys : /\ isize[k] \in Nat /\ isize'[k] \in Nat
                        /\ Listed[k] \in Int /\ Listed'[k] \in Int
    <2>1. \A k \in Keys : isize[k] \in Nat /\ isize'[k] \in Nat
      BY DEF IInv, TypeOK
    <2> QED
      BY <2>1 DEF Listed
  <1>2. CASE \E k \in Keys : Unindex(k)
    <2>1. PICK k \in Keys : Unindex(k)
      BY <1>2
    <2>2. /\ \A x \in Keys : Contains(order', x) <=> Contains(order, x) /\ x # k
          /\ UNCHANGED isize
          /\ total' = IF Contains(order, k) THEN total - isize[k] ELSE total
      BY <2>1, UnindexFacts DEF Unindex
    <2>3. /\ \A x \in Keys \ {k} : Listed[x] = Listed'[x]
          /\ Listed'[k] = 0 /\ total' = total - Listed[k]
      BY <1>1, <2>2 DEF Listed, IInv, TypeOK
    <2>4. SumFunctionOnSet(Listed', Keys)
             = SumFunctionOnSet(Listed, Keys) - Listed[k] + Listed'[k]
      <3>1. /\ \A x \in Keys : Listed[x] \in Int /\ Listed'[x] \in Int
            /\ \A x \in Keys \ {k} : Listed[x] = Listed'[x]
        BY <1>1, <2>3
      <3> QED
        BY <3>1, SumChange
    <2>5. SumFunctionOnSet(Listed, Keys) \in Int
      BY <1>1, SumType
    <2> QED
      BY <1>1, <2>3, <2>4, <2>5 DEF TotalInv
  <1>3. CASE \E k \in Keys, n \in Nat : ~Contains(order, k) /\ PushFront(k, n)
    <2>1. PICK k \in Keys, n \in Nat : ~Contains(order, k) /\ PushFront(k, n)
      BY <1>3
    <2>2. /\ \A x \in Keys : Contains(order', x) <=> Contains(order, x) \/ x = k
          /\ isize'[k] = n /\ \A x \in Keys \ {k} : isize'[x] = isize[x]
          /\ total' = total + n
      BY <2>1, PushFrontFacts DEF PushFront
    <2>3. /\ \A x \in Keys \ {k} : Listed[x] = Listed'[x]
          /\ Listed[k] = 0 /\ Listed'[k] = n
      BY <2>1, <2>2 DEF Listed
    <2>4. SumFunctionOnSet(Listed', Keys)
             = SumFunctionOnSet(Listed, Keys) - Listed[k] + Listed'[k]
      <3>1. /\ \A x \in Keys : Listed[x] \in Int /\ Listed'[x] \in Int
            /\ \A x \in Keys \ {k} : Listed[x] = Listed'[x]
        BY <1>1, <2>3
      <3> QED
        BY <3>1, SumChange
    <2>5. SumFunctionOnSet(Listed, Keys) \in Int
      BY <1>1, SumType
    <2> QED
      BY <1>1, <2>2, <2>3, <2>4, <2>5 DEF TotalInv
  <1>4. CASE \E r \in Readers, k \in Keys : ServeFrom(r, k)
    <2>1. /\ UNCHANGED <<isize, total>>
          /\ \A x \in Keys : Contains(order', x) <=> Contains(order, x)
      BY <1>4, ServeFacts
    <2>2. Listed' = Listed
      BY <2>1 DEF Listed
    <2> QED
      BY <2>1, <2>2 DEF TotalInv
  <1>5. CASE order' = <<>> /\ total' = 0
    <2>1. \A k \in Keys : Listed'[k] = 0
      BY <1>5, EmptyContains DEF Listed
    <2> QED
      BY <1>5, <2>1, SumZero DEF TotalInv
  <1>6. CASE UNCHANGED indexVars
    BY <1>6 DEF TotalInv, Listed, indexVars
  <1> QED
    BY <1>2, <1>3, <1>4, <1>5, <1>6, IndexSteps

\* Nothing listed takes no space.
LEMMA EmptyTotal ==
    ASSUME TotalInv, IsFiniteSet(Keys), order = <<>> PROVE total = 0
  <1>1. \A k \in Keys : Listed[k] = 0
    BY EmptyContains DEF Listed
  <1> QED
    BY <1>1, SumZero DEF TotalInv

\* What is above the limit is evicted before the mutex is given back.
LEMMA LimitStep ==
    ASSUME IInv, IInv', TotalInv, LimitInv, IsFiniteSet(Keys), Next
    PROVE  LimitInv'
  <1> DEFINE Calm == \A p \in Procs : pc[p] \notin {"evict", "evictBody"}
  <1>0. /\ pc \in [Procs -> PCs] /\ Scanner \notin Fetches /\ Scanner \in Procs
        /\ total \in Int /\ \A f \in Fetches : f \in Procs
        /\ \A k \in Keys : isize[k] \in Nat
    BY NameAssumption DEF IInv, TypeOK, Procs
  <1> SUFFICES ASSUME Running', Calm' PROVE total' <= MaxBytes
    BY DEF LimitInv
  <1>a. ASSUME Running, Calm, total' \in Int, total' <= total PROVE total' <= MaxBytes
    BY <1>a, <1>0, SizeAssumption DEF LimitInv
  <1> USE <1>0 DEF Goto, At, Running, indexVars
  <1>1. ASSUME NEW p \in Procs, LockedStep(p) PROVE total' <= MaxBytes
    <2>1. CASE EvictMeta(p) \/ EvictBody(p)
      BY <2>1 DEF EvictMeta, EvictBody
    <2>2. CASE EvictDone(p)
      BY <2>2, EmptyTotal, SizeAssumption DEF EvictDone
    <2>3. CASE p \in Fetches /\ PutMeta(p)
      BY <2>3 DEF PutMeta
    <2>4. CASE p \in Fetches /\ (DropBody(p) \/ CommitDropBody(p))
      <3>1. /\ pc[p] \in {"dropBody", "rmBody"} /\ key[p] \in Keys /\ Unindex(key[p])
            /\ \E l \in {"fetch", "putBody"} : pc' = [pc EXCEPT ![p] = l]
        BY <2>4 DEF DropBody, CommitDropBody, IInv, KeyInv
      <3>2. Running /\ Calm
        BY <2>4, <3>1
      <3>3. total' = total \/ total' = total - isize[key[p]]
        BY <3>1 DEF Unindex
      <3> QED
        BY <1>a, <3>1, <3>2, <3>3
    <2>5. CASE p \in Fetches /\ (PutBody(p) \/ PutBodyError(p) \/ PutMetaError(p))
      <3>1. /\ pc[p] \in {"putBody", "putMeta"} /\ UNCHANGED total
            /\ \E l \in {"putMeta", "failing"} : pc' = [pc EXCEPT ![p] = l]
        BY <2>5 DEF PutBody, PutBodyError, PutMetaError
      <3>2. Running /\ Calm
        BY <2>5, <3>1
      <3> QED
        BY <1>a, <3>1, <3>2
    <2> QED
      BY <1>1, <2>1, <2>2, <2>3, <2>4, <2>5 DEF LockedStep
  <1>2. ASSUME NEW f \in Fetches, FetchStep(f) PROVE total' <= MaxBytes
    <2>1. /\ UNCHANGED total /\ pc[f] \notin {"evict", "evictBody"}
          /\ \A p \in Procs \ {f} : pc'[p] = pc[p]
      BY <1>2 DEF FetchStep, Respond, Decline, Read, Undo, Write, WriteError, Abort,
         Release, Unlink, EndOfBody, CommitDropMeta, Discard, Settle, ReadAgain,
         CloseBody, EndRefresh, GiveBack
    <2>2. Running /\ Calm
      BY <2>1
    <2> QED
      BY <1>a, <2>1, <2>2
  <1>3. ASSUME NEW f \in Fetches, NEW k \in Keys, RequestStep(f, k) PROVE total' <= MaxBytes
    <2>1. /\ UNCHANGED total /\ pc[f] = "unused"
          /\ \A p \in Procs \ {f} : pc'[p] = pc[p]
      BY <1>3 DEF RequestStep, Miss, MissDrop, StartFetch
    <2>2. Running /\ Calm
      BY <2>1
    <2> QED
      BY <1>a, <2>1, <2>2
  <1>4. ASSUME NEW r \in Readers, NEW k \in Keys, ServeStep(r, k) PROVE total' <= MaxBytes
    <2>1. UNCHANGED total /\ Running /\ lock = None
      BY <1>4 DEF ServeStep, Serve, ServeAndRefresh, ServeFrom
    <2>2. Calm
      BY <2>1, FreeMutex DEF Holding
    <2> QED
      BY <1>a, <2>1, <2>2
  <1>5. CASE ScanStep \/ Crash \/ Restart \/ \E k \in Keys : Damage(k)
    BY <1>5 DEF ScanStep, ScanDone, ScanDrop, ScanIndex, Crash, Restart, Damage
  <1>6. CASE \/ \E r \in Readers : CloseResponse(r)
             \/ \E f \in Fetches, p \in {"stale", "expired"} : Age(f, p)
    <2>1. UNCHANGED <<total, pc>>
      BY <1>6 DEF CloseResponse, Age
    <2> QED
      BY <1>a, <2>1
  <1> QED
    BY <1>1, <1>2, <1>3, <1>4, <1>5, <1>6 DEF Next

\* A sequence without repetitions is as long as it has elements.
LEMMA OnceEach ==
    ASSUME NEW S, NEW s \in Seq(S), IsInjective(s)
    PROVE  Cardinality(ToSet(s)) = Len(s)
  <1> DEFINE n == Len(s)
             f == [i \in 1..n |-> s[i]]
  <1>1. n \in Nat /\ DOMAIN s = 1..n
    OBVIOUS
  <1>2. ToSet(s) = {s[i] : i \in 1..n}
    BY <1>1 DEF ToSet
  <1> HIDE DEF n
  <1>3. f \in [1..n -> ToSet(s)]
    BY <1>2
  <1>4. \A i, j \in 1..n : f[i] = f[j] => i = j
    BY <1>1 DEF IsInjective
  <1>5. \A x \in ToSet(s) : \E i \in 1..n : f[i] = x
    BY <1>2
  <1>6. f \in Bijection(1..n, ToSet(s))
    BY <1>3, <1>4, <1>5 DEF Bijection, Injection, Surjection, IsInjective
  <1>7. ExistsBijection(1..n, ToSet(s))
    BY <1>6 DEF ExistsBijection
  <1>8. Cardinality(ToSet(s)) = n
    BY <1>1, <1>7, FS_CountingElements
  <1> QED
    BY <1>8 DEF n

LEMMA DirectoryListed ==
    ASSUME IInv, IndexInv, OrderInv, TotalInv, LimitInv, IsFiniteSet(Keys)
    PROVE  IndexMatchesDisk
  <1> SUFFICES ASSUME Running, lock = None
               PROVE  /\ ToSet(order) = {k \in Keys : meta[k] # None \/ body[k] # None}
                      /\ Cardinality(ToSet(order)) = Len(order)
                      /\ total = SumFunctionOnSet([k \in Keys |-> DiskBytes(k)], Keys)
                      /\ total <= MaxBytes
    BY DEF IndexMatchesDisk
  <1>1. \A p \in Procs : pc[p] \notin Holding
    BY FreeMutex
  <1>2. \A k \in Keys : IndexAt(k)
    BY <1>1 DEF IndexInv, Worked, Holding, Procs
  <1>3. \A k \in Keys : IF Contains(order, k)
                        THEN Whole(k) /\ isize[k] = body[k].len + MetaSize
                        ELSE meta[k] = None /\ body[k] = None
    BY <1>2 DEF IndexAt, Scanned, Running
  <1>4. order \in Seq(Keys) /\ \A k \in Keys : isize[k] \in Int
    BY DEF IInv, TypeOK
  <1>5. ToSet(order) = {k \in Keys : Contains(order, k)}
    BY <1>4 DEF ToSet, Contains
  <1>6. ToSet(order) = {k \in Keys : meta[k] # None \/ body[k] # None}
    BY <1>3, <1>5 DEF Whole
  <1>7. Cardinality(ToSet(order)) = Len(order)
    BY <1>4, OnceEach DEF OrderInv
  <1>8. \A k \in Keys : Listed[k] = DiskBytes(k)
    BY <1>3 DEF Listed, DiskBytes, Whole
  <1>9. Listed = [k \in Keys |-> DiskBytes(k)]
    BY <1>8 DEF Listed
  <1>10. total <= MaxBytes
    BY <1>1 DEF LimitInv, Holding
  <1> QED
    BY <1>6, <1>7, <1>9, <1>10 DEF TotalInv

LEMMA ShelfInit ==
    ASSUME Init, IsFiniteSet(Keys)
    PROVE  IndexInv /\ OrderInv /\ TotalInv /\ LimitInv
  <1>1. order = <<>> /\ total = 0 /\ pc[Scanner] = "running" /\ Scanner \in Procs
    BY DEF Init, Procs
  <1>2. OrderInv
    BY <1>1 DEF OrderInv, IsInjective
  <1>3. \A k \in Keys : Listed[k] = 0
    BY <1>1, EmptyContains DEF Listed
  <1>4. TotalInv
    BY <1>1, <1>3, SumZero DEF TotalInv
  <1>5. LimitInv
    BY <1>1, SizeAssumption DEF LimitInv
  <1>6. IndexInv
    BY <1>1, EmptyContains, NameAssumption DEF IndexInv, IndexAt, Init, At, Procs
  <1> QED
    BY <1>2, <1>4, <1>5, <1>6

LEMMA ShelfStutter ==
    ASSUME UNCHANGED vars, IndexInv, OrderInv, TotalInv, LimitInv
    PROVE  IndexInv' /\ OrderInv' /\ TotalInv' /\ LimitInv'
  <1>1. UNCHANGED <<meta, body, order, isize, total, pc, key>>
    BY DEF vars, dirVars, indexVars, callVars, fetchVars
  <1>2. \A k \in Keys : (Worked(k)' <=> Worked(k)) /\ (IndexAt(k)' <=> IndexAt(k))
    BY <1>1 DEF Worked, IndexAt, Whole, Scanned
  <1>3. IndexInv'
    BY <1>1, <1>2 DEF IndexInv, At
  <1>4. Listed' = Listed
    BY <1>1 DEF Listed
  <1> QED
    BY <1>1, <1>3, <1>4 DEF OrderInv, TotalInv, LimitInv, Running

\* Whenever no one holds the mutex, the index is the directory: it lists the
\* keys that have files, each once, total is the space they take, and that is
\* within max_size_mib.  This holds over every order of commits, evictions,
\* drops and scans, for any number of keys and downloads.
THEOREM IndexCorrect == ASSUME IsFiniteSet(Keys) PROVE Spec => []IndexMatchesDisk
  <1> DEFINE Shelf == IndexInv /\ OrderInv /\ TotalInv /\ LimitInv
  <1>1. Init => Shelf
    BY ShelfInit
  <1>2. IInv /\ IInv' /\ Shelf /\ [Next]_vars => Shelf'
    <2>1. ASSUME IInv, IInv', Shelf, Next PROVE Shelf'
      BY <2>1, IndexStep, OrderStep, TotalStep, LimitStep
    <2>2. ASSUME Shelf, UNCHANGED vars PROVE Shelf'
      BY <2>2, ShelfStutter
    <2> QED
      BY <2>1, <2>2
  <1>3. IInv /\ Shelf => IndexMatchesDisk
    BY DirectoryListed
  <1> HIDE DEF Shelf
  <1> QED
    BY <1>1, <1>2, <1>3, Invariance, PTL DEF Spec

-----------------------------------------------------------------------------
(***************************************************************************)
(* The store implements AbstractCache.                                      *)
(***************************************************************************)
\* A body is never longer than what the origin sent, and was sent to its end.
BodyInv ==
    \A k \in Keys : body[k] # None =>
        body[k].ver \in delivered /\ body[k].len <= size[body[k].ver]

LEMMA BodyFrame ==
    ASSUME BodyInv, NEW x \in Keys,
           \A k \in Keys \ {x} : body'[k] = body[k],
           body'[x] = body[x] \/ body'[x] = None,
           \A f \in delivered : f \in delivered' /\ size'[f] = size[f]
    PROVE  BodyInv'
  BY DEF BodyInv

\* Bodies that stay are not touched, and the lengths of delivered ones neither.
LEMMA BodyQuiet ==
    ASSUME BodyInv, UNCHANGED <<body, size>>, delivered \subseteq delivered'
    PROVE  BodyInv'
  BY DEF BodyInv

LEMMA BodyStep == ASSUME IInv, BodyInv, Next PROVE BodyInv'
  <1>0. /\ body \in [Keys -> BodyFile \cup {None}] /\ size \in [Fetches -> Nat]
        /\ \A f \in Fetches : pc[f] # "unused" => key[f] \in Keys
    BY DEF IInv, TypeOK, KeyInv
  <1> USE <1>0 DEF At, dirVars, indexVars, countVars, fetchVars, envVars, callVars
  <1>1. ASSUME NEW p \in Procs, LockedStep(p) PROVE BodyInv'
    <2>1. CASE EvictMeta(p) \/ EvictDone(p)
      BY <2>1, BodyQuiet DEF EvictMeta, EvictDone
    <2>2. CASE EvictBody(p)
      <3>1. order # <<>> /\ order \in Seq(Keys)
        BY <2>2 DEF EvictBody, IInv, StepInv, TypeOK
      <3>2. PICK x \in Keys : x = Last(order)
        BY <3>1, LastFacts
      <3>3. body' = [body EXCEPT ![x] = None] /\ UNCHANGED <<size, delivered>>
        BY <2>2, <3>2 DEF EvictBody
      <3> QED
        BY <3>3, BodyFrame
    <2>3. CASE p \in Fetches /\ (DropBody(p) \/ CommitDropBody(p) \/ PutMetaError(p))
      <3>1. PICK x \in Keys : x = key[p]
        BY <2>3 DEF DropBody, CommitDropBody, PutMetaError
      <3>2. body' = [body EXCEPT ![x] = None] /\ UNCHANGED <<size, delivered>>
        BY <2>3, <3>1 DEF DropBody, CommitDropBody, PutMetaError
      <3> QED
        BY <3>2, BodyFrame
    <2>4. CASE p \in Fetches /\ PutBody(p)
      <3>1. /\ body' = [body EXCEPT ![key[p]] = [ver |-> p, len |-> size[p]]]
            /\ UNCHANGED <<size, delivered>> /\ p \in delivered
        BY <2>4 DEF PutBody, IInv, CaptureInv
      <3>2. size[p] <= size[p]
        BY <2>4
      <3> QED
        BY <2>4, <3>1, <3>2 DEF BodyInv
    <2>5. CASE p \in Fetches /\ (PutBodyError(p) \/ PutMeta(p))
      BY <2>5, BodyQuiet DEF PutBodyError, PutMeta
    <2> QED
      BY <1>1, <2>1, <2>2, <2>3, <2>4, <2>5 DEF LockedStep
  <1>2. ASSUME NEW f \in Fetches, FetchStep(f) PROVE BodyInv'
    <2>1. CASE \E n \in BodySizes : Respond(f, n)
      <3>1. f \notin delivered
        BY <2>1 DEF Respond, IInv, DeliveredInv
      <3>2. UNCHANGED <<body, delivered>> /\ \A g \in delivered : size'[g] = size[g]
        BY <2>1, <3>1 DEF Respond, IInv, TypeOK
      <3> QED
        BY <3>2 DEF BodyInv
    <2>2. CASE ~\E n \in BodySizes : Respond(f, n)
      <3>1. UNCHANGED <<body, size>> /\ delivered \subseteq delivered'
        BY <1>2, <2>2 DEF FetchStep, Decline, Read, Undo, Write, WriteError, Abort,
           Release, Unlink, EndOfBody, CommitDropMeta, Discard, Settle, ReadAgain,
           CloseBody, EndRefresh
      <3> QED
        BY <3>1, BodyQuiet
    <2> QED
      BY <2>1, <2>2
  <1>3. ASSUME NEW f \in Fetches, NEW k \in Keys, RequestStep(f, k) PROVE BodyInv'
    BY <1>3, BodyQuiet DEF RequestStep, Miss, MissDrop
  <1>4. ASSUME NEW r \in Readers, NEW k \in Keys, ServeStep(r, k) PROVE BodyInv'
    BY <1>4, BodyQuiet DEF ServeStep, Serve, ServeAndRefresh, ServeFrom
  <1>5. CASE \/ Crash \/ Restart \/ ScanDone \/ \E k \in Keys : ScanIndex(k)
             \/ \E r \in Readers : CloseResponse(r)
             \/ \E f \in Fetches, p \in {"stale", "expired"} : Age(f, p)
    BY <1>5, BodyQuiet DEF Crash, Restart, ScanDone, ScanIndex, CloseResponse, Age
  <1>6. ASSUME NEW k \in Keys, ScanDrop(k) PROVE BodyInv'
    BY <1>6, BodyFrame DEF ScanDrop
  <1>7. ASSUME NEW k \in Keys, Damage(k) PROVE BodyInv'
    <2>1. CASE UNCHANGED body
      BY <1>7, <2>1, BodyQuiet DEF Damage
    <2>2. CASE body[k] # None /\ body[k].len > 0 /\ body' = [body EXCEPT ![k].len = @ - 1]
      <3>1. UNCHANGED <<size, delivered>>
        BY <1>7 DEF Damage
      <3>2. body[k] \in BodyFile /\ body[k].ver \in Fetches /\ body[k].len \in Nat
        BY <2>2 DEF BodyFile
      <3>3. body'[k].ver = body[k].ver /\ body'[k].len = body[k].len - 1
        BY <2>2, <3>2 DEF BodyFile
      <3>4. \A x \in Keys \ {k} : body'[x] = body[x]
        BY <2>2
      <3>5. size[body[k].ver] \in Nat
        BY <3>2
      <3> QED
        BY <2>2, <3>1, <3>2, <3>3, <3>4, <3>5 DEF BodyInv
    <2> QED
      BY <1>7, <2>1, <2>2 DEF Damage
  <1> HIDE <1>0 DEF At, dirVars, indexVars, countVars, fetchVars, envVars, callVars
  <1> QED
    BY <1>1, <1>2, <1>3, <1>4, <1>5, <1>6, <1>7 DEF Next, ScanStep

\* The state of AbstractCache.
entries == [k \in Keys |-> Entry(k)]
serving == [r \in Readers |-> IF resp[r] = None THEN None ELSE resp[r].meta.ver]

\* One entry goes, or stays away.
LEMMA LoseMaps ==
    ASSUME NEW x \in Keys, ~Complete(x)', UNCHANGED <<delivered, resp>>,
           \A k \in Keys \ {x} : meta'[k] = meta[k] /\ body'[k] = body[k]
    PROVE  Cache!Next
  <1>1. \A k \in Keys \ {x} : Entry(k)' = Entry(k)
    BY DEF Entry, Complete
  <1>2. Entry(x)' = None
    BY DEF Entry
  <1>3. entries' = [entries EXCEPT ![x] = None] /\ serving' = serving
    BY <1>1, <1>2 DEF entries, serving
  <1>4. Cache!Lose(x)
    BY <1>3 DEF Cache!Lose, entries, serving
  <1> QED
    BY <1>4 DEF Cache!Next

\* Nothing that AbstractCache sees changes.
LEMMA SameMaps ==
    ASSUME UNCHANGED <<meta, body, delivered, resp>>
    PROVE  UNCHANGED Cache!absVars
  BY DEF Cache!absVars, Entry, Complete

LEMMA ServeMaps ==
    ASSUME IInv, IInv', NEW r \in Readers, NEW k \in Keys, ServeFrom(r, k)
    PROVE  Cache!Next
  <1>1. /\ UNCHANGED <<meta, body, delivered>> /\ resp[r] = None /\ Usable(k)
        /\ resp' = [resp EXCEPT ![r] = Answer(k)]
        /\ resp \in [Readers -> Response \cup {None}]
    BY DEF ServeFrom, dirVars, envVars, IInv, TypeOK
  <1>2. Entry(k) = meta[k].ver /\ meta[k] \in MetaFile /\ body[k] \in BodyFile
    BY <1>1 DEF Entry, Complete, Usable, Intact, IInv, TypeOK
  <1>3. Entry(k) # None
    BY <1>2, NameAssumption DEF MetaFile, Procs
  <1>4. Answer(k) \in Response /\ Answer(k).meta.ver = Entry(k)
    BY <1>2 DEF Answer, Response
  <1>5. entries' = entries
    BY <1>1 DEF entries, Entry, Complete
  <1>6. resp'[r] # None /\ resp'[r].meta.ver = entries[k]
    BY <1>1, <1>4, NameAssumption DEF entries
  <1>7. serving[r] = None /\ serving' = [serving EXCEPT ![r] = entries[k]]
    BY <1>1, <1>6 DEF serving
  <1>8. Cache!Serve(r, k)
    BY <1>1, <1>3, <1>5, <1>7 DEF Cache!Serve, entries, serving
  <1> QED
    BY <1>8 DEF Cache!Next

\* The rename of the metadata is what makes an entry.
LEMMA StoreMaps ==
    ASSUME IInv, NEW f \in Fetches, PutMeta(f)
    PROVE  Cache!Next
  <1>1. PICK x \in Keys : x = key[f]
    BY DEF PutMeta, At, IInv, KeyInv
  <1>2. /\ pc[f] = "putMeta" /\ meta[x] = None /\ f \in delivered
        /\ body[x] = [ver |-> f, len |-> size[f]] /\ written[f] = size[f]
        /\ meta' = [meta EXCEPT ![x] = [ver |-> f, size |-> size[f], readable |-> TRUE]]
        /\ UNCHANGED <<body, delivered, resp>>
    BY <1>1 DEF PutMeta, At, IInv, StepInv, CaptureInv, callVars, envVars
  <1>3. size[f] \in Nat /\ meta \in [Keys -> MetaFile \cup {None}]
    BY DEF IInv, TypeOK
  <1>4. /\ [ver |-> f, size |-> size[f], readable |-> TRUE] # None
        /\ [ver |-> f, len |-> size[f]] # None
    <2>1. /\ [ver |-> f, size |-> size[f], readable |-> TRUE] \in MetaFile
          /\ [ver |-> f, len |-> size[f]] \in BodyFile
      BY <1>3 DEF MetaFile, BodyFile
    <2> QED
      BY <2>1, NameAssumption
  <1>5. meta'[x] = [ver |-> f, size |-> size[f], readable |-> TRUE]
    BY <1>2, <1>3
  <1>6. Entry(x)' = f
    BY <1>2, <1>4, <1>5 DEF Entry, Complete
  <1>7. Entry(x) = None
    BY <1>2 DEF Entry, Complete
  <1>8. \A k \in Keys \ {x} : Entry(k)' = Entry(k)
    BY <1>2 DEF Entry, Complete
  <1>9. /\ entries[x] = None /\ entries' = [entries EXCEPT ![x] = f]
        /\ serving' = serving
    BY <1>2, <1>6, <1>7, <1>8 DEF entries, serving
  <1>10. Cache!Store(x, f)
    BY <1>2, <1>9 DEF Cache!Store, entries, serving
  <1> QED
    BY <1>10 DEF Cache!Next

\* Damage can make an entry unusable, and never makes one.
LEMMA DamageMaps ==
    ASSUME IInv, BodyInv, NEW k \in Keys, Damage(k)
    PROVE  Cache!Next
  <1>1. /\ UNCHANGED <<delivered, resp>>
        /\ meta \in [Keys -> MetaFile \cup {None}] /\ body \in [Keys -> BodyFile \cup {None}]
        /\ size \in [Fetches -> Nat]
    BY DEF Damage, callVars, envVars, IInv, TypeOK
  <1>2. CASE meta[k] # None /\ meta' = [meta EXCEPT ![k].readable = FALSE] /\ UNCHANGED body
    <2>1. meta[k] \in MetaFile /\ meta'[k].readable = FALSE
      BY <1>1, <1>2 DEF MetaFile
    <2>2. \A x \in Keys \ {k} : meta'[x] = meta[x]
      BY <1>2
    <2> QED
      BY <1>1, <1>2, <2>1, <2>2, LoseMaps DEF Complete
  <1>3. CASE /\ body[k] # None /\ body[k].len > 0
             /\ body' = [body EXCEPT ![k].len = @ - 1] /\ UNCHANGED meta
    <2>1. body[k] \in BodyFile /\ body[k].ver \in Fetches /\ body[k].len \in Nat
      BY <1>1, <1>3 DEF BodyFile
    <2>2. body'[k].len = body[k].len - 1
      BY <1>1, <1>3, <2>1 DEF BodyFile
    <2>3. body[k].len <= size[body[k].ver] /\ size[body[k].ver] \in Nat
      BY <1>1, <1>3, <2>1 DEF BodyInv
    <2>4. meta[k] # None => meta[k].size = size[body[k].ver]
      BY DEF IInv, FilesInv, Together
    <2>5. ~Complete(k)'
      BY <1>3, <2>1, <2>2, <2>3, <2>4 DEF Complete
    <2>6. \A x \in Keys \ {k} : body'[x] = body[x]
      BY <1>3
    <2> QED
      BY <1>1, <1>3, <2>5, <2>6, LoseMaps
  <1> QED
    BY <1>2, <1>3 DEF Damage

\* Every step of the store is a step of AbstractCache, or none for it.
LEMMA StepMaps ==
    ASSUME IInv, IInv', BodyInv, Next
    PROVE  Cache!Next \/ UNCHANGED Cache!absVars
  <1> DEFINE Goal == Cache!Next \/ UNCHANGED Cache!absVars
  <1>0. /\ meta \in [Keys -> MetaFile \cup {None}] /\ body \in [Keys -> BodyFile \cup {None}]
        /\ \A f \in Fetches : pc[f] # "unused" => key[f] \in Keys
    BY DEF IInv, TypeOK, KeyInv
  <1> USE <1>0 DEF At, dirVars, indexVars, countVars, fetchVars, envVars, callVars
  <1>1. ASSUME NEW p \in Procs, LockedStep(p) PROVE Goal
    <2>1. CASE EvictMeta(p) \/ EvictBody(p)
      <3>1. order # <<>> /\ order \in Seq(Keys)
        BY <2>1 DEF EvictMeta, EvictBody, IInv, StepInv, TypeOK
      <3>2. PICK x \in Keys : x = Last(order)
        BY <3>1, LastFacts
      <3>3. /\ UNCHANGED <<delivered, resp>>
            /\ \/ meta' = [meta EXCEPT ![x] = None] /\ UNCHANGED body
               \/ body' = [body EXCEPT ![x] = None] /\ UNCHANGED meta
        BY <2>1, <3>2 DEF EvictMeta, EvictBody
      <3> QED
        BY <3>3, LoseMaps DEF Complete
    <2>2. CASE EvictDone(p)
      BY <2>2, SameMaps DEF EvictDone
    <2>3. CASE p \in Fetches /\ (DropBody(p) \/ CommitDropBody(p) \/ PutMetaError(p) \/ PutBody(p))
      <3>1. PICK x \in Keys : x = key[p]
        BY <2>3 DEF DropBody, CommitDropBody, PutMetaError, PutBody
      <3>2. /\ UNCHANGED <<delivered, resp, meta>> /\ meta[x] = None
            /\ \A k \in Keys \ {x} : body'[k] = body[k]
        BY <2>3, <3>1 DEF DropBody, CommitDropBody, PutMetaError, PutBody, IInv,
           StepInv, CaptureInv
      <3> QED
        BY <3>2, LoseMaps DEF Complete
    <2>4. CASE p \in Fetches /\ PutBodyError(p)
      BY <2>4, SameMaps DEF PutBodyError
    <2>5. CASE p \in Fetches /\ PutMeta(p)
      BY <2>5, StoreMaps
    <2> QED
      BY <1>1, <2>1, <2>2, <2>3, <2>4, <2>5 DEF LockedStep
  <1>2. ASSUME NEW f \in Fetches, FetchStep(f) PROVE Goal
    <2>1. CASE EndOfBody(f)
      <3>1. entries' = entries /\ serving' = serving /\ delivered' = delivered \cup {f}
        BY <2>1 DEF EndOfBody, entries, serving, Entry, Complete
      <3>2. Cache!Complete(f)
        BY <3>1 DEF Cache!Complete, entries, serving
      <3> QED
        BY <3>2 DEF Cache!Next
    <2>2. CASE CommitDropMeta(f)
      <3>1. PICK x \in Keys : x = key[f]
        BY <2>2 DEF CommitDropMeta
      <3>2. UNCHANGED <<delivered, resp, body>> /\ meta' = [meta EXCEPT ![x] = None]
        BY <2>2, <3>1 DEF CommitDropMeta
      <3> QED
        BY <3>2, LoseMaps DEF Complete
    <2>3. CASE ~EndOfBody(f) /\ ~CommitDropMeta(f)
      BY <1>2, <2>3, SameMaps DEF FetchStep, Respond, Decline, Read, Undo, Write,
         WriteError, Abort, Release, Unlink, Discard, Settle, ReadAgain, CloseBody,
         EndRefresh
    <2> QED
      BY <2>1, <2>2, <2>3
  <1>3. ASSUME NEW f \in Fetches, NEW k \in Keys, RequestStep(f, k) PROVE Goal
    <2>1. CASE Miss(f, k)
      BY <2>1, SameMaps DEF Miss
    <2>2. CASE MissDrop(f, k)
      <3>1. UNCHANGED <<delivered, resp, body>> /\ meta' = [meta EXCEPT ![k] = None]
        BY <2>2 DEF MissDrop
      <3> QED
        BY <3>1, LoseMaps DEF Complete
    <2> QED
      BY <1>3, <2>1, <2>2 DEF RequestStep
  <1>4. ASSUME NEW r \in Readers, NEW k \in Keys, ServeStep(r, k) PROVE Goal
    BY <1>4, ServeMaps DEF ServeStep, Serve, ServeAndRefresh
  <1>5. ASSUME NEW r \in Readers, CloseResponse(r) PROVE Goal
    <2>1. entries' = entries /\ serving' = [serving EXCEPT ![r] = None] /\ UNCHANGED delivered
      BY <1>5 DEF CloseResponse, entries, serving, Entry, Complete, IInv, TypeOK
    <2>2. Cache!Finish(r)
      BY <2>1 DEF Cache!Finish, entries, serving
    <2> QED
      BY <2>2 DEF Cache!Next
  <1>6. CASE Crash
    <2>1. entries' = entries /\ serving' = [r \in Readers |-> None] /\ UNCHANGED delivered
      BY <1>6 DEF Crash, entries, serving, Entry, Complete
    <2>2. Cache!Stop
      BY <2>1 DEF Cache!Stop, entries, serving
    <2> QED
      BY <2>2 DEF Cache!Next
  <1>7. CASE \/ Restart \/ ScanDone \/ \E k \in Keys : ScanIndex(k)
             \/ \E f \in Fetches, p \in {"stale", "expired"} : Age(f, p)
    BY <1>7, SameMaps DEF Restart, ScanDone, ScanIndex, Age
  <1>8. ASSUME NEW k \in Keys, ScanDrop(k) PROVE Goal
    BY <1>8, LoseMaps DEF ScanDrop, Complete
  <1>9. ASSUME NEW k \in Keys, Damage(k) PROVE Goal
    BY <1>9, DamageMaps
  <1> HIDE <1>0 DEF At, dirVars, indexVars, countVars, fetchVars, envVars, callVars
  <1> QED
    BY <1>1, <1>2, <1>3, <1>4, <1>5, <1>6, <1>7, <1>8, <1>9 DEF Next, ScanStep

\* The store, file operation by file operation, with crashes between any two of
\* them, failing renames and damaged files, implements the abstract cache.
THEOREM CacheImplemented == Spec => ImplementsCache
  <1>1. Init => Cache!Init /\ BodyInv
    <2> SUFFICES ASSUME Init PROVE Cache!Init /\ BodyInv
      OBVIOUS
    <2>1. \A k \in Keys : Entry(k) = None
      BY DEF Init, Entry, Complete
    <2>2. Cache!Init
      BY <2>1 DEF Init, Cache!Init
    <2> QED
      BY <2>2 DEF Init, BodyInv
  <1>2. IInv /\ IInv' /\ BodyInv /\ [Next]_vars => BodyInv' /\ [Cache!Next]_Cache!absVars
    <2>1. ASSUME IInv, IInv', BodyInv, Next
          PROVE  BodyInv' /\ [Cache!Next]_Cache!absVars
      BY <2>1, BodyStep, StepMaps
    <2>2. ASSUME BodyInv, UNCHANGED vars
          PROVE  BodyInv' /\ [Cache!Next]_Cache!absVars
      <3>1. UNCHANGED <<meta, body, delivered, resp, size>>
        BY <2>2 DEF vars, dirVars, callVars, fetchVars, envVars
      <3>2. BodyInv'
        BY <2>2, <3>1 DEF BodyInv
      <3> QED
        BY <3>1, <3>2, SameMaps
    <2> QED
      BY <2>1, <2>2
  <1> QED
    BY <1>1, <1>2, Invariance, PTL DEF Spec, ImplementsCache, Cache!Spec
=============================================================================
