----------------------------- MODULE CacheStore -----------------------------
(***************************************************************************)
(* The disk cache of hamsterd (internal/cache/cache.go): concurrent         *)
(* downloads that are captured into temporary files, committed under one    *)
(* mutex, served, refreshed in the background, evicted, and found again by  *)
(* the scan of the next process after a crash.                              *)
(*                                                                          *)
(* A fetch is one call of the origin.  Its identity stands for the response *)
(* it received, so two files belong together iff they name the same fetch.  *)
(* Only lengths of bodies are kept.  Every file operation made under the    *)
(* mutex is a step of its own, because the process may stop between two of  *)
(* them; memory-only changes are part of the file step they follow.         *)
(*                                                                          *)
(* Simplifications, all on the environment's side:                          *)
(*  - a fetch is used once; Fetches bounds the behaviours TLC explores;     *)
(*  - os.Remove succeeds; a rename, a write, a sync or a create may fail;   *)
(*  - file times are not kept: the scan may find the entries in any order;  *)
(*  - the scan's refusal of a directory with foreign files is not modelled. *)
(***************************************************************************)
EXTENDS Integers, FiniteSets, SequencesExt

CONSTANTS
    Keys,            \* cache keys (cacheKey)
    Fetches,         \* origin calls, by clients that missed or by refreshes
    Readers,         \* responses that can be outstanding from the cache
    MaxBytes,        \* Config.MaxBytes
    MaxObjectBytes,  \* Config.MaxObjectBytes
    MetaSize,        \* length of a marshalled metadata file
    BodySizes,       \* lengths of the bodies the origin may send
    Scanner,         \* the start of a process, which runs scan
    None

ASSUME SizeAssumption ==
    /\ MaxBytes \in Nat \ {0}
    /\ MaxObjectBytes \in 1..MaxBytes
    /\ MetaSize \in Nat \ {0}
    /\ BodySizes \subseteq Nat

Procs == Fetches \cup {Scanner}

\* A metadata file that json.Decode accepts, and one that it does not.
MetaFile   == [ver : Fetches, size : Nat, readable : BOOLEAN]
BodyFile   == [ver : Fetches, len : Nat]
Response   == [key : Keys, meta : MetaFile, body : BodyFile]

ASSUME NameAssumption ==
    /\ Scanner \notin Fetches
    /\ None \notin Procs \cup Nat
    /\ None \notin MetaFile /\ None \notin BodyFile /\ None \notin Response

VARIABLES
    \* the cache directory
    meta,        \* meta[k]: the .json file of k, or None
    body,        \* body[k]: the .body file of k, or None
    temp,        \* temp[f]: length of the temporary body of f, or None
    \* the memory of the process
    lock,        \* holder of store.mu
    order,       \* store.index, most recent first
    isize,       \* indexEntry.size
    total,       \* store.total
    pending,     \* store.pending
    refreshing,  \* store.refreshing
    pc,          \* where each fetch, and the start of the process, is
    key,         \* the key a fetch is for
    refresher,   \* the fetches started by Transport.refresh
    size,        \* length of the body the origin sends to a fetch
    written,     \* capturingBody.written
    chunk,       \* bytes of the Read that is in progress
    resp,        \* responses served from the cache and not yet closed
    \* the world
    phase,       \* freshness of a fetch's response, by the clock
    delivered    \* history: fetches whose body the origin sent to its end

dirVars   == <<meta, body, temp>>
indexVars == <<order, isize, total>>
countVars == <<pending, written, chunk>>
fetchVars == <<key, refresher, size>>
envVars   == <<phase, delivered>>
callVars  == <<refreshing, fetchVars, resp, envVars>>
vars == <<dirVars, lock, indexVars, countVars, pc, callVars>>

Idle      == {"unused", "closed", "dead"}
\* capture has created the temporary file and has not given it up
Capturing == {"open", "over", "writing", "eof", "rmBody", "putBody"}
PCs == Idle \cup Capturing \cup
       {"fetch", "dropBody", "disabling", "unlinking", "bypassing", "putMeta",
        "evict", "evictBody", "failing", "stored", "unstored", "committed",
        "ending", "scan", "running"}

Running == pc[Scanner] = "running"

Goto(p, l)  == pc' = [pc EXCEPT ![p] = l]
At(p, l)    == pc[p] = l

(***************************************************************************)
(* Helpers.  A definition named Bug... is its successor with a mistake that *)
(* the properties have to notice; no action uses it.                        *)
(***************************************************************************)
\* load accepts the files of k: the metadata decode and tell the body's size.
BugNoSizeCheck(k) ==
    meta[k] # None /\ body[k] # None /\ meta[k].readable

Intact(k) ==
    /\ meta[k] # None /\ body[k] # None
    /\ meta[k].readable
    /\ body[k].len = meta[k].size

Usable(k) == Intact(k) /\ phase[meta[k].ver] # "expired"

\* The entry is past its freshness and nobody refreshes it yet.
BugNoMarkCheck(k) == phase[meta[k].ver] = "stale"

NeedsRefresh(k) == phase[meta[k].ver] = "stale" /\ k \notin refreshing

BugLockKept == IF lock = Scanner THEN lock' = None ELSE UNCHANGED lock

Unlock == lock' = None

\* The index without the element of k.
Others(k) ==
    IF Contains(order, k)
    THEN RemoveAt(order, CHOOSE i \in 1..Len(order) : order[i] = k)
    ELSE order

BugTotalKept(k) ==
    /\ order' = Others(k)
    /\ UNCHANGED <<isize, total>>

\* The index's half of removeLocked.
Unindex(k) ==
    /\ order' = Others(k)
    /\ total' = IF Contains(order, k) THEN total - isize[k] ELSE total
    /\ UNCHANGED isize

PushFront(k, n) ==
    /\ order' = <<k>> \o order
    /\ isize' = [isize EXCEPT ![k] = n]
    /\ total' = total + n

\* pending.Add returns the sum: the check sees what concurrent Reads added.
BugCheckBeforeAdd(n) == pending > MaxBytes

OverBudget(n) == pending + n > MaxBytes

\* A download gives back all the bytes it counted, and counts none.
BugSubtractSize(f) == [written EXCEPT ![f] = @ - size[f]]

NothingWritten(f) == [written EXCEPT ![f] = 0]

\* The origin's body has been read to io.EOF.
BugAnyError(f) == TRUE

AtEOF(f) == written[f] = size[f]

\* What follows the Close of a body: a refresh still has to run endRefresh.
BugNoEndRefresh(f) == "closed"

AfterClose(f) == IF f \in refresher THEN "ending" ELSE "closed"

Init ==
    /\ meta = [k \in Keys |-> None]
    /\ body = [k \in Keys |-> None]
    /\ temp = [f \in Fetches |-> None]
    /\ lock = None
    /\ order = <<>>
    /\ isize = [k \in Keys |-> 0]
    /\ total = 0
    /\ pending = 0
    /\ refreshing = {}
    /\ pc = [p \in Procs |-> IF p = Scanner THEN "running" ELSE "unused"]
    /\ key = [f \in Fetches |-> None]
    /\ refresher = {}
    /\ size = [f \in Fetches |-> 0]
    /\ written = [f \in Fetches |-> 0]
    /\ chunk = [f \in Fetches |-> 0]
    /\ resp = [r \in Readers |-> None]
    /\ phase = [f \in Fetches |-> "fresh"]
    /\ delivered = {}

(***************************************************************************)
(* Transport.RoundTrip and store.load, all of it under the mutex.          *)
(***************************************************************************)
StartFetch(f, k) ==
    /\ At(f, "unused")
    /\ key' = [key EXCEPT ![f] = k]

Answer(k) == [key |-> k, meta |-> meta[k], body |-> body[k]]

ServeFrom(r, k) ==
    /\ Running /\ lock = None
    /\ resp[r] = None
    /\ Usable(k)
    /\ resp' = [resp EXCEPT ![r] = Answer(k)]
    /\ order' = IF Contains(order, k) THEN <<k>> \o Others(k) ELSE order
    /\ UNCHANGED <<dirVars, lock, isize, total, countVars, size, envVars>>

\* HIT, or STALE while another refresh of the key is under way.
Serve(r, k) ==
    /\ ServeFrom(r, k)
    /\ ~NeedsRefresh(k)
    /\ UNCHANGED <<refreshing, pc, key, refresher>>

\* STALE: the caller marks the key and starts the refresh.
ServeAndRefresh(r, k, f) ==
    /\ ServeFrom(r, k)
    /\ NeedsRefresh(k)
    /\ refreshing' = refreshing \cup {k}
    /\ StartFetch(f, k)
    /\ refresher' = refresher \cup {f}
    /\ Goto(f, "fetch")

\* The caller reads the response to its end, or closes it.
CloseResponse(r) ==
    /\ resp[r] # None
    /\ resp' = [resp EXCEPT ![r] = None]
    /\ UNCHANGED <<dirVars, lock, indexVars, countVars, refreshing, pc,
                   fetchVars, envVars>>

\* No metadata file: nothing is removed and the origin is asked.
Miss(f, k) ==
    /\ Running /\ lock = None
    /\ meta[k] = None
    /\ StartFetch(f, k)
    /\ Goto(f, "fetch")
    /\ UNCHANGED <<dirVars, lock, indexVars, countVars, refreshing,
                   refresher, size, resp, envVars>>

\* An expired or damaged entry: removeLocked, then the origin is asked.
MissDrop(f, k) ==
    /\ Running /\ lock = None
    /\ meta[k] # None /\ ~Usable(k)
    /\ StartFetch(f, k)
    /\ lock' = f
    /\ meta' = [meta EXCEPT ![k] = None]
    /\ Goto(f, "dropBody")
    /\ UNCHANGED <<body, temp, indexVars, countVars, refreshing, refresher,
                   size, resp, envVars>>

DropBody(f) ==
    /\ At(f, "dropBody")
    /\ body' = [body EXCEPT ![key[f]] = None]
    /\ Unindex(key[f])
    /\ Unlock
    /\ Goto(f, "fetch")
    /\ UNCHANGED <<meta, temp, countVars, callVars>>

(***************************************************************************)
(* The origin's answer.                                                     *)
(***************************************************************************)
\* A cacheable response: capture creates the temporary file.
Respond(f, n) ==
    /\ At(f, "fetch")
    /\ size' = [size EXCEPT ![f] = n]
    /\ temp' = [temp EXCEPT ![f] = 0]
    /\ Goto(f, "open")
    /\ UNCHANGED <<meta, body, lock, indexVars, countVars, refreshing, key,
                   refresher, resp, envVars>>

\* An error, a response that may not be stored, or no temporary file.
Decline(f) ==
    /\ At(f, "fetch")
    /\ Goto(f, AfterClose(f))
    /\ UNCHANGED <<dirVars, lock, indexVars, countVars, callVars>>

(***************************************************************************)
(* capturingBody.Read: account for the chunk, then write it.                *)
(***************************************************************************)
Read(f, n) ==
    /\ At(f, "open")
    /\ n \in 1..(size[f] - written[f])
    /\ IF written[f] + n > MaxObjectBytes
       THEN /\ Goto(f, "disabling")
            /\ UNCHANGED <<pending, chunk>>
       ELSE /\ pending' = pending + n
            /\ chunk' = [chunk EXCEPT ![f] = n]
            /\ Goto(f, IF OverBudget(n) THEN "over" ELSE "writing")
    /\ UNCHANGED <<dirVars, lock, indexVars, written, callVars>>

BugCountKept(f) ==
    /\ chunk' = [chunk EXCEPT ![f] = 0]
    /\ Goto(f, "disabling")
    /\ UNCHANGED pending

GiveBack(f) ==
    /\ pending' = pending - chunk[f]
    /\ chunk' = [chunk EXCEPT ![f] = 0]
    /\ Goto(f, "disabling")

\* Over the budget of temporary data: the chunk is taken back.
Undo(f) ==
    /\ At(f, "over")
    /\ GiveBack(f)
    /\ UNCHANGED <<dirVars, lock, indexVars, written, callVars>>

Write(f) ==
    /\ At(f, "writing")
    /\ temp' = [temp EXCEPT ![f] = @ + chunk[f]]
    /\ written' = [written EXCEPT ![f] = @ + chunk[f]]
    /\ chunk' = [chunk EXCEPT ![f] = 0]
    /\ Goto(f, "open")
    /\ UNCHANGED <<meta, body, lock, indexVars, pending, callVars>>

\* A short write leaves some of the chunk in the file.
WriteError(f) ==
    /\ At(f, "writing")
    /\ \E n \in 0..(chunk[f] - 1) : temp' = [temp EXCEPT ![f] = @ + n]
    /\ GiveBack(f)
    /\ UNCHANGED <<meta, body, lock, indexVars, written, callVars>>

\* Close before the end of the body: the client left or the origin failed.
Abort(f) ==
    /\ At(f, "open")
    /\ Goto(f, "disabling")
    /\ UNCHANGED <<dirVars, lock, indexVars, countVars, callVars>>

\* disable: the bytes are released, then the file is removed.
Release(f) ==
    /\ At(f, "disabling")
    /\ pending' = pending - written[f]
    /\ written' = NothingWritten(f)
    /\ Goto(f, "unlinking")
    /\ UNCHANGED <<dirVars, lock, indexVars, chunk, callVars>>

Unlink(f) ==
    /\ At(f, "unlinking")
    /\ temp' = [temp EXCEPT ![f] = None]
    /\ Goto(f, "bypassing")
    /\ UNCHANGED <<meta, body, lock, indexVars, countVars, callVars>>

(***************************************************************************)
(* commit.  EndOfBody is everything up to the lock; a failure there, or of  *)
(* one of the renames, removes the temporary files and reports the error.   *)
(***************************************************************************)
EndOfBody(f) ==
    /\ At(f, "open")
    /\ AtEOF(f)
    /\ delivered' = delivered \cup {f}
    /\ \/ Goto(f, "eof")
       \/ Goto(f, "failing")
    /\ UNCHANGED <<dirVars, lock, indexVars, countVars, refreshing,
                   fetchVars, resp, phase>>

BugMetaStays(f) ==
    /\ At(f, "eof")
    /\ lock = None
    /\ lock' = f
    /\ Goto(f, "rmBody")
    /\ UNCHANGED <<dirVars, indexVars, countVars, callVars>>

\* removeLocked of the entry that is replaced, one file at a time.
CommitDropMeta(f) ==
    /\ At(f, "eof")
    /\ lock = None
    /\ lock' = f
    /\ meta' = [meta EXCEPT ![key[f]] = None]
    /\ Goto(f, "rmBody")
    /\ UNCHANGED <<body, temp, indexVars, countVars, callVars>>

CommitDropBody(f) ==
    /\ At(f, "rmBody")
    /\ body' = [body EXCEPT ![key[f]] = None]
    /\ Unindex(key[f])
    /\ Goto(f, "putBody")
    /\ UNCHANGED <<meta, temp, lock, countVars, callVars>>

PutBody(f) ==
    /\ At(f, "putBody")
    /\ body' = [body EXCEPT ![key[f]] = [ver |-> f, len |-> temp[f]]]
    /\ temp' = [temp EXCEPT ![f] = None]
    /\ Goto(f, "putMeta")
    /\ UNCHANGED <<meta, lock, indexVars, countVars, callVars>>

PutBodyError(f) ==
    /\ At(f, "putBody")
    /\ Unlock
    /\ Goto(f, "failing")
    /\ UNCHANGED <<dirVars, indexVars, countVars, callVars>>

PutMeta(f) ==
    /\ At(f, "putMeta")
    /\ meta' = [meta EXCEPT ![key[f]] =
                   [ver |-> f, size |-> written[f], readable |-> TRUE]]
    /\ PushFront(key[f], written[f] + MetaSize)
    /\ Goto(f, "evict")
    /\ UNCHANGED <<body, temp, lock, countVars, callVars>>

PutMetaError(f) ==
    /\ At(f, "putMeta")
    /\ body' = [body EXCEPT ![key[f]] = None]
    /\ Unlock
    /\ Goto(f, "failing")
    /\ UNCHANGED <<meta, temp, indexVars, countVars, callVars>>

BugTemporaryStays(f) ==
    /\ At(f, "failing")
    /\ Goto(f, "unstored")
    /\ UNCHANGED <<dirVars, lock, indexVars, countVars, callVars>>

\* The deferred removals of a commit that failed.
Discard(f) ==
    /\ At(f, "failing")
    /\ temp' = [temp EXCEPT ![f] = None]
    /\ Goto(f, "unstored")
    /\ UNCHANGED <<meta, body, lock, indexVars, countVars, callVars>>

\* Read goes on after commit: the temporary bytes are no longer pending.
Settle(f) ==
    /\ pc[f] \in {"stored", "unstored"}
    /\ pending' = pending - written[f]
    /\ written' = NothingWritten(f)
    /\ Goto(f, IF At(f, "stored") THEN "committed" ELSE "bypassing")
    /\ UNCHANGED <<dirVars, lock, indexVars, chunk, callVars>>

\* A Read after the end of a committed body commits again: Sync fails on the
\* closed file, and the temporary name that is removed is gone already.
ReadAgain(f) ==
    /\ At(f, "committed")
    /\ temp' = [temp EXCEPT ![f] = None]
    /\ pending' = pending - written[f]
    /\ Goto(f, "bypassing")
    /\ UNCHANGED <<meta, body, lock, indexVars, written, chunk, callVars>>

CloseBody(f) ==
    /\ pc[f] \in {"committed", "bypassing"}
    /\ Goto(f, AfterClose(f))
    /\ UNCHANGED <<dirVars, lock, indexVars, countVars, callVars>>

EndRefresh(f) ==
    /\ At(f, "ending")
    /\ lock = None
    /\ refreshing' = refreshing \ {key[f]}
    /\ Goto(f, "closed")
    /\ UNCHANGED <<dirVars, lock, indexVars, countVars, fetchVars, resp,
                   envVars>>

(***************************************************************************)
(* evictLocked, by a commit or by the scan.                                 *)
(***************************************************************************)
EvictMeta(p) ==
    /\ At(p, "evict")
    /\ total > MaxBytes /\ order # <<>>
    /\ meta' = [meta EXCEPT ![Last(order)] = None]
    /\ Goto(p, "evictBody")
    /\ UNCHANGED <<body, temp, lock, indexVars, countVars, callVars>>

EvictBody(p) ==
    /\ At(p, "evictBody")
    /\ body' = [body EXCEPT ![Last(order)] = None]
    /\ Unindex(Last(order))
    /\ Goto(p, "evict")
    /\ UNCHANGED <<meta, temp, lock, countVars, callVars>>

EvictDone(p) ==
    /\ At(p, "evict")
    /\ total <= MaxBytes \/ order = <<>>
    /\ Unlock
    /\ Goto(p, IF p = Scanner THEN "running" ELSE "stored")
    /\ UNCHANGED <<dirVars, indexVars, countVars, callVars>>

(***************************************************************************)
(* The end of the process at any moment, and the scan of the next one.      *)
(* The scan is store.scan: temporary files older than an hour go, entries   *)
(* that lack a file go, the others are indexed in the order of their times. *)
(***************************************************************************)
Crash ==
    /\ ~At(Scanner, "dead")
    /\ pc' = [p \in Procs |-> IF p # Scanner /\ pc[p] \in {"unused", "closed"}
                              THEN pc[p] ELSE "dead"]
    /\ lock' = None
    /\ order' = <<>>
    /\ isize' = [k \in Keys |-> 0]
    /\ total' = 0
    /\ pending' = 0
    /\ refreshing' = {}
    /\ written' = [f \in Fetches |-> 0]
    /\ chunk' = [f \in Fetches |-> 0]
    /\ resp' = [r \in Readers |-> None]
    /\ UNCHANGED <<dirVars, fetchVars, envVars>>

\* A power failure can lose a metadata file that was renamed but not synced,
\* and file system damage can shorten a body.
Damage(k) ==
    /\ At(Scanner, "dead")
    /\ \/ /\ meta[k] # None
          /\ meta' = [meta EXCEPT ![k].readable = FALSE]
          /\ UNCHANGED body
       \/ /\ body[k] # None
          /\ body[k].len > 0
          /\ body' = [body EXCEPT ![k].len = @ - 1]
          /\ UNCHANGED meta
    /\ UNCHANGED <<temp, lock, indexVars, countVars, callVars, pc>>

Restart ==
    /\ At(Scanner, "dead")
    /\ Goto(Scanner, "scan")
    /\ lock' = Scanner
    /\ \E old \in SUBSET {f \in Fetches : temp[f] # None} :
          temp' = [f \in Fetches |-> IF f \in old THEN None ELSE temp[f]]
    /\ UNCHANGED <<meta, body, indexVars, countVars, callVars>>

Whole(k) == meta[k] # None /\ body[k] # None

ScanDrop(k) ==
    /\ At(Scanner, "scan")
    /\ ~Whole(k)
    /\ meta[k] # None \/ body[k] # None
    /\ meta' = [meta EXCEPT ![k] = None]
    /\ body' = [body EXCEPT ![k] = None]
    /\ UNCHANGED <<temp, lock, indexVars, countVars, callVars, pc>>

ScanIndex(k) ==
    /\ At(Scanner, "scan")
    /\ Whole(k) /\ ~Contains(order, k)
    /\ PushFront(k, body[k].len + MetaSize)
    /\ UNCHANGED <<dirVars, lock, countVars, callVars, pc>>

ScanDone ==
    /\ At(Scanner, "scan")
    /\ \A k \in Keys : IF Whole(k) THEN Contains(order, k)
                                   ELSE meta[k] = None /\ body[k] = None
    /\ Goto(Scanner, "evict")
    /\ UNCHANGED <<dirVars, lock, indexVars, countVars, callVars>>

(***************************************************************************)
(* Time: a stored response gets stale, if it has a stale-while-revalidate   *)
(* window, and expires.  Before a response is stored nothing reads its age. *)
(***************************************************************************)
Age(f, p) ==
    /\ \E k \in Keys : meta[k] # None /\ meta[k].ver = f
    /\ <<phase[f], p>> \in {<<"fresh", "stale">>, <<"fresh", "expired">>,
                            <<"stale", "expired">>}
    /\ phase' = [phase EXCEPT ![f] = p]
    /\ UNCHANGED <<dirVars, lock, indexVars, countVars, refreshing, pc,
                   fetchVars, resp, delivered>>

-----------------------------------------------------------------------------
\* Steps made while the mutex is held, up to its release.
LockedStep(p) ==
    \/ EvictMeta(p) \/ EvictBody(p) \/ EvictDone(p)
    \/ /\ p \in Fetches
       /\ \/ DropBody(p) \/ CommitDropBody(p) \/ PutBody(p) \/ PutBodyError(p)
          \/ PutMeta(p) \/ PutMetaError(p)

\* Steps of the goroutine that reads the body, and the origin's answers.
FetchStep(f) ==
    \/ \E n \in BodySizes : Respond(f, n)
    \/ Decline(f)
    \/ \E n \in 1..size[f] : Read(f, n)
    \/ Undo(f) \/ Write(f) \/ WriteError(f) \/ Abort(f)
    \/ Release(f) \/ Unlink(f)
    \/ EndOfBody(f) \/ CommitDropMeta(f) \/ Discard(f) \/ Settle(f)
    \/ ReadAgain(f) \/ CloseBody(f) \/ EndRefresh(f)

RequestStep(f, k) == Miss(f, k) \/ MissDrop(f, k)

ServeStep(r, k) ==
    \/ Serve(r, k)
    \/ \E f \in Fetches : ServeAndRefresh(r, k, f)

ScanStep ==
    \/ \E k \in Keys : ScanDrop(k) \/ ScanIndex(k)
    \/ ScanDone

Next ==
    \/ \E p \in Procs : LockedStep(p)
    \/ \E f \in Fetches : FetchStep(f)
    \/ \E f \in Fetches, k \in Keys : RequestStep(f, k)
    \/ \E r \in Readers, k \in Keys : ServeStep(r, k)
    \/ \E r \in Readers : CloseResponse(r)
    \/ Crash
    \/ \E k \in Keys : Damage(k)
    \/ Restart
    \/ ScanStep
    \/ \E f \in Fetches, p \in {"stale", "expired"} : Age(f, p)

Spec == Init /\ [][Next]_vars

\* A goroutine that holds the mutex, or runs the scan, is scheduled.  A
\* refresh is scheduled too, and the origin it asks answers and ends its body:
\* this last part is an assumption about the origin, because refresh detaches
\* the request from the client's context and no deadline covers the body.
RefreshStep(f) == f \in refresher /\ FetchStep(f)

Fairness ==
    /\ \A p \in Procs : WF_vars(LockedStep(p))
    /\ WF_vars(ScanStep)
    /\ \A f \in Fetches : WF_vars(RefreshStep(f))

FairSpec == Spec /\ Fairness

-----------------------------------------------------------------------------
(***************************************************************************)
(* Properties                                                               *)
(***************************************************************************)
\* The sorts of the variables: files, memory, and the place of each process.
TypeOK ==
    /\ meta \in [Keys -> MetaFile \cup {None}]
    /\ body \in [Keys -> BodyFile \cup {None}]
    /\ temp \in [Fetches -> Nat \cup {None}]
    /\ lock \in Procs \cup {None}
    /\ order \in Seq(Keys)
    /\ isize \in [Keys -> Nat]
    /\ total \in Int
    /\ pending \in Int
    /\ refreshing \in SUBSET Keys
    /\ pc \in [Procs -> PCs]
    /\ key \in [Fetches -> Keys \cup {None}]
    /\ refresher \in SUBSET Fetches
    /\ size \in [Fetches -> Nat]
    /\ written \in [Fetches -> Nat]
    /\ chunk \in [Fetches -> Nat]
    /\ resp \in [Readers -> Response \cup {None}]
    /\ phase \in [Fetches -> {"fresh", "stale", "expired"}]
    /\ delivered \in SUBSET Fetches

\* Whatever load hands out is one response of the origin, whole and for the
\* key that was asked: its metadata and its body come from the same fetch, the
\* body has the length the origin sent, and the origin had sent all of it.
\* This has to survive a crash between any two steps of a commit or of an
\* eviction, replacement by another download, and damage to the files.
ServedWhole ==
    \A r \in Readers : resp[r] # None =>
        LET f == resp[r].meta.ver IN
        /\ resp[r].body = [ver |-> f, len |-> size[f]]
        /\ f \in delivered
        /\ key[f] = resp[r].key

\* On disk, at every instant, a metadata file lies beside the body it was
\* written for: removeLocked and commit order their file operations so that a
\* crash leaves a body alone, and never metadata with another body.
PairIntact ==
    \A k \in Keys : meta[k] # None =>
        /\ body[k] # None
        /\ body[k].ver = meta[k].ver
        /\ key[meta[k].ver] = k
        /\ meta[k].ver \in delivered

DiskBytes(k) == IF Whole(k) THEN body[k].len + MetaSize ELSE 0

\* When no one holds the mutex the index is the directory: it lists exactly the
\* keys that have files, each once, total is the space they take, and that is
\* within max_size_mib.
IndexMatchesDisk ==
    Running /\ lock = None =>
        /\ ToSet(order) = {k \in Keys : meta[k] # None \/ body[k] # None}
        /\ Cardinality(ToSet(order)) = Len(order)
        /\ total = SumFunctionOnSet([k \in Keys |-> DiskBytes(k)], Keys)
        /\ total <= MaxBytes

\* store.pending is exactly what the downloads hold, over every order of the
\* additions and subtractions of concurrent Reads: nothing is released twice
\* and nothing is kept when a download ends.  Downloads that are still being
\* captured never have more than max_size_mib in their temporary files together.
PendingExact ==
    /\ Running =>
          pending = SumFunctionOnSet([f \in Fetches |-> written[f] + chunk[f]], Fetches)
    /\ SumFunctionOnSet(temp, {f \in Fetches : pc[f] \in Capturing}) <= MaxBytes

\* A download that is over, or that passes through, left no temporary file.
NoTemporaryLeft ==
    \A f \in Fetches :
        pc[f] \in {"bypassing", "committed", "ending", "closed"} => temp[f] = None

\* load starts one refresh per key, and the mark of a key stands exactly as
\* long as its refresh runs.
Refreshing(f) == f \in refresher /\ pc[f] \notin Idle

SingleRefresh ==
    /\ refreshing = {key[f] : f \in {g \in Fetches : Refreshing(g)}}
    /\ \A f, g \in Fetches :
          Refreshing(f) /\ Refreshing(g) /\ key[f] = key[g] => f = g

\* A refresh ends, so the key can be refreshed again: no path of refresh keeps
\* the mark, and no path of any download keeps the mutex that a refresh needs.
\* (The origin's part is the assumption in Fairness.)
RefreshEnds == \A k \in Keys : k \in refreshing ~> k \notin refreshing

(***************************************************************************)
(* The store implements AbstractCache: an entry is there from the rename of *)
(* its metadata to the first removal of one of its files.                   *)
(***************************************************************************)
Complete(k) ==
    /\ meta[k] # None /\ body[k] # None
    /\ meta[k].readable
    /\ body[k].len = meta[k].size

Entry(k) == IF Complete(k) THEN meta[k].ver ELSE None

Cache == INSTANCE AbstractCache WITH
    entry    <- [k \in Keys |-> Entry(k)],
    complete <- delivered,
    serving  <- [r \in Readers |-> IF resp[r] = None THEN None
                                                     ELSE resp[r].meta.ver]

\* Every step of the store, at the grain of single file operations and with
\* crashes in between, is a step of the abstract cache or changes nothing in it.
ImplementsCache == Cache!Spec
=============================================================================
