# A TLA+ development of hamsterd and lemmingd

This directory holds TLA+ modules that model the two proxies of this repository,
`hamsterd` (a caching HTTP proxy) and `lemmingd` (a proxy that routes chosen
domains to local targets), TLC configurations that model-check them on small
instances, and proofs that TLAPS checks for every size of them. The reference is
the Go source under `src/`; line numbers below and in `PROJECT.json` are of this
commit. `PROJECT.json` maps every definition to the lines it models.

- [The system](#the-system)
- [The modules and the code](#the-modules-and-the-code)
- [The runs](#the-runs)
- [The proofs](#the-proofs)
- [Where code and documentation disagree](#where-code-and-documentation-disagree)
- [What is not modelled](#what-is-not-modelled)
- [Plan](#plan)

## The system

| Part | State | Operations | What is hard | What makes it correct |
| --- | --- | --- | --- | --- |
| response cache, `internal/cache/cache.go` | two files per key, temporary files, LRU index, `total`, `pending`, `refreshing` | `RoundTrip`, `load`, `capture`, `Read`/`Close` of a captured body, `commit`, eviction, background refresh, start-up scan | many downloads and readers at a time, a crash between any two file operations, failing writes and renames, limits | what is served is one whole response; index, files and counters agree; one refresh per key, which ends |
| freshness of responses, same file | stored metadata, the clock | `cacheableRequest`, `responseExpiration`, `responseAge`, `load` | integer widths, boundaries in time, fields in several lines | HIT and STALE mean what the origin's fields mean |
| rule service, `internal/lemming/service.go` | rules of `config.json` and `rules.auto.json` in memory, whether the latter was skipped, router, trust list, the last 200 requests | `New`, `AddRule`, `RemoveRule`, `Merge`, `install`, reports | changes against requests, files edited behind its back | memory and files agree; requests never see a half-installed change |
| rule files, `internal/config/auto.go` | `config.json`, `config.json.bak`, `rules.auto.json` | load, atomic write, `MergeAutoRules` | three file operations in a merge, crash or failure after each, other processes | no accepted rule is lost; no domain has two rules |
| configuration, `internal/config/config.go` | none | parse, validate, defaults | syntax | a bad file is refused |
| control API, `internal/control/control.go` | `control.json`, listener, token | `Start`, `Close`, `Client.Do` | two processes, stale files, reads before removals | a command reaches the process that owns the rules |
| redirect router, `internal/redirect/redirect.go` | map from host to rule (immutable) | `Intercepts`, `Rewrite`, `Lookup` | none, it is replaced as a whole | |
| proxy core: guard, `internal/proxycore/proxy.go`, `mitm.go` | trust list | destination guard, policy handlers, dial | several loads of a list that changes | the guard refuses exactly what no rule allows |
| proxy core: server, `listener.go`, `proxy.go`, `mitm.go` | slots, the listener and `done`, the deadlines of each connection, the goroutines of an intercepted session | `ServeAfterListen`, `Accept`, `Close`, `enableIdle`, `touch`, `stopServer`, `serveMITM` | several owners close one connection, Shutdown waits for an `Accept` that waits for a slot, one deadline for several purposes | slots are counted exactly, an owner keeps his connection, a stop ends |
| Firefox profiles, `internal/firefox` | preparation directory, lease file, Firefox's own lock, the process | `Launch`, `Browser.Close`, clean-up after exit | several launchers, Firefox's start takes time, crashes, timeouts | the profile is never written under a running Firefox |
| CA files, `internal/pki/pki.go` | the files of the CA's key and certificate | `LoadOrCreate`, `writePair` | several first starts at a time, a failure or crash between the two files | a certificate has its key; a failed start leaves no half; what a running proxy uses stays |
| leaf certificates, `internal/pki/leaf.go` | table of entries, their order, generations in progress | `Issuer.Certificate`, `sign` | eviction of an entry that is being generated, expiry while a call waits | table and order agree; nobody waits forever; what is shared is fresh |
| MCP server, `internal/lemming/mcp.go` | none | tool calls to control API requests | | |
| `cmd/hamsterd`, `cmd/lemmingd` | none of their own | wiring, order of start and stop, `config merge` | the order of start and stop | |

How the parts interact: `cmd/lemmingd` builds the rule service from the files,
publishes the control API, opens the proxy port, and with `firefox` launches the
browser. The MCP server and `lemmingd config merge` are other processes that
find the running one through `control.json`; the merge command edits the rule
files itself when it finds none. The rule service replaces the router and the
trust list, two atomic pointers, that the request handlers of the proxy core
read without a lock. `cmd/hamsterd` puts the cache's transport behind the same
proxy core. The cache shares its directory with nobody but its own next process.
Both commands call `LoadOrCreate` at their start, so that several processes may
create one CA's files at a time, and hand the pair to an `Issuer`, which the TLS
handshakes of intercepted connections call concurrently.

## The modules and the code

### CacheStore (with AbstractCache)

`CacheStore` is the store of `cache.go`, file operation by file operation.
`meta`, `body` and `temp` are the files; `order`, `isize`, `total`, `pending`,
`refreshing` and `lock` are the fields of `store`; `pc[f]` is where the goroutine
of a download is, from `RoundTrip` or `refresh` to the `Close` of its body. A
fetch's name stands for the response it got, so "these two files belong
together" is "they name the same fetch". `Procs` adds the scan of a new process.
A commit is `DropBody`/`CommitDropMeta`/`CommitDropBody` (`removeLocked`), `PutBody`
and `PutMeta` (the renames) and `EvictMeta`/`EvictBody`/`EvictDone`; each rename
has its failing twin. `Crash` is possible between any two steps and loses memory
only; `Restart` and the `Scan...` actions are the next process, and `Damage`
breaks a file under it. `Age` moves a response from fresh to stale to expired
(that it only moves this way is `NeverYounger` of `CachePolicy`).

`AbstractCache` is the promise to the users of the transport: per key one whole
response or none. The refinement maps an entry to "metadata is in place, can be
read, and its body has the length it names": an entry appears at the rename of
the metadata and vanishes at the first removal.

### CachePolicy

The judgement of one exchange and of later requests for it: which response is
stored, until when it is fresh, stale, gone, and what Age is told. Numbers are
int64 with the code's wrap-around (`Wrap`; `Half` stands for 2^63 and a tick for
a nanosecond), a field may be absent, malformed or come in several lines.

### RuleStore

The rule files, any number of `lemmingd` processes and merge commands, and
`control.json`. `base`, `live` and `skipped` are `Service.base`, `auto` and
`autoErr`; `pc[d]` is how far `run` is (`Start`, `Load`, `Publish`, `Listen`, `Stop`,
`CloseListener`, `CloseControl`, `RemoveEndpoint`, `Exit`). `job[w]` is the change that
a process executes under `Service.mu`: `AddRule` and `RemoveRule` decide on memory and
begin one, which `SaveRules` ends with the write of the file or its failure; a merge is
`AskedMerge` or `OfflineMerge` and then one step per file operation, each of which may
fail or be the last before a `Crash`. `Server.Close` closes the listener first
(`CloseListener`): from then on the command is refused (`NotRunning` looks at
`Listening`), while requests that came before are still executed (`Draining`), until the
end of `Shutdown`, which waits five seconds at most and so may leave a change unfinished
(`CloseControl`, `Exit`). A rule is a model value with a domain; a file without rules is
a missing file. The constant `Environment` says what a run allows: `"crash"`; people
who edit `config.json` (`"editConfig"`) or delete `rules.auto.json` (`"removeAuto"`);
`"overlap"`, a lemmingd that is started beside another one or a merge; and `"hasty"`, a
merge command that is given while a lemmingd starts or drains its control API. People do
not edit during a merge: the code has no protection against that (see the hazards).

### TrustedRouting

Requests of remote clients while rules change. `Install`, `StoreRouter` and
`Narrow` are the three stores of `Service.install`. A request is checked by
`deniedHost`, which loads the trust list twice (`CheckTarget`, `CheckHost`), routed
by one load of the router (`Handle`, or `HandleConnect` for a CONNECT, whose
intercepted request goes the whole way again) and dialed after one more load of
the trust list (`Dial`). Names and addresses are members of one small set, of
which `Denied` ones are refused unless trusted. Other refusals (CONNECT ports) are
left out; they do not depend on the rules.

### ProfileLaunch

`lemmingd firefox` processes that share a profile. `pc[l]` follows
`prepareAndLaunch`, then `Browser.Close`; `watch[l]` is the goroutine that waits for
Firefox's exit and runs `removeExitedLease`. The preparation directory, the lease
and the native lock are variables; the probe of `fcntlLockHeld` takes the native
lock between two steps, as it does in the code. The two steps of `lease.update`
(truncate, write), all error paths with their deferred calls, the timers, and a
crash or second interrupt anywhere are there. Firefox, strangers who start it by
hand and people who remove a dead process's directory, as `docs/lemmingd.md:139` asks,
are the environment. They may remove it while the dead process's Firefox is still on
the way to its lock; the history variable `loose` has the Firefoxes that lost their
directory so, of which the code promises less (see the disagreements). What
Firefox does when its lock is taken is not in the source; the model lets it exit.

### LeafIssuer

One process with its `Issuer`. `entries` and `order` are the two fields of the same
name, `made[c]` is the `leafEntry` that the call `c` generates (its `ready` channel is
a flag), `entry[c]` the one it waits for. Each critical section of `Issuer.mu` is one
step (`Hit`, `Join`, `Begin` with the removal of an old entry and of the oldest host,
`Withdraw` after a failure); `Sign` reads the clock, `Close` closes the channel, `Wake`
returns the error or looks at the table again. The end of the CA is `CAEnd`.

### ProxyServer

The server of either proxy with its clients' connections. `main` is
`ServeAfterListen` and `stopServer`, `loop` is `Server.Serve` in its `Accept`, and
`worker[c]` the goroutine that owns a connection: the server's (`new`, `busy`, `idle`),
a tunnel, `serveMITM` while it waits for the first byte (`peek`), its inner server, or a
WebSocket (`upgraded`). `session[c]` is `serveMITM` itself, which sleeps in the `Accept`
of its one-connection listener beside the inner server. `timer[c]` is a `trackedConn`'s
read deadline as the caller set it, the one in force, and when `touch` last renewed
it. A deadline acts on a `Read` or `Write` that is pending (`Pending`); `blocked[c]` says
that none is, because the owner waits for its target: in a `Write` to one that does not
read, or for what it sends (`Block`). Of a tunnel, `half` and `late` are the two ways of
having one copy left. `net/http` and `goproxy` are modelled as the code relies on them: what `Shutdown`
and `Close` close, when `ConnState` is called, what hijacking does to deadlines.
Deadlines count down in ticks. No tick passes over a deadline on which something
pends: that `Read` returns at its deadline, or before it. One on which nothing pends
is passed over.

### CAFiles

Processes that start with one CA directory. Each call of the file system is a
step, with a twin that fails where the constant `Failing` says so, and `Crash` is
possible between any two. A process's name stands for the pair it generates, so that
"key and certificate belong together" is "they name the same start". People delete a
file as the error messages ask.

## The runs

| Run | Question | Instance |
| --- | --- | --- |
| `cache_store` | safety of the store under every interleaving, failure and crash | 2 keys, 3 downloads, 1 reader, `MaxBytes` 3, objects to 2, metadata 1 |
| `cache_refinement` | does the store implement `AbstractCache`; do refreshes end and the mutex come back | 2 keys, 2 downloads, 1 reader, bodies 1 and 3 |
| `cache_policy` | storing, freshness and Age | all combinations of present, absent and malformed fields whose numbers fit |
| `cache_policy_lines` | a field in two lines: violated | three responses |
| `rule_store` | are accepted rules kept, and memory and files in step | 1 lemmingd, 2 merge commands, 4 rules of 3 domains, at most 2 added ones; crashes and edits |
| `rule_store_disorder` | which guarantee remains when everything overlaps and fails | 2 lemmingds, 1 merge command, 2 rules of one domain; all of `Environment`, all operations may fail; symmetric |
| `rule_store_two` | a statement of the documentation that does not hold | 2 lemmingds, 1 merge command, 1 rule; a second start, and nothing else that goes wrong |
| `trusted_routing` | requests against changes of the rules | 2 requests, 6 routers over a public and a local name and 2 local targets |
| `profile_launch` | launches, clean-ups and crashes against each other, and that nothing hangs | 2 launchers and 1 stranger |
| `leaf_issuer` | handshakes at a full table, over failures and expiry, to the end of the CA | 3 calls, 2 hosts, room for 1, validity 3 ticks, renewal 1, CA of 4 |
| `proxy_server` | slots, owners and deadlines while the server stops | 2 connections, limit 2, idle time 2 ticks, header timeout 1, renewal of deadlines after 1 |
| `ca_files` | starts, failures and crashes at the two files | 4 starts, every operation may fail |

Why the bounds are enough to be of interest. In `cache_store` one body fills the
budget with its metadata, so that every second commit evicts; a body of 3 is over
the object limit; three downloads of two keys give two that replace one another
while a third is refreshed or evicted; two of them together exceed `pending`.
`cache_refinement` adds a body of 1, of which two are captured at a time but whose
entries (1 and 1 of metadata each) do not both fit, and a body of 3, which passes the
object limit and is too large for the store once its metadata is added. In
`cache_policy` every pair of instants that the code compares is met before, at and
after equality. In `rule_store` two rules of one domain make the conflicts, and
two added ones reach the limit. `rule_store_disorder` is symmetric in its two lemmingds
and its two rules of one domain, which only `DomainOf` could tell apart (safety only, so
that the reduction is sound). In `trusted_routing` a change can remove, add and
swap targets, two hosts can share one, and a second change can start before a
request is through. In `profile_launch` a crashed launcher leaves its directory,
lease and Firefox, running or still starting, to the second. In `leaf_issuer` the room for one host makes every
second host evict the first, also while it is generated, and the third call joins,
finds the entry gone or too old, or begins again; leaves of 3 ticks are renewed within
the 4 that the CA lasts, and the last ones are capped by it. In `proxy_server` two
hijacked connections take all slots, which is where a stop could hang; the header
timeout is shorter than the idle time, so that taking it back matters, and deadlines
are renewed less often than traffic comes. In `ca_files` two starts create at a time
while a third loads what is there, and the fourth is the next one after a failure or a
deletion.

Fairness. `cache_refinement`: a goroutine that holds the mutex, the scan, and the
steps of a refresh go on (weak fairness); that the origin ends its body is an
assumption about the origin, because `refresh` sets no deadline for it.
`profile_launch`: a process and its goroutine go on (weak), and the timer of
`waitForFirefoxProfileLock` is strong, since the loop looks at it between probes
and it stays ready once it has fired. Nothing is asked of Firefox, of people or of
signals. `leaf_issuer`: a call that can go on does; nothing is asked of the clock.
`proxy_server`: the loop of `Serve`, `stopServer` and `serveMITM` go on, time passes, and
a read returns at its deadline; nothing is asked of clients. That a target ends its
output once its input was closed is an assumption about targets: a tunnel with one
direction closed keeps its slot until the other one is over, and a target that goes on
writing keeps it as long as it likes (the idle time counts reads and writes). Nothing is
asked of a target that is still to be written to: it may never read, no deadline then
acts, and `SlotComesBack` exempts its connection (`Stuck`). The other
runs check safety only. Deadlock is checked except where a system may stop:
`cache_policy` (its clock ends at `Horizon`), `profile_launch` and `ca_files` (all
processes have ended), `leaf_issuer` (all calls have returned) and `proxy_server` (the
proxy was stopped).

`rule_store` lets the backup and the replacement of `config.json` fail, not the
removal of `rules.auto.json`. With that failure `NextStartRoutes` does not hold: the
running lemmingd keeps adding to a file that the next start skips. Nor does it let a
lemmingd start during a merge, or the command be given while a lemmingd starts or
drains: `AcceptedKept` and `NextStartRoutes` do not hold then (see the disagreements).
The run `rule_store_disorder` includes all of this for the property that remains.

## The proofs

TLC explores the instances above; these theorems hold for every set of keys,
downloads, readers, addresses, routers, requests, rules and processes (those that are
counted or summed over: every finite one), and every value of the limits
that satisfies the assumptions in the modules (`SizeAssumption`, `NameAssumption`,
`AddressAssumption`, `RuleAssumption`, `ProcessAssumption`, `IssuerAssumption`,
`ServerAssumption`, `StartAssumption`, `PolicyAssumption`: sorts, that limits and timeouts are positive, that
the first `config.json` has one rule per domain, and that names like `None` are none of
the data).

`CacheStoreProofs`:

- `Invariance`: `Spec => []IInv`, by `Initially` and one lemma per conjunct and
  step.
- `TypeCorrect` (`TypeOK`), `MutexCorrect` (two processes are never inside the
  critical sections), `PairCorrect` (`PairIntact`) and `ServedCorrect`
  (`ServedWhole`) follow.
- On top of `IInv`: `Books`, from which `RefreshCorrect` (`SingleRefresh`) and
  `TemporaryCorrect` (`NoTemporaryLeft`) follow; `PendingCorrect` (`PendingExact`) for
  finitely many downloads and `IndexCorrect` (`IndexMatchesDisk`) for finitely many keys.
- `CacheImplemented` (`ImplementsCache`): the store implements `AbstractCache`.

`PairIntact` and `ServedWhole` are not inductive. That the files of a key belong
together after a rename depends on who may touch them (`MutexInv`: only the holder
of the mutex is at a file operation; `DownInv`: nobody is while the process is down
or scans), on what the holder has done so far (`StepInv`: the metadata is gone
before the body is, and the new body is in place before the new metadata), and on
the temporary file having the length that was counted (`CaptureInv`, `DeliveredInv`:
a download that reached the end has written what the origin sent, and its key and
length do not change any more). `FilesInv` says it of the files with the length the
metadata names, which is what `load` compares.

The books are a second layer. `MarkInv` is `SingleRefresh` with which goroutines are
refreshes. `TempAt` and `CountAt` say of each place of a download whether it can have a
temporary file and counted bytes. `pending` is exact in every state (`PendingInv`), but
that the files fit `MaxBytes` is not inductive: a `Read` counts its bytes before it knows
whether they fit, so `HeldInv` sums what is in the files or may go there. The index
equals the directory only when nobody holds the mutex; in between, `IndexInv` exempts the
one key that the holder has removed or renamed a file of (`Worked`), and a key that a
commit is about to place is not listed. `TotalInv` sums what is listed, `LimitInv` says
that an eviction goes on while that is too much. The lemmas on sums (one
term more, less or changed, a part of the terms) are proved from the definition of the
community module's fold by a smallest counterexample among the subsets of a finite set
(`MinimalSubset`): the library has it that they are well founded, so that no induction
rule is needed.

The refinement needs of a body that it is of an ended response and not longer than it
(`BodyInv`). Each step then maps to one of the abstract cache or to a stutter: a rename
of the metadata to an insertion, the first removal of a file of an entry to its loss,
also by the scan, a failed commit or an eviction; a crash keeps the files, hence what the
abstract cache has.

`TrustedRoutingProofs`: `TypeCorrect`, `CoverCorrect` (`TrustCoversRouter`),
`TightCorrect` (`TrustIsTight`), `DeniedCorrect` (`DeniedOnlyByRule`) and
`RefusedCorrect` (`RefusedOnlyWhenRemoved`, an action property). The invariant says
what the trust list holds at each of the three stages of `install` (`IdleInv`,
`WidenedInv`, `StoredInv`), from which the list covers the router at every instant,
and that whatever is trusted was a target of a rule since a request under way
arrived (`SeenInv`).

`CachePolicyProofs`: `OrderCorrect` (`NeverYounger`), `InTimeCorrect` (`ServedInTime`) and
`UsedCorrect` (`LifetimeUsed`). The first holds for any fields, also where the
arithmetic wraps: an entry keeps the instants of its judgement (`EntryInv`). The other
two are about what the fields mean, and ask what `cache_policy` asks by its choice of
responses and the code does not test (`Fits`): one `Cache-Control` line, and no product
with a second that leaves an int64. `InstantsMean` is the heart of them: under `Fits` the
code's two instants are the unbounded ones. `DivideLess` bounds the Age, which `load`
computes from whole seconds.

`LeafIssuerProofs`: `TableCorrect` (`TableConsistent`), and the action properties
`LostCorrect` (`LostOnlyToAnother`) and `SharedCorrect` (`SharedIsFresh`). The table is
inductive only with what its entries are (`HostInv`: an entry is of a call that was made
and has its host for good) and what calls have generated (`MadeInv`: no certificate
outlives the CA, and a call that withdraws has a closed, failed entry). The lemmas on
`RemoveFirst` say what removing from a sequence without repetitions does; a step of
`Begin` combines a removal, an eviction and an insertion. `WaitersCorrect` is the part of
`CallReturns` that is no liveness: whoever waits for an entry, also for one that has left
the table, waits for a call that generates it and waits for nobody, or for a closed
channel.

`ProxyServerProofs`: `SlotsCorrect` (`SlotsExact`), `OwnerCorrect` (`OwnerKeeps`) and
`DeadlinesCorrect` (`DeadlinesRight`). Slots are the cardinality of a finite set that
each step changes by the connections it closes, whoever closed them before.
`SessionInv` says that `serveMITM` wakes up without having been told of a hijacker only
when the connection is over, which is why its deferred call closes nothing that is used.
`TimerInv` bounds, for each owned connection (`Timed`), the sum of the time to the
deadline in force and of the time it was quiet: from below by the idle time less the
precision of `touch`, and, while something pends on it, from above by the idle time, or
by the header timeout before the first byte. When the owner is blocked the upper bound is
gone; it comes back with the next `Read` or `Write`, which finds the idle limit due for renewal.

`CAFilesProofs`: `KeyFirst` (`KeyBeforeCert`), `NoHalfLeft` (`FailedLeavesNoHalf`) and
`InUse` (`UsedKept`). The key is created first and
exclusively, so whoever has created it is alone with both files until it is through
(`MakeInv`); the certificate comes after the whole key and is taken back before it. A
start that saw no certificate either still sees none or one with its key (`CoverInv`),
the files of a start that is through stay or go together unless people delete one
(`OwnInv`), and what a start has read stays until it has the key (`ReadInv`).

`RuleStoreProofs`: `OneRule` (`OneRulePerDomain`), with overlapping processes, failures
and edits. A merge writes, two steps later, what it found sound when it read; the
invariant therefore speaks of the jobs under way (`JobsSound`), of what a starting
lemmingd has read (`MemorySound`) and of what an `AddRule` is about to save
(`ChangesSound`), and ties a lemmingd's job to its control API (`JobsAsked`).

The other theorems are about the files and what processes know of them, for lemmingds
that run one at a time (`NoOverlap`: none is started beside another one or a merge, and no
merge command is given while one starts or drains its control API; several commands may
still merge at the same time, and each process may end or fail anywhere, also in the
middle of a change): `KeptCorrect` (`AcceptedKept`), `AsksCorrect` (`MergeAsksRunning`),
`LiveCorrect` (`LiveMatchesFile`), `NextStartCorrect` (`NextStartRoutes`) and
`MergedCorrect` (`MergedMatches`). `LiveCorrect` and `MergedCorrect` ask that nobody
deletes `rules.auto.json` under a running lemmingd, `NextStartCorrect` that
`rules.auto.json` can be removed. No hypothesis is for the proofs' sake: TLC refutes each
of the statements, on an instance like the run's with two lemmingds, when one of its
hypotheses is dropped. `FInv` is the invariant. `JobFits` is what makes merges safe against one another: all of them hold the
same rules, and once `rules.auto.json` is gone these are in `config.json`, so that a late
replacement writes what is there; `SaveFits` says of an `AddRule` or `RemoveRule` that
memory and file still agree on what it began with. `Lone`, `Named` and `Offline` exclude that a lemmingd
runs beside the command; for a lemmingd that merges, `OwnFits` ties its job to its memory.
`NextStartRoutes` needs to know whose rule hides an added one: what `config.json` has and a
running lemmingd does not know was written by people (`BaseInv`), so an added rule cannot
meet it unnoticed, and a conflict with any other rule comes from a merge that was cut off
after it had put all rules into `config.json` (`HiddenInv`).

`ProfileLaunchProofs`: `Exclusive` (`PreparationExclusive`), `Untouched`
(`ProfileUntouched`), `LeaseKept` (`LeaseOfRunning`) and `Honest` (`LaunchHonest`). The
preparation directory guards the profile until Firefox has its native lock, and the
native lock afterwards; `GuardAt` says that they overlap: a Firefox that was started but
has not reached the lock is that of the process whose directory is there or a loose one, a
launch past its check of the lock finds it free, and a launch that waits finds it free or
its own Firefox's, but for those that no directory guards (`Foreign`: strangers and the
loose ones). `SafeAt` has what holds in any case, and `LooseAt` that nobody is loose
unless people interfere. `OthersKeep` shows once what a step of one launcher leaves of the others
(`Moves`); a lemma for each group of steps shows the rest.

Every safety property of the runs that pass is a theorem. Only model-checked: the
liveness properties (`RefreshEnds`, `CallReturns`, `PreparationReleased`, `CloseEnds`,
`StopEnds`, `SlotComesBack`), since fairness and `ENABLED` are out of the prover's reach,
and the two statements that a run refutes.

## Where code and documentation disagree

Each is a run that TLC ends with a counterexample; the quotes are in
`PROJECT.json`.

1. `rule_store_two`: a second `lemmingd` replaces `control.json` before its port
   turns out to be taken and removes it when it ends. From then on
   `lemmingd config merge` edits the files under the running first one.
2. `cache_policy_lines`: only the first `Cache-Control` line of a response is read.

Smaller ones, met while modelling, without a run:

- A `max-age` above about 292 years wraps to a negative lifetime (`cache.go:342`).
- `disable` gives a download's bytes back to `pending` before it removes the file
  (`cache.go:570`), so that the temporary files may exceed the budget for an instant,
  although `cache.go:533` says they may not.
- `Merge` succeeds without looking at `config.json` when `rules.auto.json` is missing,
  and still counts its live rules as merged (`service.go:284`).
- `Server.Close` closes the listener of the control API before it waits for what is being
  executed (`control.go:114-119`), and `Client.Do` takes a refused dial for "not running"
  (`control.go:230-235`). A `lemmingd config merge` at that moment edits the files beside
  an `AddRule` under way, though `docs/lemmingd.md:652` has it ask a running lemmingd and
  `auto.go:129` forbids that: an accepted rule can be lost (it is saved after the merge read
  the file and before it removes it), or what was merged is written to `rules.auto.json`
  again and the next start skips that file. TLC shows both with `"hasty"` in
  `rule_store`'s `Environment`, also with one lemmingd and without a crash.
- After a crash in `waitForFirefoxProfileLock` the removal of the preparation directory
  that `docs/lemmingd.md:139-141` asks for lets the next launch write the profile under a
  Firefox that is still starting, and take that Firefox's lock for its own, against the
  comment in `firefox.go:204-206`. The documentation names other lemmingd processes, not
  their Firefox. `ProfileUntouched`, `LeaseOfRunning` and `LaunchHonest` except this.
- `listener.go:13-16` and `docs/lemmingd.md:715-717` promise that idle tunnels and
  intercepted sessions are closed after 15 minutes. A tunnel whose copy to the target is
  blocked in `Write`, while the other copy waits for the target, is not: no `Read` or
  `Write` of the client's connection is pending on the deadline, and connections to
  targets have none (`proxy.go:75-77`). `DeadlinesRight` speaks of what pends, and
  `SlotComesBack` excepts it.
- `removeExitedLease` leaves its lease to the owner of the preparation directory, which
  may not remove it (`firefox.go:473`); the native lock decides all the same.
- "Concurrent callers for the same hostname share one generation" (`leaf.go:72`) does
  not hold for a host that is evicted while its certificate is generated.
- `writePair` takes a pair back whose certificate file could not be closed, although
  another start may have loaded it by then (`pki.go:200`); `UsedKept` excepts it.
- A stop between the two files of a new CA leaves the key alone, and no proxy of the
  directory starts until a person deletes it. The error message asks for that.

## What is not modelled

- Range requests, `Vary`, cache keys, and which methods, statuses and headers bypass
  the cache: one choice of the environment in `CachePolicy`.
- In the store: failing removals (the code ignores the error), temporary files
  younger than an hour that the scan leaves alone, foreign files in the directory,
  file times.
- Syntax of JSON, targets, domains, paths and headers; authorization of the control
  API; TLS and certificates as cryptography; logs and messages.
- Idle connections that the HTTP transport keeps, up to 90 seconds, to the target of
  a removed rule (`proxy.go:65`).
- A person who edits `config.json` while a merge is between its read and its rename:
  the edit is lost, and nothing in the code is meant to prevent it.
- In `ProfileLaunch`: a `certutil` that never ends (the code sets it no timeout), or that
  outlives the lemmingd that started it.
- A wall clock that is set back: in `CachePolicy` and `LeafIssuer` time only goes on. An
  `os.Open` that fails because the process has no descriptors left, which `load` takes for
  a missing file: the request is a MISS, and the entry is removed if it was its body.
- Of `ProxyServer`: connections to targets but for whether one is waited for, and HTTP/2, which the server does not offer.
- The ring of the last 200 requests and the reports of the rule service.
- Reuse of process identifiers; Firefox's symbolic link lock apart from its fcntl
  lock; systems other than Linux.
- The MCP server and `cmd/hamsterd`, which keep no state.

## Plan

Done: `AbstractCache`, `CacheStore` and `CachePolicy`; `RuleStore`; `TrustedRouting`;
`ProfileLaunch`; `LeafIssuer`; `ProxyServer`; `CAFiles`; proofs of all of them but
`AbstractCache`.

Next modules:

1. `RuleStore` with requests: composition with `TrustedRouting` over one `install`.
2. `config.LoadOrCreate` of two first starts, and the ring of recent requests.

Next theorems:

1. `RuleStore` with the removal of `rules.auto.json` failing: what a start still routes. The
   same of a command that meets a draining lemmingd (`"hasty"`): which rules survive it.
2. The safety parts of the other liveness properties, as `WaitersCorrect` is of
   `CallReturns`: whoever a stop, a refresh or a slot waits for can go on.
3. An abstract set of rules that `RuleStore` without overlap implements.
