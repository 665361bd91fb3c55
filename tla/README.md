# Binfinity addon SDK: TLA+ models and proofs

The Binfinity addon SDK (Go) is the agent that runs beside a data source.  It
enrolls with the platform, keeps a heartbeat, polls for commands, streams backups
and restores through the `binfinity` CLI and reports the results.  This directory
holds TLA+ modules of its core, the TLC configurations that check them, and
proofs for TLAPS.

## 1. The system

### Parts, their state and their operations

| Part | Code | State | Operations |
|---|---|---|---|
| Result outbox | `outbox.go`, `sdk.go` 713-767 | one file per command in a directory | enqueue, ack, pending, flush; report, sendReport, reportLoop |
| Command execution | `sdk.go` 212-248, 537-603, 646-711 | the cancel hook and its flag (`jmu`) | poll, execute, startJob, endJob, requestCancel, doBackup, doRestore |
| Heartbeat, live map | `sdk.go` 496-535, 605-644 | activity and progress (`amu`) | sendHeartbeat, setActivity, beginProgress, addBytes, endActivity, snapshot |
| Backup data plane | `dataplane.go` 65-105 | an `io.Pipe`, a child process | Backup |
| Restore data plane | `dataplane.go` 107-155 | an `io.Pipe`, a child process, a goroutine | Restore |
| Token, data-plane configuration | `sdk.go` 250-279, 317-400 | cached token (`tmu`), store (`dmu`) | token, fetchToken, applyDP, currentDP |
| Enrollment | `sdk.go` 452-492 | the credentials file | ensureEnrolled, persist |
| Incremental backup, chain restore | `sdk.go` 661-702, `wire.go` | the cursor, the chain of ids | BackupIncremental, RestoreIncremental |
| Backoff, memory limit | `outbox.go` 143-161, `memlimit.go` | none | backoff, seedFrom, applyMemoryLimit |
| WordPress connector | `examples/wordpress-client/main.go` | the site: database, wp-content, object cache | write, dumpDB, addContent; apply, consume, loadDB, clearDir, extractInto, flushObjectCache |
| Other connectors | `examples/*/main.go` | none | one external program each |

### Interactions

Three goroutines run for the life of the process: `pollLoop` (poll, execute,
report, one command at a time), `heartbeatLoop` and `reportLoop`.

- `pollLoop` and `reportLoop` share the outbox directory without a common lock
  (`outbox.mu` serialises scans only) and may send the same result at once.
- `heartbeatLoop` reads the activity that `execute` writes, and cancels the job
  `execute` has registered when the answer of a heartbeat says so.
- Every control call takes the token; a grant runs outside the lock and also
  brings the store that the next backup or restore uses.
- `execute` calls the data plane with a context derived from that of the
  process; the data plane runs the connector against the CLI over an `io.Pipe`,
  with os/exec's copier and its kill-on-cancel watcher as further actors.
- The outbox lies beside the credentials and outlives the process, so results of an
  earlier run are sent by a later one, under the identity that one has.
- A backup of the WordPress connector walks a site that its users go on changing.
  The cursor it returns comes back in the next incremental command, and the chain CBS
  has recorded comes back in a restore.
- The control plane (CBS), the identity service (AMS), the CLI, the network, the
  operator and the container's runtime are outside the repository.  They are
  modelled from the way the code uses them and are marked external.

### What is hard, and what makes each part correct

| Part | Hard because | Correct means |
|---|---|---|
| Outbox | kill at any point, lost and late requests and answers, two senders, re-dispatch by the reaper | an outcome on its way is never only in memory; no file goes before its command is recorded; the outbox drains |
| Execution, cancel | cancel races end of stream, end of job and the next job | a cancel does not leak into another job; an aborted stream is cancelled, not failed; a job reported cancelled is the one that was aborted |
| Live map | separate critical sections | what is shown is the running job's |
| Backup | producer, copier, CLI and kill interleave; the source or the CLI fails midway | no error means all of it is stored; constant memory; the call returns |
| Restore | the stream may tear anywhere; the consumer may stop | a clean end of file means the whole backup; the call returns |
| Token | slow and overlapping grants | a cached token is valid; the store catches up with the platform's |
| Enrollment | keys with few uses, lost answers, a kill around the write | redemptions beyond the first make up for faults; results keep their identity; the agent gets to work |
| Incremental, WordPress | a site that changes under the walk, the order of cursor, dump and walk, restores and failures between two backups | the chain of a backup yields what its walk met; a restore reported done has put the site in that state, and nothing stale is served |
| Backoff, memory limit | boundaries, caps, division | the wait is the one promised for the attempt; the CLI is left its share |

## 2. Modules and how they correspond to the code

- `Delivery` is the abstract promise about one result: none, held, recorded.
- `Outbox` is the detailed delivery.  `epc` is pollLoop's place in
  `execute`/`report` (`write`, `fill`, `rename` are the three effects of
  `enqueue`, each of which a kill can follow), `lpc` is reportLoop's place in
  `flush` and `pending` (listing and reading are separate, so a file may vanish
  or change in between).  `net` is the set of requests under way; a request whose
  sender gave up or died stays in it as `late`.  A result is the number of the
  execution that produced it, so a re-execution of a command is a new result.
- `JobControl` is the life of a command.  Every critical section of `jmu` and
  `amu` is one action; `requestCancel` is two (`GrabHook` under the lock,
  `CallCancel` after it).  The data plane appears by its effects: bytes flow, the
  manifest is committed, the call returns with or without an error.  `execute` looks at
  that error only, and so does the model; that no error means a whole manifest is not
  JobControl's to say but BackupPipe's (`OkIsComplete`).
- `DataPlane` states what `execute` may rely on: success means one whole
  manifest, and no manifest appears after the call.
- `BackupPipe` and `RestorePipe` are `CLIDataPlane.Backup` and `.Restore` with
  producer or consumer, copier, CLI, waiter and watcher as separate actors.  A
  stream is a number of chunks.
- `AccessToken` is the token cache with overlapping grants.  Time is relative:
  the model keeps what is left of each lifetime.  An answer that states no lifetime
  counts for `DefaultLife`, and one without a store leaves the store as it is.
- `WordPress` is the WordPress connector with the part of `doBackup` and `doRestore`
  that drives it through cursor and chain.  Its actors are the site (files change,
  arrive with old modification times and vanish, the database changes, pages are
  served through the object cache), a backup (`StartBackup`, `Dump`, `ListContent`,
  then `Skip`, or `Header` and `Copy`, for each file, and `Commit`) and a restore
  (`LoadDB`, `ClearOnce`, `Extract`, `EndElement`, `Flush` for each element of the
  chain).  A file is read twice, for its header and for its content, and the site may
  act between the two.  The content of a file is a version.  `ClearOnce` is its own
  action because `consume` clears on the first member below `files/`, after the dump.
  A restore that fails leaves its step half done: a database that mysql has dropped and
  not filled (`LoadCut`), a directory cleared in part (`ClearCut`), a file written in part
  (`ExtractCut`); later backups read what it left.
  CBS is a list of backups, each with its chain; the history variable `seen` keeps what
  each walk met.
- `Agent` is the life of the process over restarts: credentials read or redeemed,
  saved in place (`Truncate` and `Write` are the two effects of `os.WriteFile`, each of
  which a kill can follow), then work.  Of the outbox it keeps whose results are in it.
  It shares with `Outbox` only that; `Outbox` has the files.
- `Limits`, which `Agent` extends, holds the pure computations: `Backoff` with its
  jitter, and the choice of the memory cap and the soft limit.
- `OutboxProofs`, `JobProofs`, `PipeProofs`, `RestoreProofs`, `TokenProofs`,
  `WordPressProofs`, `AgentProofs` hold the theorems; `RestoreImageProofs` extends
  `WordPressProofs` with those about restores.

`BackupPipe` implements `DataPlane` and `Outbox` implements `Delivery`, both by
`INSTANCE` with a refinement mapping.  The configurations instantiate the
modules directly: their parameters are numbers and small sets, so no separate
module of constants is needed.  No symmetry is used: commands are ranked by file
name, and the callers of the token model are few.

Operators whose comment begins with "Mutation:" are variants of the action that
follows them, with one plausible mistake each.  No specification uses them; put in
the place of their original they make the property named with them in
`PROJECT.json` fail, which shows that the property depends on that code.

## 3. Runs

All bounds are constants.  Deadlock is checked except where the modelled call or
process really ends (the configuration says so).

| Run | Checks | Bounds |
|---|---|---|
| `outbox` | `TypeOK`, `SentIsDurable`, `NeverForgotten`, `IInv`, `KeepsPromise` (refines `Delivery`, with fairness), `EventuallyDrained` | 2 commands, 2 executions, 2 stops, 1 disk fault, 1 late request |
| `job` | `TypeOK`, `CancelledWasHit`, `CutIsCancelled`, `CancelledWasAborted`, `LiveMap`, `ExecInv`, `CancelEndsJob`, `ShutdownReturns` | 2 jobs, 1 counted chunk |
| `backup` | `TypeOK`, `OkIsComplete`, `ConstantMemory`, `PipeInv`, `KeepsPromise` (refines `DataPlane`), `BackupReturns` | 5 chunks, pipe of 2 |
| `restore` | `TypeOK`, `EofMeansWhole`, `OkMeansWhole`, `RestoreInv`, `RestoreReturns` | 5 chunks, pipe of 2 |
| `token` | `TypeOK`, `CachedIsValid`, `TokenInv`, `StoreCatchesUp` | 2 callers, lifetimes 1 and none stated (4), margin and timeout 2, 2 tries, a store that is delivered from the start or later, and moves once or twice |
| `wordpress` | `TypeOK`, `ChainIsFaithful`, `WholeInv`, `RestoredIsImage`, `NoStaleCache` | 2 files and 1 excluded one, 2 changes, clock to 3, 2 backups, 1 restore |
| `agent` | `TypeOK`, `KeyBudget`, `OwnResults`, `RetryPaced`, `AgentInv`, `EventuallyUp` | 3 faults, a key with 4 uses, 9 attempts counted |

Why this is enough to be interesting: two executions are what it takes for a command
to be re-dispatched while its first result is in the outbox, or for two commands to be
there at once; two stops allow a shutdown followed by a kill, or a kill during the
replay after a kill; a late request is what a delivery behind its sender's back needs.
Two jobs are the shortest history in which a cancel can hit the wrong one.  A stream
longer than pipe and copier together (2 + 1) blocks the producer.  A lifetime below
the margin and one above it, with a timeout equal to the margin (the code has 30 s for
both), are the two sides of the cache's boundary.
Two backups are a base and a delta, or two bases, and a restore between them or after
them; two files allow one to be copied while the other is skipped or cut short; two
changes put one before and one after the visit of a file, and a clock of three has a
time before, at and after a cursor.  The dump takes at least one unit of the clock, so a
cursor always lies before the walk that follows it: an assumption about time that no line
of the code enforces, stated as `DumpTakes`.  Three faults are one of each kind
an enrollment meets (answer lost, save lost, volume lost); a key with one use more than
there are faults is the least that lets `EventuallyUp` hold.  The delays of `agent` are
in units of a quarter of a second, so that base (2 s) and cap (2 min) are 8 and 480 and
the quarter of jitter is a whole number; nine attempts pass the cap, and the generator
is scaled to a small modulus, below a quarter of the long delays as in the code (2.1 s of
30 s), so that both limits of `RetryPaced` are reached.

### Disagreements between the code and what it says

Five runs are expected to end in a violation; each property states a claim of a
comment, and `PROJECT.json` quotes the lines.

| Run | Property | What the code does |
|---|---|---|
| `backup_failure_returns` | `FailureReturns` | when the CLI dies (by itself, or by the kill of a cancel) before it has read its input, the producer stays blocked in the `io.Pipe`, whose reader nobody closes; `Backup` never returns, and the poll loop with it |
| `backup_truncates` | `FailedSourceStoresNothing` | the CLI sees a failed producer as a plain end of file and commits the truncated stream (the result reported is still `failed`) |
| `job_cancelled_never_committed` | `CancelledNeverCommitted` | a cancel that arrives after the commit is reported cancelled |
| `job_cancelled_was_wanted` | `CancelledWasWanted` | the flag in an answer names no job, so it may abort the next one |
| `wordpress_done_restores` | `DoneIsRestorable` | the error of tar's Close is dropped, so a backup whose last file shrank while it was read is reported done, and every restore of it fails |

More of them, without a run: each is a fact that the code shows by itself, or that a
property of a passing run names as its exception.

- `examples/wordpress-client/README.md` lines 10-20 say that a backup switches
  maintenance mode on and off and that "the DB dump and files are captured at the same
  point in time".  The code has no maintenance mode: `write` dumps and then walks, while
  the site goes on (`Dump`, `ListContent`, `Copy` and the actions of `Site` between them).
  `ChainIsFaithful` therefore compares each file with the moment it was met.
- `wire.go` 71-74 says that with a chain "the connector reconstructs point-in-time".  A
  delta of the WordPress connector names no deletions, so a file deleted between base and
  target comes back, and one put there with an old modification time is missing.  Both
  are the exceptions `ChainIsFaithful` states; `RestoredIsImage` counts what comes back as
  part of the image.
- `sdk.go` 71-72 says that `isDelta=false` means "record this as full".  `doBackup` logs
  the flag and the result has no field for it, so CBS cannot record it.
- `memlimit.go` 13-14 says that the GC is to "stay under the cap".  The limit has a floor
  of 48 MiB, also in a container with less; `SoftLimitFits` says from which size on the
  limit leaves room.

`pending` is said to list "oldest first" and sorts by file
name, that is by command id; the model replays in that order.  `ack` is said to remove
"a successfully delivered result" and removes the file of a command, which by then may
hold a newer result of the same command, re-dispatched by the reaper; `NeverForgotten`
shows that CBS has an outcome of that command all the same.

## 4. Fairness

Weak fairness stands for: Go runs every goroutine that can go on; an HTTP call
returns (the client has a 30 s timeout); tickers tick; the container's runtime ends
a process that does not stop within its grace period and starts it again; os/exec's
copier and watcher run; the CLI reads its input, writes its output and exits.

Strong fairness stands for the network: a request repeated for ever gets through
with its answer at last (`Deliver` in Outbox, `Answer` and `BeatReturns` in
JobControl, `Issue` and `Adopt` in AccessToken); `Call` in AccessToken has it
because heartbeats and polls never stop asking.  In Agent the runtime starts a process
that has ended (`Start`), and what follows an answer of AMS goes on (`Truncate`, `Write`).
Reading the file and redeeming the key have strong fairness: a stop or an unreachable
AMS may come in between any number of times, each time followed by a new start, but not
for ever every time.  WordPress has none: it states safety only, and its site, bounded
in changes and time, comes to rest.

Never assumed: that the operator cancels, that the reaper acts, that a poll finds a
command, that a source or the CLI fails or a data stream of a job ends.  Because a
backup whose CLI has died may hang (`backup_failure_returns`), Outbox does not assume
that a job ends, `BackupReturns` names exactly that state as its exception, and
`CancelEndsJob` and `ShutdownReturns` except a backup that stays in its stream.  A
restore returns after an abort; that is what `RestoreReturns` shows, except for a
consumer that returns early without an error, which the connectors here do not.

## 5. Proofs

Every invariant and every action property of a passing run is a theorem of its
specification, for every value of the constants that meets the assumptions; so is the
safety part of both refinements.

Assumptions on the constants are the named `ASSUME`s of the modules: bounds and
sizes are natural numbers, the pipe holds at least one chunk, the default lifetime is
positive, the grant timeout is not above the cache's margin, a file is either
backed up or excluded and is not the database, the clock of WordPress ticks at least
once, and base, cap and generator of the backoff are natural numbers (base, cap and the
range of the generator positive).

Safety, by an inductive invariant per module, each of which the run of its module checks
as well:

| Theorem | Argument |
|---|---|
| `OutboxInvariant`, `TypeCorrect`, `Durability`, `NoResultForgotten` | `IInv`: a request under way belongs to a goroutine that waits for exactly this answer, and what pollLoop is about to send, what reportLoop has listed, read or is sending, and what is under way, are all safe (on disk, recorded, or their enqueue failed). Safety of a command alone is not inductive: an ack makes it depend on the answer having been for that command, which `ExecCallInv` and `LoopCallInv` say. |
| `ImplementsDelivery` | each action maps to `Hold`, `Record`, `RecordUnheld` or a stutter; `IInv` shows that an ack finds its command recorded, and that a command recorded without being held is one whose enqueue failed |
| `OutcomeOnlyMovesForward` | what every step of `Delivery` keeps (recorded stays recorded, held does not go back to none) carries over through `ImplementsDelivery`, without another look at the outbox |
| `JobInvariant`, `JobTypes`, `CancelReachedTheJob`, `AbortIsNoFailure`, `CancelledJobIsAborted` | `JobInv`: the hook names the running job from startJob to endJob, `asked` is true exactly if a cancel has found the running job, a job that was found is aborted or about to be, and only jobs up to the running one have an outcome |
| `HeartbeatShowsTheJob` | `LiveInv`: which activity and progress can be set at each place of `execute`. What a heartbeat copies depends on that place, and so the shown record alone is not inductive: between `beginProgress` and the reset at the end, activity, progress and job must agree although they are set in different critical sections. `ExecInv` is `JobInv` and `LiveInv`. |
| `PipeInvariant`, `PipeTypes`, `NoSilentTruncation`, `MemoryIsConstant` | `PipeInv`: while the copier lives, produced = read by the CLI + in the pipe + in the copier's hand, and while the CLI lives the copier ends only at the end of the stream |
| `ImplementsDataPlane` | the same invariant: the manifest appears once, before the call returns, and is whole when it returns without an error |
| `RestoreInvariant`, `RestoreTypes`, `NoTornStream`, `RestoredIsWhole` | `RestoreInv`: what the CLI has written is read or on its way, and the pipe ends cleanly only when the copier finished without error and the CLI exited well, unkilled |
| `TokenInvariant`, `TokenTypes`, `CacheIsValid` | `TokenInv`: a grant has lost no more of its lifetime than it is old, and it is at most `Timeout`, hence `Margin`, old when it is cached. The types say that what is left of a lifetime is between zero and a lifetime, so they need that a tick never takes it below. |
| `ChainsAreFaithful` | `SiteInv`: `ChainIsFaithful` of the recorded backups is not inductive, because a delta relies on what it skips. `CursorCovers` says that a file not modified after the cursor is what the last chain yields; `WalkInv` says the same of the backup under way, file by file, with the file between its header and its copy as a case of its own; `TimesPast` orders cursor, clock and next cursor. A change of the site is dated now, after the cursor, and so falls outside both. |
| `RestoreYieldsImage`, `WordPressInvariant`, `WordPressTypes` | `WholeInv` adds three parts to `SiteInv`. `LinkInv`: the image of each element of a recorded chain is the image of the one before it, overlaid with its own members, and every element has a dump. `AppliedInv`: a restore has put every file the site has not touched since in the image of the elements it has applied, where a member still to be read leaves the file as the element before had it; until the base has cleared the directory there is nothing to say of the files. `TornInv` with `TornKept`: a stream cut short keeps its torn member to the end, so an element with one is never finished. That a file met by the target's walk is back as it was met follows with `ChainIsFaithful` of the target. |
| `CacheIsFresh` | the last flush that succeeded follows the load of the last dump, and what the cache takes in after it comes from the database of then or, with the site's own writes, is dropped |
| `AgentInvariant`, `AgentTypes`, `KeyIsSpentOnFaults`, `ResultsKeepIdentity` | `AgentInv`: each identity issued is the one held (on disk or on its way there) or was paid for with a fault, and what the outbox holds belongs to the identity on disk or to one that was never saved |
| `KeyLastsForEveryFault` | an agent that enrolls holds nothing, so by `AgentInv` every identity issued was paid for with a fault; what is left of a key with a use more than there are faults covers this enrollment and every fault to come |
| `RetriesArePaced` | the last delay is `Backoff` of the last attempt, and `BackoffIsPaced` |
| `BackoffIsPaced` | `Doubled` agrees with base * 2^n as far as the cap (`DoubledIsPower`, by induction on the attempt); the jitter is a remainder by a quarter of the delay, and no greater than the draw it is a remainder of (`RemainderIsLess`) |
| `SoftLimitFits` | arithmetic, for every environment: no soft limit without a cap, and from 80 MiB on at least a fifth and 32 MiB below it |

`Doubled` and `Pow2` are recursive functions.  The prover cannot instantiate the
library's induction rule, whose parameter is an operator, so `AgentProofs` derives
induction over a set of naturals from the well-foundedness of `<` (`NatWF`, `SetInd`), and
from it that a sequence defined by its first element and a step exists (`Iterates`).
`Pow2Unfolds` and `DoubledUnfolds` are the equations of the two functions.

Progress without fairness.  `BackupReturns` and `RestoreReturns` are liveness properties,
which TLC checks; for every length of stream and size of pipe the following is proved of
them:

| Theorem | Argument |
|---|---|
| `BackupRunsOut`, `RestoreRunsOut` | each step lowers `StepsLeft`, a natural number: what is left of the stream, weighted by the places it has still to pass, and the places each actor has still to go through |
| `BackupIsStuckOnlyWhenBlocked`, `RestoreIsStuckOnlyWhenAbandoned` | until the call has returned, the guard of a step with fairness holds, unless the call is in the one state that the liveness property excepts (`Blocked`, `Abandoned`). A goroutine that waits does so for an actor that can go on: the cycle producer, copier, CLI has one way to close, and that is the exception. |

With weak fairness of each of these steps a call returns or ends in the excepted state.
That last inference, and the step from the guards in `CallerCan`, `CopierCan` and so on
(the unprimed conjuncts of the actions, written out again) to `ENABLED`, are not proved.

Only model-checked: the properties that need fairness, which is beyond the prover together
with `ENABLED`.  These are `EventuallyDrained` and the fairness part of `KeepsPromise` in Outbox,
`CancelEndsJob`, `ShutdownReturns`, `BackupReturns`, `RestoreReturns`, `StoreCatchesUp`
and `EventuallyUp`.

## 6. Not modelled

- The delay of a backoff (a loop may go on at any time) and the sizes of things:
  a chunk is a unit, the estimated total is left out.
- An AMS that states no lifetime is assumed to grant at least the default of 300 s: nothing
  in the repository says so, and with less the cache would serve a dead token.
- `sms_token`, which takes the same path as the store; a caller-injected data plane,
  which the token code never replaces.  The early return of `token` without
  credentials cannot happen after enrollment.
- A power failure that loses unsynced writes (`enqueue` does not fsync): the models'
  kill ends the process, and the file system keeps what was written.
- Durability of CBS: a recorded result stays recorded.
- Of the WordPress connector: the discovery of its configuration (`resolveDB` and the
  parsing of wp-config.php), which is text; the member names of earlier releases; the
  check of member paths; directories and symbolic links, apart from the directory every
  full stream has; `EstimateBytes`.  `ChainIsFaithful` exempts what a delta does not carry
  (section 3): a file put there with an old modification time, and a deletion.
- Of the chain: ids are distinct (the code's fallback id has a resolution of one second),
  the flag `isDelta`, which is logged and reported nowhere (a connector that answers a
  cursor with a full stream would be recorded as a delta; WordPress does so only for a
  cursor that does not parse, which it never returns), and a store that moves between two
  elements, which appears as an element that fails.
- The waits of `token`, which use the same `Backoff`.  Reading of the environment, JSON
  shapes, thin connectors, build and release files: nothing with behaviour worth a model.

## 7. Plan

Written, in this order: Delivery and Outbox with proofs; JobControl with proofs;
DataPlane, BackupPipe with proofs; RestorePipe with proofs; AccessToken with proof;
WordPress with proofs, which carries the incremental chain; Limits and Agent with proofs;
the proofs of what restores yield, of the live map, of the retry delays and of the types.

Next, most important first:

1. The safety half of the remaining liveness properties, in the form it has for the two
   data planes: for `EventuallyDrained`, that what is left to do never
   grows again once the faults are over, and that there is always a step that lowers it; for
   `CancelEndsJob` and `ShutdownReturns`, the same of a job that was hit.
2. Action properties over the history of chains: a recorded backup and its chain never
   change, and a cursor never goes back within one CBS history.
3. `Edge`: JobControl composed with Outbox, so that re-dispatch after a lost poll or a
   kill meets cancel, and one catalog entry per done backup can be stated.
