# A TLA+ development for GoGraph

GoGraph is an embeddable property-graph database in Go: an in-memory labelled
property graph under multi-version concurrency control (MVCC), a write-ahead log
(WAL) with checkpoints and recovery under it, a Cypher engine and a Bolt server
above it. This directory models the parts whose correctness rests on
interleavings, failures and ordering, checks them with TLC on small instances and
proves the main results with TLAPS for every instance. Paths below are relative to
the repository root; `PROJECT.json` maps every modelling definition to its lines.

## 1. Inventory

| Component | State | Operations | Interacts with | What is hard | What makes it correct |
|---|---|---|---|---|---|
| Commit clock (`graph/mvcc/mvcc.go`, `commitlog.go`, `await.go`) | allocation counter, visible frontier, registry ring of commit records, `pending`, `linked`, waiters | allocate, mark ready, stamp, publish, abandon, ratchet, await | every writer and every snapshot | lock free; helping; out-of-order publication; ring laps; lost wake-ups | the frontier passes only decided commits, one owner per timestamp, everything allocated becomes visible |
| Write barrier (`graph/mvcc/gate.go`) | striped weak counts, strong flag, ticket queue, wake channel | weak/strong lock and unlock, try, cancel | schema changes against writers | increment-then-load against raise-then-drain; cancellation at any wait | exclusion, no bad release, no lost wake-up, no starvation |
| Reclamation horizon (`graph/mvcc/horizon.go`) | occupancy words, slot timestamps, unregistered count | register, publish, leave, scan | snapshots, vacuum | scan against re-used slots, exhausted slots | nothing an active snapshot reads is freed |
| Snapshots, write brackets (`graph/lpg/snapshot.go`, `mvcc_write.go`, `direct_tx.go`) | start instant, commit record, allocated timestamp | begin/end read, begin/prepare/end write | clock, horizon, stamps, store | registration before the clock is read; a failed bracket that allocated | as clock and horizon |
| Vacuum (`graph/lpg/mvcc_vacuum.go`, `mvcc_gc.go`) | running flag, wake channel, reclamation debt, recorded watermark, sweeper slot, unit cursor | wake, start, pass, pace, retire, reclaim now, close | horizon, version stores | exit against start, charges during a pass, a wake that finds the scan suspended | no wake is lost; what is retained is held by a snapshot or accounted for; nothing runs after close |
| Version stamps, conflicts (`graph/mvcc/stamp.go`, `tx.go`, `conflict.go`) | open writer per key, version chain ends | ensure, retract, end, check | write brackets | hand-over between overlapping writers | one writer closes one version; first committer wins |
| Version stores (`graph/lpg`, `graph/adjlist`) | chains of labels, properties, lifetimes, neighbours; tombstone bitmap | versioned write, claim and cross-check, undo, abort, read as of, reclaim | stamps, horizon, Cypher undo log | records and bitmap change under different locks, partial abort, truncation under readers | a read at an instant is the history at that instant; the first committer wins |
| Generations (`graph/generation`) | current pointer, reference counts | acquire, release, publish, drain | immutable views | load-then-increment | a drained generation has no reader |
| Secondary indexes (`graph/index`) | entries, commit gate | record, apply, discard, build | write brackets | a build racing commits | an index read agrees with the graph at its instant |
| Write-ahead log (`store/wal`) | positions (appended, durable), segments, poison, leader, control record | append run, group sync, roll over, mark checkpoint, reclaim, close, open | transactions, checkpointer, recovery | fsync with the mutex released, failing flushes and fsyncs, crash at any step | acknowledged means recoverable, failed means gone |
| Transaction store (`store/txn`) | in-flight count, quiesce gate, sequence, apply gate | begin, commit, WAL-only commit, roll back, quiesce | WAL, graph | durable and visible are two moments | visibility in log order; every commit returns |
| Checkpointer (`store/checkpoint`) | watermark, captured instant, trigger queue | capture, write, mark, reclaim, trigger, stop | WAL, snapshot files, graph | pairing a durability position with a visibility instant | the snapshot plus the retained log is the database |
| Recovery (`store/recovery`) | replayed set, end of log, derived clock floor | read segments, replay, refuse | WAL, snapshot files, clock | torn tails, gaps, snapshot ahead of or behind the log | what was acknowledged comes back, once |
| Database façade (`store/db.go`) | close-once | open, close | all of `store` | order of shutdown | nothing runs on a closed log |
| Bolt server (`bolt/server`) | session state, transaction registry, quota | handle message, reap, shut down | engine | time-outs racing answers | a transaction ends once; quota returns |
| Cypher front end and operators, graph algorithms, I/O formats, CSR files, metrics, tools | — | — | — | sequential | not modelled (section 8) |

`PROJECT.json` lists under `hazards` the concrete places where these behaviours
bite, each with the properties that watch it.

## 2. The modules

| Module | Models | State and actions |
|---|---|---|
| `CommitFrontier` | what the clock promises | timestamps are handed out in order; a transaction is decided; the frontier passes the next timestamp once it is decided; recovery ratchets a quiet clock |
| `CommitClock` | `graph/mvcc` clock, registry, waiters | one variable per atomic field, one action per atomic operation |
| `Gate` | `graph/mvcc/gate.go` | stripes, flag, queue, sleepers; one action per atomic operation or mutex section |
| `Horizon` | `horizon.go`, with the snapshot, vacuum and `ReclaimNow` code around it | slots and occupancy bits; scans word by word and slot by slot |
| `WriteAheadLog` | `store/wal` with the transaction store, checkpointer, recovery and shutdown where they meet the log | positions and segments, one action per mutex section or system call, crashes |
| `VersionStore` | node labels and existence in `graph/lpg`, with transactions, conflicts, the Cypher undo log, abort and reclamation, over `CommitFrontier` | undo chains, life records, claims, tombstone bits; one action per section under a shard or tombstone lock |
| `Vacuum` | `mvcc_vacuum.go`, `mvcc_gc.go` and their callers | running flag, wake, debt, watermark, sweeper slot; clients and sweeper goroutines as processes |
| `*_proofs` | — | theorems about the module of that name; `CommitSettled_proofs` continues `CommitClock_proofs`, and `VersionHistory_proofs` continues `VersionStore_proofs` |
| `MC*` | — | TLC instances: symmetry sets and, for the clock, one constraint |

Definitions marked *Mutant* are deliberately wrong variants of the definition that
follows them. Nothing uses them; substituted for the definition they show that the
property named in `PROJECT.json` notices that bug.

### CommitClock
A member of `Tx` is a committing transaction: its goroutine and its `CommitInfo`.
`ClaimLoad` to `ClaimCounter` are `commitRegistry.claim`; `MarkReady`, `Commit` and
`Abort` are the record's life; `PublishInOrder` to `Return` are `finishCommitTS` and
`advance`, where the owner, a helper or a late publisher carries the frontier on;
`Await*` are `AwaitVisible`. `Kinds` are the four ways the code commits. A snapshot
is not an actor: it reads `visible` once, and `SnapshotStable` says that what it then
sees cannot change.

### Gate
`WeakLock` increments its stripe, then loads the flag; `StrongLock` raises the flag,
then drains stripe after stripe, then waits for the slow holders. `queue` is the
ticket order. Members of `Impatient` may give up at every wait.

### Horizon
A snapshot claims a slot (`EnterHolding`, `ClaimWord`, `ClaimBit`, `ClaimFull`), puts
up the hold-everything mark, reads the clock, publishes its instant, reads, and leaves
in two steps. A scan (`CheckUnregistered` to `RecheckUnregistered`) belongs to a
release, a vacuum pass or `ReclaimNow`; `freed` is the highest instant below which
anything was swept.

### WriteAheadLog
A position counts frames. The log's contents are `mark` (where each run's commit
marker ends) and `seg` (its segment): operation frames only take up room. `written`
is where the operating system's copy ends and `stable` what a power loss leaves for
certain; in between the outcome is a choice. A section under `Writer.mu` is one step;
`leadGroupSyncLocked` is three, because it fsyncs with the mutex released, and
`AppendRun` two (rollover, then emit) with the mutex held in between. The buffer may
spill at any frame, and a flush, an fsync, the creation of a segment, an encoding and
the truncation of a poison may each fail. `Capture` … `ReclaimSegments` are a
checkpoint, segment by segment. `Kill` loses the buffer, `PowerLoss` any part of what
is not stable; `Open` is recovery followed by `attachSegments`. `gate` is the apply
gate: the holders of minted sequences not yet passed, in order.

Abstracted: frame bytes and checksums, the effect of the operations, the spare segment's
preparer (its result is the success or failure of the rollover), a snapshot's contents
(`snapTxs`, the transactions in it), the parking slots of the apply gate.

### VersionStore
A transaction is a *bracket* (a Cypher statement or transaction: snapshot instant, undo
log, aborts when rolled back), a *bounded* one (`ApplyDurable`: sees every commit, pins
the horizon, may fail to become durable) or an *implicit* one (a direct write: one
operation, pins nothing). An operation asks for an effect: a label set or removed, a node
removed or revived. It goes through the code's steps with other transactions in between:
`SetNodeLabel` tests the node's existence, `ClaimLabel` claims and versions under the
label shard's lock, `CrossCheckNodeLife` looks at the existence again; `RemoveNode` reads
the tombstone without a lock, `NoteNodeDied` or `NoteNodeClaim` write under the life
shard's lock, `CrossCheckLabels` looks back, `FlipDead` publishes the bitmap; `Revive`,
`NoteNodeRevived`, `FlipLive` and `LateNodeRevived` are `revive`, with the birth that can
only be recorded after the flip. `EnterUndo` to `ExitUndo` replay the undo log;
`AcquireSweeper`, `WithdrawLabels`, `WithdrawLife`, `SettleFlip` and `ReleaseSweeper` are
the withdrawal of an abort; `ReclaimLabels` and `ReclaimNodeLife` a sweep. Label deltas
and life records are sequences, newest first, as their linked lists are. `LabelBagAsOf`
and `NodeExistsAsOf` are the two read functions, and the specification they are held
against is `History`: the value left by the last commit at or before an instant. The
clock is the abstract `CommitFrontier` (instantiated as `F`), which `CommitClock`
implements; snapshots are not actors, since any instant from the last watermark to the
frontier may have one.

`torn` is a ghost: the nodes on which a birth or death was recorded of a node that was
already so, or inside the window of an abort. Section 7 explains how that happens; the
passing properties about existence leave torn nodes out, the two violation runs do not.

Left out: first creations (the mapper's new nodes and the *unborn* set), properties and
edge stores, which repeat the label chain, the label bitmap index with its deferred
removals, and the waiting and retrying of a refused direct write: each attempt is a
transaction of its own.

### Vacuum
Clients make one call each: a read, a bracket, a direct write, `ReclaimNow` or `Close`.
`SendWake`, `LoadRunning` and `startVacuum` are `wakeVacuum`; `wakeVacuumOnRelease` and
`publishWatermark` follow a reader's departure; `Commit`, `chargeReclaimDebt` and
`ChargeStranded` a commit; `abortWake` to `Credit` an abort. The sweeper runs
`ConsumeWake`, `ResetDebt`, `vacuumPass`, `sweepUnit` per store, `EndPass`, then goes on
(`NextPass`), waits (`Pace`, `Backoff`, `SlotTaken`) or leaves (`IdleExit`,
`ClearRunning`, `Join`, `CheckWake`). A version is a timestamp and its store. The
horizon is its answer, `Oldest`: zero while a snapshot enters or has no slot. `held` is a
history variable: what kept the last pass from the newest versions, nothing, readers
(whose departure is signalled) or a bracket or unknown snapshot (whose departure is not).
The wait of a writer past the debt ceiling (`awaitVacuumProgress`) is a delay and appears
as the freedom of every step to be late. `Commit` allocates and publishes in one step. A
durable commit holds its instant across an fsync, not ready for a helper
(`mvcc_write.go:666`), and meanwhile the frontier stands still for everybody. That makes
no difference to `Oldest`: the snapshot of that bracket or `ApplyDurable`, which stays
registered until after the publication, lies at or below the frontier, and a pass it holds
back is one that `held` excuses.

## 3. Properties and runs

| Run | Instance | Shows |
|---|---|---|
| `clock_laps` | 3 transactions of which at most one commits directly and the others under the durability hooks, 1 registry slot | `FrontierSafe`: everything at or below the frontier is decided. `OneOwner`: no two records own a timestamp. `FrontierAllocated`: the frontier stays at or below the counter. `UnpassedFindable`: a record not passed yet can be found from its slot. `QuietSettled`: with no publication running all is visible and `pending` is 0. `LinksDropped`: no lap link survives. `SnapshotStable`. `ImplementsFrontier`: refinement of `CommitFrontier` |
| `clock_await` | 2 transactions of the other two kinds (split, untracked), 1 waiter, a recovered floor, fair | `NoLostWakeup`, `EventuallyVisible`, `WaiterReturns`. Records of these kinds are never ready for a helper, so this is progress by the owners alone |
| `gate_safety` | 4 impatient goroutines, 2 stripes | `Exclusion`, `ReleasesHeld` (neither panic is reachable), `SleepJustified` (nobody sleeps once what it waits for has come) |
| `gate_liveness` | 3 patient goroutines, 2 stripes, fair | `Acquires` |
| `horizon` | a reader, a bracket, the vacuum and `ReclaimNow` on 2 words of 1 slot, with registrations that find no slot | `ReachableKept`: nothing a snapshot reads is freed. `NoRegression` (the code's own anomaly counter stays 0). `Represented` (my slot holds my instant while I read), while four scans interleave |
| `wal` | 2 commits of up to 2 operations, segments of 2 frames, kills and power losses without bound, fair | `AckedDurable`: every acknowledged commit is in what any crash leaves. `FailedLost`: a failed commit has left the log. `NonTailDurable`: only the last segment can be torn. `SleepersHaveLeader`. `ReplayedOnce`: snapshot and replayed suffix are disjoint. `CommitReturns`: every commit returns |
| `wal_empty_segment` | 4 commits | violates `EmptyOnlyAtTail` (section 7) |
| `wal_redo` | 2 commits, kills | violates `RedoReached` (section 7) |
| `store_isolation` | a bracket of 2 operations, an `ApplyDurable` and a direct write on one node with one label | `LabelsAreHistory` and `ExistenceIsHistory`: at every instant a snapshot may be at, the read functions answer the committed history, whatever is half done. `BracketsReadOwnWrites`: a bracket sees its own effects over its start instant, and none after its undo. `StoredIsHistory`: once all is over, labels and bitmap are what was committed. `FirstCommitterWins` across labels and existence |
| `store_late_revival` | a bracket and an `ApplyDurable`, one operation each | violates `PresentIsHistory` (section 7) |
| `store_abort_window` | the same | violates `SnapshotExistence` (section 7) |
| `vacuum` | a reader (or `ReclaimNow`, or `Close`), a bracket, a direct write, two stores, threshold and cap of 2 versions, fair | `NoLostWake`. `ClosedStopped`: after `Close` no sweeper runs. `Accounted`: what is left behind is in the debt and below the threshold, unless a snapshot kept the last pass back. `AnnouncedDone`: what a departed reader announced is freed. `SelfTerminating`: the goroutine ends |

Every module also has one type invariant.

**Bounds.** One registry slot makes every timestamp a later lap, the situation 4096
slots postpone; three transactions are the smallest set with an owner, a helper and
someone displaced by both. A `pending` that is -1 while a third publisher reads it as 0
needs more of them; there the theorem `Settled` takes over from the run. Two stripes let a drain be between them while a weak locker
is on either side. Two words let a scan have passed one and not the other, and two
snapshots, one of them re-registering, find both taken. A segment of two frames rolls
over after every full run, so that even two commits of two operations span several
segments and a checkpoint has something to unlink; `wal_empty_segment` explores four
commits. In `VersionStore` the node is the unit of every lock, chain and conflict, so one
node meets all of them, and three transactions are one of each kind: a bracket of two
operations can remove and revive, undo both, and be overtaken twice. In `Vacuum` a
threshold of two lets one commit stay below it, one reach it, and two small ones cross it
together; two goroutine identities are enough for one that leaves and its successor.
`MaxTS`, `MaxFloor` and `MaxOps` cap counters. There is one state constraint: `FewDirect`
leaves `clock_laps` at most one direct commit, the protocol with the fewest steps.
Crashes need no bound, since a crash only ever ends transactions and shortens the log.

**Deadlock** is checked in every run but `vacuum`, where every client has made its one call
in the end and the system rightly stops; elsewhere a finished system stutters explicitly.

**Fairness.** Weak fairness of each goroutine inside a call: the Go scheduler runs a
runnable goroutine in the end, and mutexes, channels and timers wake their waiters. Nothing
forces a call to begin, a context to be cancelled, a checkpoint or a crash to happen. In
`Gate` a holder is assumed to release. `Acquires` is checked without impatient
goroutines: the drain polls a stripe, and a goroutine that loops on a failing
`TryWeakLock` can make the stripe non-zero at each poll. Only strong fairness would
exclude that schedule and the code does not provide it (the spins only make it unlikely).

## 4. What is proved

TLAPS checks the following for every value of the constants: any number of
transactions, waiters, goroutines, snapshots, sweepers, nodes and labels, any positive
number of registry slots, stripes, words, bits and version stores, any length of a run
and of a segment. The assumptions are the named `ASSUME`s of the modules: sizes are
positive naturals; kinds of actors do not overlap; the actors of `Gate` and `Horizon`,
the writers of `Vacuum` and the transactions of `VersionStore` are finite sets; the
"none" values are none of the real ones. One theorem has a hypothesis of its own,
`LinksGone`, which excludes the untracked kind of commit (section 7).

Few of the properties are inductive: they say what is true between steps of different
goroutines, and each goroutine acts on what it loaded some steps ago. Every invariant
below therefore adds what each program counter knows.

* **`CommitClock_proofs`**: `TypeCorrect`, `FrontierSafety`, `Ownership`,
  `FrontierBelowCounter`, `SnapshotStability`, all from `Invariance` (`Spec => []IInv`).
  `FrontierSafe` is not inductive: a helper acts on a record it loaded earlier.
  `IInv` adds what each program counter knows: the head of a slot is the newest of its
  residue (`SlotInv`), pointers lead to installed records (`PointerInv`), a claimant is
  at most one ahead of the counter and has lost its timestamp once the counter catches
  up (`ClaimInv`), an owner publishes only what it has stamped (`OwnerInv`), and the
  record `advance` works on is the one after its `f` (`CursorInv`). The heart is
  `InstallFresh`: when the compare-and-swap of a slot succeeds, no installed record has
  that timestamp. Steps are grouped by what they touch (`QuietSteps`, `SeekSteps`,
  `ClaimSteps`, `OwnSteps`), so each conjunct is argued once per group.
* **`CommitSettled_proofs`**: what publications leave behind. `Settled` (`QuietSettled`),
  `Findable`, `WakeupsKept`, `LinksGone`. `SInv` has three ideas: the timestamps above
  the frontier are dense and each is reachable through the lap links of its slot
  (`Dense`, `ChainInv`); `pending` is the number of marked records the frontier has not
  settled (`PendingInv`); and the record after the frontier, once it is marked, has
  somebody who will walk to it (`CarryInv`), which is the pairing of a store with a load
  that the comments of `finishCommitTS` appeal to. `WaitInv` does the same for a waiter
  between its registration and its second look at the frontier. `LinkedInv` and `DropInv`
  count the links and name, for each, who will drop it.
  Then `Refinement`, `Spec => ImplementsFrontier`: a timestamp is allocated when its record is installed, not when the counter moves; an outcome is
  decided by the owner or by a helper of a ready record (`OutcomeInv`); the frontier
  passes one decided timestamp per step. `Dense` is what makes the frontier's next
  timestamp one that was handed out.
* **`Gate_proofs`**: `GateTypeCorrect`, `GateExclusion`, `GateReleases`, `GateWakes`.
  `IInv` says that each counter is the cardinality of the goroutines it counts
  (`CountInv`), the gate has one owner (`OwnerInv`), nobody fast is left in a drained
  stripe (`DrainInv`), and a queued locker has a ticket (`QueueInv`). `CountPreserved`
  reduces all counting to one goroutine moving at a time.
* **`Horizon_proofs`**: `HorizonTypeCorrect`, `HorizonSafety`, `WatermarkMonotone`,
  `SlotsRepresent`. `IInv` ties slots to holders (`SlotInv`), bounds every watermark
  used so far (`BoundInv`), and says that a running scan is at or below every active
  instant or has still to come to that snapshot's slot (`ScanInv`, with `Pending`). It
  is the formal version of the argument in `horizon.go`: a reader the scan misses
  registered after the fallback was sampled, so it starts at or above it. The proof also
  shows that one of the two tests of the unregistered count in `Oldest` suffices.
* **`WriteAheadLog_proofs`**: `TypeInvariance`, `Durability`, `NoPhantom`, `NonTail`,
  `SleepersLed`, `OnceReplayed`: all of the log's safety properties. `WInv` orders the
  positions (`LogOrder`: what is stable was written, and is ahead of `durablePos` only
  between a round's fsync and its publication), keeps the active segment's start in the
  durable part (`SegOrder`), allows one leader, which nobody poisons while it fsyncs
  (`Leading`), and places every run: an unanswered one lies above every redo position that
  is or will be published and in the segment recorded for it, an acknowledged one is
  stable above the redo position or in the snapshot (`Runs`, `Images`), and a failed one
  is beyond what any later sync can reach (`Failures`). `AckedDurable` follows from
  `Runs` and `Images` whatever part of the unstable log a power loss takes.
* **`Vacuum_proofs`**: `TypeInvariance`, `WakesKept`, `CloseStops`, `AnnouncedFreed`,
  `DebtAccounts`.
  `VInv` says that `running` is set exactly while one sweeper is in its loop
  (`OneSweeper`), that the wait group counts the sweepers that have not joined
  (`Joined`), and that every version at or below the announced watermark is ahead of
  somebody: a wake is under way, the sweeper will pass again, or its pass has yet to
  reach that store (`Owed`, with `Scheduled` and `Ahead`, which follow the round-robin
  cursor). `NoLostWake` is one of its conjuncts: it is inductive once `OneSweeper` is known.
  `Accounted` needs `DInv` beside it. The debt is no count of anything while a commit has
  published and not charged, or an abort has charged and not credited, or after a reset that
  fell between the two, when it can be negative. `Debts` says that in these states either the
  debt will be reset before anybody relies on it (`Notified`: every abort ends in a wake) or
  the versions that no sweeper comes to, less a set `V[w]` for each writer `w` that stands at
  its charge and has at least that many to charge, are no more than the debt (`Tally`).
  Naming the sets instead of adding up what is still to be charged keeps the argument free of
  sums over processes. A reset and a pass that nothing holds back leave no such version,
  because each version of that moment is `Scheduled`.
* **`VersionStore_proofs`**: `TypeInvariance`, `FirstCommitter`, from `Invariance`
  (`Spec => []StInv`). `FirstCommitterWins` speaks of journals, while the code compares
  versions; `StInv` connects them. `Order`: the label chain, life records and claim of a
  node are in commit order: who puts a version on top has seen what lies below
  (`Precedes`). `Kept`: what a transaction has journalled still has its version, unless
  that was reclaimed, and then it lies below every instant that is still read at
  (`Settled`, with `WaterOK`). `Journalled`: of two transactions whose effects on a node
  collide, one has seen the other. A label claim and a death are in different chains
  under different locks; the proof follows the code's comments: both publish their own
  claim before they look at the other side, so at least one of the looks finds something.
  Undo and abort keep what others put below or above (`Undone`, `Left` and `Displacing`
  only take away or replace the transaction's own versions), and a sweep only thins what
  is settled (`Thinned`).
* **`VersionHistory_proofs`**: `LabelReads`, `ExistenceReads`, `OwnReads`, `StoredHistory`,
  from `HistoryInvariance` (`Spec => []HInv`): what the store reads is the committed
  history. The history is defined by the journals of the commits and their timestamps,
  while the code walks undo chains, compares sequence numbers of births and deaths, or
  looks at a bitmap; `HInv` says why they agree. `LabelHist`: wherever a walk down a chain
  may stop, what it has undone so far is the history of every instant that stops there, so
  each delta holds what the commits below it left. `LifeHist`: the records of a transaction
  say what was before it, to an instant that sees all that precedes it and not itself, and
  what is after it, to one that sees nothing after it. `OwnLabels` and `OwnLife`: the bag and
  the newest records of an open transaction are its journal, up to the one effect that is
  in the store and not yet journalled (`Pushed`) or the one that the replay has taken from
  the journal and not yet undone (`Undoes`). `Toggles`: every journalled effect changed its
  cell, which is why an inverse restores the value before it. `TombOK`: with no open writer
  the bitmap, with the flip that a withdrawal owes, is the last of the history. The last
  three only speak of transactions that were refused nothing: a refused one leaves versions
  its journal does not explain, and `Gone` says that none is left when its abort has ended.
  Each action is proved once as a step of its writer (`ActorOK`) and once as what the
  others see of it: a delta pushed on top, own versions taken away, or settled ones cut off
  (`LifeGrows`, `LifeTrim` and the like). What `History` is comes from `HistoryKnown`: the
  last writer of a cell at or below an instant exists and is unique, because commits that
  touch one cell are ordered (`Journalled`). The excuses of the properties are in the
  invariant as they are in the runs: nothing is said of the existence of a torn node.

All of these invariants hold in TLC's runs on the instances of section 3 as well (`Dense`,
which quantifies over the naturals, up to a bound above the counter).

**Only model-checked.** Liveness (`EventuallyVisible`, `WaiterReturns`, `Acquires`,
`CommitReturns`, `SelfTerminating`): it needs fairness and `ENABLED`, which this prover
does not handle. Every invariant and every action property that a passing run checks is a
theorem.

## 5. How the parts compose

`CommitClock` and `Horizon` meet in one number: the frontier. `Horizon` takes the clock
as a counter that only grows (`Tick`), which `SnapshotStability` proves of
`CommitClock`. `VersionStore` instantiates `CommitFrontier` itself, the specification that
`CommitClock` implements by the theorem `Refinement`, so its transactions allocate, decide
and are passed exactly as the abstract clock allows; its reclaimer uses any watermark up
to the oldest pin, which `ReachableKept` justifies. `Vacuum` takes the horizon as the
value `Oldest` and relies on `NoRegression` for a watermark that never moves back; what
its sweeps may remove is `VersionStore`'s `Cut`. `WriteAheadLog` takes the clock as the
step `PublishInstant`: after it, by `EventuallyVisible`, the commit is what a capture
sees; its `Settled` is `AwaitQuiescent`, which `QuietSettled` is about. The bounded
transactions of `VersionStore` are the ones whose durable step `WriteAheadLog` models.
`Gate` protects schema changes and has no other contact with the rest.

## 6. Plan

1. Done: the clock, barrier and horizon with their proofs; the log with group commit,
   rollover, checkpoint, crash and recovery; the version store of labels and existence
   with conflicts, undo, abort and reclamation; the vacuum's life cycle.
2. Done: theorems for every component, the refinement of `CommitFrontier` among them.
3. Done: the history properties of `VersionStore`, for labels, existence, own writes and
   what is stored at rest, and the account of `Vacuum`, `Accounted`.
4. Further models, if the project grows: `Generation` (references and drain), `Session`
   (Bolt session states with the transaction registry, its reaper and the quota),
   `Replay` (operation frames and resumed sequences), the checkpointer's trigger and stop.

## 7. Findings

* **`wal_empty_segment`**: `rolloverLocked` does not test the segment's size again after
  it has waited for a leader. If meanwhile another run rolled over and failed before its
  first frame, the waiter rolls over an empty segment, which ends up in the middle of the
  log; the next open takes it for a missing segment and refuses the store.
  `docs/design-wal-v2.md` states that empty segments exist only at the tail.
* **`wal_redo`**: after a restart `durablePos` is the end of the log as it was read,
  which no fsync need have covered, although `DurableOffset` is documented as "the log
  position covered by the last successful fsync". A checkpoint then publishes it as its
  redo position, and a power loss can leave a log that ends below it.
* **`store_late_revival`**: `revive` tests the tombstone, then flips the bitmap, and when
  the flip finds a tombstone that was not there at the test it records the birth
  afterwards, which may be refused. The comment relies on the undo log to repair the
  bitmap; `ApplyDurable` has none, and a Cypher `AddNode` of a node that was alive
  journals nothing. A committed removal is left alive in the bitmap.
* **`store_abort_window`**: the withdrawal of an aborted removal deletes the death under
  the life shard's lock and clears the tombstone later, without it. A snapshot that reads
  in between finds no record and the bitmap still dead. `NodeExistsAsOf` is documented to
  rely on the opposite order, which only removals and revivals keep.

Relatives of the last two, seen in the model and excused in `store_isolation` by `torn`
and `owed`: a removal (or revival) whose unlocked test is stale records a second death of
a node that is dead by then (or birth of a live one), and if it aborts, the withdrawal
revives (or tombstones) the node; and the late flip of an abort overwrites the tombstone
of a removal recorded and committed inside its window. The code closes this window for
unborn nodes only (rmp #3029).

Known limits without a run of their own:

* A commit published without its record (`PublishCommitTS`, which `UntransactedStamp`
  still uses) can be passed without its lap link being dropped; the link and `linked`
  then stay, against the comment at `mvcc.go:483`. `LinksDropped` is checked for the
  kinds that keep their record.
* A bracket leaves the horizon after it has charged its own versions, and its departure
  wakes nobody. If its commit reaches the threshold, the sweeper it wakes may make both
  of its passes before the bracket has left, free nothing and exit: versions above the
  threshold stay until the next event. The comments at `releaseWriterSnapshot` ("would
  only make the sweep run sooner, not more completely") and at `mvcc_gc.go:110` ("What
  must never happen is RETENTION above the bound with nobody alive to reduce it") say
  otherwise. `Accounted` and `AnnouncedDone` make exactly this exception (`held`). The
  same holds for a snapshot that is just entering, which suspends the scan.
* `VacuumStats` documents that starts and exits differ by at most one: the exit is counted
  after `running` is cleared, so a successor can have started by then.

## 8. Not modelled

* Secondary indexes and the label bitmap index with its deferred removals, adjacency
  versions, generations and the Bolt server: independent protocols; section 6 names the
  ones that would come next.
* In the version store: properties and edge side stores (the same undo chain as labels,
  over other keys), first creations and the unborn set, the ambient slot of `WriteStamp`,
  the hand-offs of `ApplyDurable`'s retries. An `AddNode` of Cypher journals its inverse
  when a probe before the call found a tombstone (`cypher/api.go:21926`); the model
  journals what the call did. The two differ when another transaction flips the node in
  between. If it revived the node, the call is refused, and of the inverse journalled in
  excess the replay leaves at most a claim, which the abort withdraws; if it removed the
  node, or its abort is half done, the node is torn.
* In the log: `SyncCtx`, `Truncate`, single-file test writers, the migration of a legacy
  log, and a `Close` without a quiesce, which the documentation leaves to the embedder.
  The unlinks of a checkpoint are durable at once and in order in the model; in the code
  the directory's fsync follows them (`writer.go:1428`) and a power loss may keep any of
  them, which `log.go:131` admits for segments below the redo position (a gap before an
  empty segment is refused). A segment that comes back lies wholly below the position from
  which runs are replayed, so it adds to what can be read and takes nothing away.
* Frame, snapshot, CSR, CSV, GraphML, JSONL and PackStream encodings: conversions
  without protocol state, checksummed as a whole.
* The Cypher parser, planner and operators, and the graph algorithms: sequential
  computations over one snapshot or an immutable view.
* Metrics, benchmarks, examples, tools, simulation.
