# causl in TLA+

causl is a reactive graph library: input cells, derived nodes computed from
them, transactions that change inputs atomically, and observers told about each
commit. This directory holds TLA+ modules that model its engine
(`packages/core/src/graph.ts`) and the packages built on it, TLC configurations
that check them on small instances, and TLAPS proofs. Line numbers refer to the sources as they are in
this repository; `PROJECT.json` ties every definition to its lines.

## The system

| part | state | operations | talks to | hard because |
|---|---|---|---|---|
| commit pipeline (`graph.ts`) | input cells, clock, staged writes, undo rows, `committing` | `commit`, `hydrate`, `simulate`, `tx.set`, `_migrateFrom` | runs user code (tx body, invariants), then recompute, then observers | any step may throw after cells were written; two write paths; sentinels reused from frame to frame instead of sets |
| recompute, edges (`graph.ts`) | `deps`, `dependents`, `hasDependents`, derived values | `input`, `derived`, `_dispose`, Phase D, rollback | called by the pipeline; runs computes | the walk follows an order planned from edges it replaces on the way; two copies of every edge |
| subscriptions (`graph.ts`) | entries, `lastValue`, `hasFired`, refcounts, groups | `subscribe`, `subscribeMany`, `subscribeReads`, `subscribeCommits`, Phases G, H | observers call back into the graph | subscriptions change while being iterated; a gate skips dispatch on the word of a refcount |
| commit log, metadata (`graph.ts`) | history ring, cached entry of `commitLog`, consumer count, commit-metadata nodes | Phases F to F.5, reads of `commitLog` | read by derived nodes and subscribers | rebuilt in two places, by Phase F.4 and by reads, each on the word of a counter or a stamp |
| retention (`graph.ts`) | chain of deltas, registration times | Phase F.6, `readAt`, `snapshotAt` | cells | eviction folds rows that later reads resolve through; ids are reused |
| snapshot, hydrate, digest (`graph.ts`) | memo of what can be serialised | `snapshot`, `hydrate` | cells | asked for inside a tx body that is then undone |
| explain, export, IR (`graph.ts`, `ir.ts`) | derived nodes that explain others | `explain`, `dependencies`, `exportModel` | recompute | an explanation is a node too: it can be stale, or dead |
| watched reads (`graph.ts`) | ring of objects handed out | `read`, adapter brackets | commits | a ring with a cap, pruned while entries wait |
| automatic adaptation (`auto-adapt*.ts`) | active engine, log of registrations, telemetry window | swap of the engine under the public object | two graphs, re-subscription | observers must survive the swap; one cached backend for all graphs |
| loader, bridge (`wasm/index.ts`, `wasm/bridge.ts`) | one promise per bridge | `loadWasmBackend`, detection | adaptation | overlapping calls share a promise looked up after an await |
| wasm backend (`wasm/index.ts`, `wasm/marshaler.ts`) | batch of commits, mirror, timer, downgrade flag | commit, flush | the pipeline | batched effects; a failure in mid-flush; comparison of two engines |
| sync resources (`packages/sync`) | fetch state machine per resource | fetch, invalidate, fail, late answers | commits its events into the graph | promises that settle out of order |
| sync conflicts (`packages/sync`) | map of verdicts, overlay on the open set | resolve, ignore, supersede | the graph | a conflict goes and comes back |
| statecharts (`packages/core`) | none | the engine's charts of both | - | two descriptions of one machine |
| persistence (`packages/persistence`) | the slot, an input | load, migrate, write | storage, `subscribeCommits` | storage that fails, several builds on one slot |
| devtools bridge (`packages/devtools-bridge`) | shared connection, pause, lock | connect, dispose, panel messages | `subscribeCommits`, `hydrate` | several mounts share one connection |
| devtools (`packages/devtools`) | memoised explainers, window of the log, live computes | `whyUpdated`, `whyNotUpdated`, `inspect`, `liveDerived` | log, explain, commits | they answer later than they were asked about |
| react bindings (`packages/react`) | snapshot cache per hook, families, idle promises | subscribe, getSnapshot, mount, unmount | `subscribe`, `hydrate` | commits between render and effect, StrictMode, microtasks |
| formula (`packages/formula`) | references between cells of a sheet | parse, evaluate, register, detect cycles | derived nodes | references to cells that come later |
| hypothesis | none | evaluate, shrink | - | bisection over verdicts that are not monotone |
| migration-check, errors, flags, types, telemetry | none | scanning, wording | - | - |

The engine is synchronous and single-threaded. What interleaves is user code: a
transaction body, an invariant, a compute or an observer runs in the middle of
the engine's own work, may throw there, and may call back. Around the engine it
is microtasks, timers, renderings, pages and panels. What makes the engine
correct:

* a commit is all or nothing, in values, stamps, clock, edges and sentinels;
* a published value was accepted by its invariant;
* every derived value is its compute applied to the values of its moment;
* the changed set is exact;
* each observer has seen the last value of what it watches, once per commit;
* the commit log has exactly the commits that happened, and whoever depends on
  it has the last one;
* a read of the past answers with the past, or says that it cannot;
* every call returns.

What makes the packages correct:

* a resource shows the answer its chart admits, and a renderer that waits for it
  is woken; a verdict on a conflict is taken once;
* the change from one engine to another is not seen;
* a queued commit leaves the queue once, and an engine that disagreed is not
  believed again;
* the slot of a persisted input never holds a value in a shape it does not claim;
* the panel is sent each commit once as long as anybody holds the connection;
* a component on the page has its node and shows its value;
* what is told of a node (why it changed, what it depends on) is so.

## The modules

Components that compose: `RecomputeOrder` and `Subscribers` extend `Recompute`;
`CommitGraph` drives `Subscribers` by `CommitTx`; `Statecharts` is `Resource` and `Conflicts`
on one clock (`GraphClock`, shared with `CommitLog`, `BatchedFlush` and
`DevtoolsBridge`) and the charts both follow; `Loader` has at its end the engines as a
whole, with `AutoAdapt` and `BatchedFlush`, and `Registries` has the whole of the react package
with `Families` and `Hooks`; `Why` extends `Explain`; `CommitTx` implements
`AtomicStore`.

| module | models | run |
|---|---|---|
| `AtomicStore` | what a graph promises about its inputs: draft, publish, abort | `commit_tx` |
| `CommitTx` | the frame shared by commit, hydrate and simulate | `commit_tx` |
| `CommitTxProofs` | proofs about `CommitTx`, refinement of `AtomicStore` included | - |
| `Recompute` | edges, registration, disposal, Phase D in any topological order | `recompute` |
| `RecomputeOrder` | the same with the order the code really walks in | `recompute` |
| `RecomputeProofs` | proofs about `Recompute`: its invariants, no cycle survives a pass | - |
| `RecomputeOrderProofs` | the code's order refines `Recompute`; its queue never runs dry | - |
| `Subscribers` | subscriptions, refcounts, the gate, Phase G | `subscribers` |
| `CommitGraph` | whole commits: the frame of `CommitTx` with the Phase D, the unwinding and the dispatch of `Subscribers` | `subscribers` |
| `SubscribersProofs` | the graph under observers, one call per commit, refcounts are path counts, observers of a node are current | - |
| `ReadSets` | `subscribeReads`: projections, the two indexes, their part of Phase G | `subscribers` |
| `PersistedInput` | load, migration, write-through and its failures, several pages and builds | `subscribers` |
| `ListenersProofs` | whole commits: each side keeps to its own specification, and they agree; the indexes and the readers for any projections; slot and pages for any number of them | - |
| `CommitLog` | history ring, lazy log refresh, consumer count, commit metadata | `history` |
| `Retention` | the chain of deltas, `readAt` of inputs and derived nodes, `snapshotAt` | `history` |
| `RetentionProofs` | reads of the past for any window and any number of commits | - |
| `Snapshots` | `snapshot`, `hydrate`, the memo of serialisability, the digest | `history` |
| `Explain` | `explain` with its handles, `dependencies`, `dependents`, `exportModel` | `history` |
| `Why` | `whyUpdated`, `whyNotUpdated`, the window of the log, the inspector | `history` |
| `LiveDerived` | `liveDerived`, `replace`, `replaceMany`, export of inputs | `history` |
| `HeldReads` | the ring of watched reads and the warnings of a commit | `history` |
| `NodeLives` | what stays under an id after `_dispose`, counters, tombstones, groups | `history` |
| `HistoryProofs` | the commit log, snapshots, explanations and explainers, watched reads and lives, for any caps and nodes | - |
| `Resource`, `Conflicts`, `Statecharts` | `packages/sync` and the engine's charts of it | `clients` |
| `AutoAdapt` | the swap of engines under live observers | `clients` |
| `BatchedFlush` | the batch queue, its timer, comparison, promotion, downgrade, the mirror | `clients` |
| `Loader` | the promise per bridge, options, detection of the bridge; the engines together | `clients` |
| `DevtoolsBridge` | the shared connection and the panel's messages | `clients` |
| `Families`, `Hooks`, `Registries` | node families; the four subscribing hooks; `<Hydrate>`, the idle promise and the package as a whole | `clients` |
| `ClientsProofs` | sync, engines, devtools link and react for any number of calls, commits, graphs, mounts | - |
| `Formula`, `FormulaParser` | evaluation, registration, cycle detection; the parser and column names | `clients` |
| `Hypothesis` | the combinators and the shrinker | `clients` |

The `MC...` modules give the constants values; `MCRecomputeOrder` and `MCSubscribers`
hold the compute functions of their instances. `MCListeners`, `MCHistory` and `MCClients` put
side by side parts that share nothing but the graph: a variable `part`, fixed by
the initial state, says which of them moves. The state space is the sum of theirs,
not the product. A property of such a run is a conjunction `part = p => ...` over the
parts it is about; each conjunct is a named property of the part's own module.

### CommitTx

State: each cell's `value`, `lastWriteTime`, `hasDependents`, `lastStagedAt`,
`lastStagedRow`; the clock; the arrays `stagedWrite*`, `inputRollback*` and the
scalar rollback slot. The arrays that the code keeps in parallel are one sequence
of records. `live` is the set of undo rows that survive Phase A.5, where the code
compacts the arrays in place: indices are kept, order is kept, the rest is
dropped.

An action is what happens between two calls of user code, or between two places
where an exception can leave the pipeline: `FastWrite`, `Stage` and `Restage`
are the three outcomes of `tx.set`; `RunReturns` is Phase A.5, `CheckInvariants`
A.7, `PublishScalar` and `PublishRows` B, `Tick` C and C.5, `RecomputeReturns`
and `RecomputeThrows` stand for D, `Seal`, `SealEmpty` and `MetadataThrows` for
E to F.6, `Finish` for G and H, `Rollback` for the catch arm, `SimulateReturns`
for simulate's own restoration. The invariant of an input is the set `Allowed[i]`
of values it accepts. `Rewire` is a node that Phase D recomputes, or that is put
back: any inputs may gain or lose dependents, as often as it pleases. What the
derived side really does with them is `CommitGraph`.

`AtomicStore` is the promise. Under the mapping at the end of `CommitTx` the
store of an undecided frame is what its undo rows would rebuild, the draft is
what `tx.get` reads, and only `Seal` and `SealEmpty` publish.

### Recompute and RecomputeOrder

A compute is a member of `Program`, given by what it reads and what it returns
on a valuation; `PurityAssumption` is the determinism the spec of causl asks of
computes. `Begin` fixes the affected set and, for each affected node, its planned
predecessors. `Skip`, `Compute`, `ComputeThrows` and `CycleThrows` walk one node.
Rollback is step by step (`RestoreInputs`, `RestoreDerived`), as setDeps is
called on a half-restored graph. In `Recompute` any node with no planned
predecessor left may be next; `RecomputeOrder` adds the insertion-ordered buckets,
the FIFO queue with its counters and the rollback map, and takes only the steps
the queue proposes. The order of a bucket, a queue or a walk is stated by what it
promises (`Sooner`, `InOrderOf`), and a transaction body makes finitely many
writes. Each `RecomputeOrder` step is a conjunction with a
`Recompute` step, so what `Recompute` promises in every order holds in the
code's own.

### Subscribers

`Subscribers` extends `Recompute`: entries `<<handle, node>>` with `lastValue`
and `hasFired`, the refcounts that `setDeps` moves along the edges, the flag
`hasDownstreamSubscriber`, Phase G as one `Deliver` per entry. Observers may
subscribe, unsubscribe and register nodes between two deliveries. A transaction body
may subscribe too (`SubscribeInBody`): the observer is shown the direct writes of the
body, published or not. `misled` remembers who was shown what was then taken back, and who
was passed over (`PassedOver`): watched a node that changed, in a commit with a closed gate,
because it or a node upstream was stale before (`StaleBefore`). An observer
that throws is reported by the engine and changes nothing but `hasFired` of its
first call, which `Subscribe` leaves open. `bumpSubscriberRefcountUp` counts
paths: `Routes` is the set of the paths from some nodes to one, each as the derived nodes
on its way, and `PathsFrom` its size. Where the walk meets a cycle it cannot end,
and the model enters `stage = "hung"`.

### CommitGraph

The two sides of a commit as one pipeline. `C` is `CommitTx` with its variables
renamed (`cell`, `writtenAt`, `at`, ...), except `hasDependents`, which it shares with
`Recompute`. Each action is one of `CommitTx` together with what it means to the
derived side: `StartPhaseD` begins a pass over the cells as published, or skips it
when nothing changed; `WalkOn` and `WalkThrows` are one node of it; `EndPhaseD` asks
that nothing be left to walk; `SealFrame` publishes on both sides;
`MetadataFails`, `SimulationDone`, `UnwindNode` and `UnwindFrame` are the ways back;
`Dispatch` is Phase G and must end before `FinishFrame`. The derived side is not
given values of its choice any more: `Begin` takes the cells the transaction has left.
`hydrate` runs as `commit` does except that nobody subscribes in its body. Inputs
are registered at the start and stay, since `Recompute` gives a new input a value of
its own; `MigrateFrom`, and registration inside a body, stay with `CommitTx` alone.

### CommitLog

State: the ring as the sequence of the times of its commits, the cached entry
(value and stamp), `commitLogConsumerCount`, who reads the log, the metadata
nodes in order of registration, and for each reader the rows it last got. A node
that depends on inputs only is of no interest here, so a plain node is
represented by whether it reads the log, and chooses anew whenever Phase D
recomputes it; which nodes Phase D recomputes is left open. `ReadLog` is the
lazy rebuild, and is part of every action in which the code may read the entry:
reads, subscription, registration, and computes, also those that throw
afterwards. `AppendRow` is Phases F and F.4, `RecomputeCommitMetadata` and
`CommitMetadataThrows` are F.5, `Publish` is G, `Rollback` the catch arm of
`commit` and `Discard` the finally arm of `simulate`. What a metadata node reads
is fixed at its registration: the log, or one metadata node registered before.

### Retention

State: the clock, the cells, `inputRegisteredAtMap` and `retainedSnapshots`. A
row's `prev` is its predecessor in the sequence. `Register` writes into the row
of the current tick, `Commit` pushes a row and folds the evicted one into the new
root, `Dispose` leaves the rows as they are. The operators `Retained`, `ReadAt`
and `SnapshotAt` are the reads. `past` is a history variable that the properties
compare them with. A commit is one step since a frame that is taken back never
reaches Phase F.6. `_migrateFrom` and a cap of zero are left out.

`readAt` of a derived node at a tick computes it again on the row of that tick.
The derived node leaves no trace in the rows, so it needs no variable: the
property quantifies over every node that could have lived, given by the inputs it
reads first and then, on their values, and by the tick it was registered at.

### Snapshots

`snapshot` consults `inputSerializableMemo`, which is cleared where a cell is
written: by Phase B, by rollback and by hydrate, but not by Phase A.5, which drops
the row of a write that was undone. `Save` is a snapshot in a body or between
frames. `misled` is the history of inputs asked for in mid-body whose write was
then undone; for these the memo is stale, and the properties except just them.

### Explain, Why, LiveDerived

A handle of `explain` is a derived node that reads every member of a node's
lineage. The model keeps the value it was computed to and what it read, and computes
it again in the commits in which one of these changed. A lineage is the least set with
the node and what its members read; a commit is stated by the values it settles on,
each of a derived node that was touched being the one its compute gives. `Why` adds what the devtools package builds on
the log: memoised `whyUpdated` and `whyNotUpdated`, the window, the inspected
view. `causes` is the history of what made each derived node change.
`LiveDerived` is a slot with a compute and a version input per node: `replace`
writes the slot, then commits the version.

### HeldReads and NodeLives

`HeldReads` is the ring `h1HazardTrack`: a read appends (and drops dead entries at
the cap), a commit warns of the entries of before it whose object is still alive.
Garbage collection is an action. Reads are numbered in their order, so the ring is
the set of the numbers it holds; `warned` counts the warnings of each. `NodeLives`
is what `_dispose` clears and what it leaves: each registration has a number, and
the properties say to which life a counter, a tombstone, a version or an invariant
belongs. Disposals come in the order of these numbers, so the list of tombstones,
too, is a set.

### ReadSets

A projection reads one input and, on its value, others. `SubscribeReads` runs it
and indexes what it read; in Phase G `NextBucket` follows the set `changed` in any
order and `Run` the registrations of a bucket; a run reconciles the two indexes,
also while the bucket is being walked, and an observer may subscribe, unsubscribe
and leave a bucket empty, which takes it out of the index under the walk.

### PersistedInput

The slot is absent, text that is no JSON, the text `null`, or an envelope with a
version. A value has the shape of a version; `migrate` changes the shape or
throws. Pages with builds of different versions open the same slot, commit, and
close without notice between any two steps. A storage is honest (`set` throws
when it fails) or, like `localStorageAdapter`, silent.

### Resource, Conflicts, Statecharts

`Resource` has the reducer's transitions and the shell's commits. The loader's
promise is settled by an action, after which its reactions wait in the first-in
first-out queue of microtasks; between two of them host code may run. `Conflicts` has the map of verdicts and
the overlay; the application's compute chooses the open set. `Statecharts` puts
resource and registry on one clock: a verdict committed while a fetch is pending is
what makes its answer stale. It also has `evaluateStatechart`
on the engine's two charts; the properties say that each step of the shells is an
edge of the chart and that an edge is refused exactly where there is none. The
payload of an error is left out.

### AutoAdapt and Loader

`AutoAdapt` has two graphs made with `backend: 'auto'` over one cached engine.
Each graph logs its registrations and the adopter's observers. `Commit` is
`commitWrapped`: the commit itself, `shouldMigrate` on the window of node counts
(an average kept in integers, scaled), and, if the background load is done, the
swap: replay of registrations, snapshot, `_migrateFrom`, re-attachment. A swap
that throws leaves the new engine as it got it. The replay registers every input with
its initial value; a derived node in `Picky` has a compute that throws on it, so its
graph can register it after a commit, and the replay cannot (`Refuses`). Other derived
nodes move along. A commit whose compute throws undoes itself (`InnerThrows`). Each
derived node reads one input, so none throws in the recompute after the move. `Loader` is the cache of promises
by bridge, with the jobs that `async` functions spend on passing a promise on;
`InstantiateBackend` judges the options, `DetectBridge` the host.

### BatchedFlush

State: the queue with its buffer, the JS commits kept for comparison, the base,
the timer, the mirror and the sticky downgrade. `Flush` ships the batch as one
envelope (of which only the first commit's values are used), commit by commit
where the bridge has no `commit_batch`, or loses it where the bridge throws. The
engine behind the bridge is external: what it answers for the inputs it was sent may
be they or have a wrong cell (`Answers`), its commits may differ, and it may throw or
give an answer that cannot be applied to its end (`BreaksOff`). The code puts an
answer into the mirror, then compares commits, never values: equal commits are
believed with the cells they came with (`Promoted`), different ones are rolled back
(`Diverged`), and a throw in between takes nothing back (`Lost`). The history variable
`trouble` remembers which of these happened. `Bypass` is a commit around the queue.

### DevtoolsBridge

`Connect`, `Dispose` and `Receive`, the last for every message that
`decodeDispatch` lets through; a locked connection takes only the message that
unlocks it.
`panel` and `owed` say what was sent and what should have been. The flags
`skipped` and `persist` are read from no message.

### Families, Hooks, Registries

React is external: it renders, runs the effects of a rendering or throws it away,
runs them twice under StrictMode, and unmounts. `Families` is the map of counted
entries with the microtask that disposes of a node nobody counts on. `Hooks` is
the external-store contract of the four hooks: what a call of `getSnapshot` gives
and keeps, when the component is told, when it renders. `Registries` are the weak
maps of `<Hydrate>` and of the idle promise.

### Formula, FormulaParser, Hypothesis

`Formula` evaluates trees over cells (numbers are integers and quotients are
rounded down), registers formulas as derived nodes, and recomputes them in any
Kahn order. `FormulaParser` parses character by character and is compared with the
grammar of `grammar.ts`, written as the set of trees a text has. The two disagree on
names of functions that have digits, which the grammar has and the parser takes for
references; `ParsedAsMeant` says that the parser throws on just those and on the texts
that have no tree, and otherwise gives the tree. `Hypothesis` shrinks a failing
trace by bisection, prefixes and fields.

## What the runs check

| run | bounds | properties | result |
|---|---|---|---|
| `commit_tx` | 2 inputs, 3 values, 2 ticks | `TypeOK`, `SentinelsAgree`, `OneUndoRowPerCell`, `InvariantsGatePublication`, `ImplementsAtomicStore`, `RolledBackExactly`, `WindowCloses` | hold |
| `simulate_invariants` | as `commit_tx`, 1 tick | `SimulateForeseesInvariants` | violated |
| `mid_tx_registration` | 2 inputs, 3 values, 1 tick, bodies that register nodes | `FailedCommitRestoresCells` | violated |
| `recompute` | 2 inputs, 3 derived, 5 computes, in the code's order | `TypeOK`, `EdgesMirror`, `NoCycle`, `GlitchFree`, `ChangedExact`, `QueueIsReady`, `RolledBackExactly`, `PassEnds` | hold |
| `recompute_glitch` | as `recompute` | `EveryValueIsCurrent` | violated |
| `recompute_false_cycle` | as `recompute` | `CycleErrorNamesACycle` | violated |
| `subscribers` | four parts, below | `ListenersTypeOK`, `RefcountsCountPaths`, `ObserversAreCurrent`, `SidesAgree`, `ReadSetsSound`, `PersistSound`, `AtomicToldOnceKept` | hold |
| `group_dispatch` | groups only | `GroupsAreCurrent` | violated |
| `rollback_hang` | single subscriptions, computes that close a cycle | `RollbackReturns` | violated |
| `commit_log_stale` | 1 plain reader, 1 metadata node | `LogIsCurrent` | violated |
| `history` | eight parts, below | `HistoryTypeOK`, `LogSound`, `ReadsOfThePastSound`, `SnapshotsSound`, `TellingsSound`, `HeldReadsSound`, `LivesSound`, `ConsumersSeeTheCommit`, `PastIsKept` | hold |
| `clients` | eleven parts, below | `ClientsTypeOK`, `SyncSound`, `EnginesSound`, `BridgeLinkSound`, `ReactSound`, `ToolsSound`, `SyncFollowsTheCharts`, `EngineChangesAreSafe`, `EveryCommitIsFlushed` | hold |

What each property of a part says:

| part | named conjuncts | what they say |
|---|---|---|
| commits (`CommitGraph`) | `LayersAgree`; `FrameIsAtomic` | what the undo rows of the inputs rebuild is what the snapshots of the derived side do, and Phase D starts from the inputs the commit reports; from opening to end nothing but the seal moves what the whole frame would return to: values, edges, stamps, clock, last Commit |
| nodes (`Subscribers`) | `RefcountsCountPaths`, `ObserversAreCurrent`, `CalledOnce` | the refcount of a node is the number of paths to subscribers; between frames an observer of a node has its last value, unless `misled` names it; once per commit |
| reads (`ReadSets`) | `IndexMirrorsReads`, `ReadersAreCurrent` | the two indexes agree; a reader has what its projection would give now and listens to what that read, unless it last threw, ran in a body or lost a node |
| storage (`PersistedInput`) | `ShapesMatchVersions`, `SilenceMeansSaved`, `ReloadRestores`, `NothingIsDroppedUnasked` | an envelope has the shape of its version; no error means saved; a reload starts from what was left; `preserveOnError` preserves |
| log (`CommitLog`) | `ConsumersCounted`, `HistoryExact`, `NoPhantomRow`, `ConsumersSeeTheCommit`, `FrameLeavesNoTrace` | counter and ring are exact, no reader keeps a row of a frame that was taken back, consumers have the row of the commit when observers run |
| rows (`Retention`) | `WindowIsFull`, `ReadAtExact`, `NoAnswerFromAnEarlierLife`, `SnapshotComplete`, `DerivedReadsExact`, `PastIsStable` | a read of the past gives the past, of the present life of the id, and goes on giving it |
| snapshots | `MemoIsTrue`, `SnapshotIsExact` | the memo is of the value in the cell; a snapshot has each value that can be serialised |
| explain | `ExplanationIsCurrent`, `ExportIsClosed` | an explanation is of the present; the export names no node it lacks |
| why | `UpdateIsExplained`, `StandstillIsExplained`, `WatchersSeeThePresent`, `WindowIsTheEnd` | the reason given for the latest change is its cause, as long as the node's edges are those of then |
| live | `SwapsTakeEffect`, `ShownIsSomeAnswer` | a replaced compute is the one that is shown, unless it failed, and no failure is shown |
| reads (`HeldReads`) | `EveryReadIsAccountedFor`, `AdaptersAreExempt`, `RingIsFresh` | each read of an object is warned of, kept, pruned at the cap or collected |
| lives | `StatsAreTrue`, `TombstonesAreTheLast`, `VersionsCountOneLife`, `RuleIsOfTheLastGiver`, `OnlyBrokenGroupsMiss` | what is kept per id belongs to the life it says |
| sync | `LoadedIsAuthoritative`, `OriginIsOfTheLastFetch`, `LoadingIsAwaited`, `WokenRendererMovesOn`, `ReasonIsTrue`; `VerdictsWereTakenWhileOpen`, `ShownOpenIsDecidable`; `VerdictsAreFinal`, `ShellsFollowTheCharts` | overlapping fetches; the overlay; verdicts; shells and charts |
| adaptation | `ReadsFollowWrites`, `WatchersAreCurrent`, `CommitStreamUnbroken`; `NoRepeatedCall`, `SwapThrowsOnlyFor` | the swap is not seen |
| loading | `OneBackendPerBridge`, `RefusalIsForgotten`, `RefusalHasAReason`, `DetectionsAgree` | callers share one engine; whoever is refused may try again at once |
| batching | `EveryCommitLeavesOnce`, `TimerMatchesQueue`, `ComparedWithItsOwn`, `DowngradeIsEarned`, `CaughtLeavesNothing`, `MirrorIsCurrent`; `DowngradeIsSticky`, `BelievedWhenCompared`; `EveryCommitIsFlushed` | queue, comparison, downgrade; an engine that was caught leaves no cell in the mirror, and while it is compared none stays but by a promotion of commits in a row; the last is a liveness property |
| devtools | `LinkIsHeld`, `PanelMissesNothing` | the connection lives as long as it is held; the panel has every commit |
| families, hooks, registries | `CountsAreTrue`, `MountedHasItsNode`, `NothingLingers`; `ScreenIsCurrent`, `SnapshotIsStable`, `ArrayIsOfItsKind`; `NeverTwiceInARow`, `SleepersAreWoken`, `FreshPromises` | what a component relies on |
| sheet, parser, hypotheses | `CellsAreCurrent`, `CycleIsFound`, `GateSpares`; `ParsedAsMeant`, `ColumnsHaveNames`; `StillFails`, `StretchOfFound`, `MinimalAtBothEnds` | the tools say what is so |

Beside the caps given to constants, `commit_tx`, `subscribers`, `history` and
`clients` run under `BoundedSpec` of their MC modules: the specification of the
modules and, on each step, the conditions named `Bounds` there. The theorems are of
the specifications without them.

Why the bounds are enough:

* `CommitTx`: two ticks let a frame follow a sealed, a failed and a simulated
  one (simulations and failed frames do not use up the clock, so any number of
  them may come in between); three values let the cell of one input be written away,
  written again and written back, one of them refused, and the other input has two of
  them (`Bounds`); two inputs put one on the direct and one on the staged path, and one
  row or two into the publication.
* `Recompute`: the five programs are two chains, a join of two nodes, and two
  computes that choose which derived node to read; three derived nodes admit a
  chain, a diamond over two inputs and a swap of edges in one pass, and two
  values suffice as a branch condition. No counter is bounded: the state space
  is finite and all of it is visited.
* `Subscribers`: two handles put two subscriptions, or a group and a single one,
  on one node; two derived nodes give two paths from one input to one subscriber. Of the
  four computes one reads an input only behind another node it branches on, so that
  a node can be stale. `NodeBounds`: the two handles watch different things; an input
  by itself is watched by one handle, and next to another by way of a group; two nodes
  that read each other are watched by one subscription to a node. A plain
  and a transient subscription to one node, and a group that has it too, still share its
  bucket.
  The two handles are interchangeable, hence the symmetry.
* `CommitGraph` (`MaxTime` 2, as `CommitTx`): the nodes and values of `Subscribers`, but
  for its fourth compute, with one subscription to one of the derived nodes. A chain of two
  derived nodes, a compute that throws, one that gains edges and one that comes to read
  itself are rewired and unwound under both write paths; one input has an invariant that
  can fail.
  `CommitBounds` states these bounds; `CommitGraph` itself has none of them.
* `ReadSets`: two inputs and two projections that branch opposite ways, so that a
  commit may move a reader from either bucket to the other while both are walked;
  one value on which projections throw. Nothing is counted.
* `PersistedInput`: two pages and two versions give an old and a new build on one
  slot; one value JSON refuses and one it loses. Nothing is counted.
* `CommitLog` (`MaxTime` 3): a third tick is needed for a ring of two to be
  trimmed, and lets a frame that was taken back lie between two commits; two
  metadata nodes give a chain and an order in Phase F.5. Failed frames and
  simulations do not use up the clock. One plain node, one
  subscription and the metadata nodes move the counter independently. Metadata nodes
  are interchangeable.
* `Retention` (`MaxTick` 3): with a window of two, three commits evict genesis and
  then a row that was itself folded into. An id may be disposed and registered
  again at any tick, also twice in one. `Bounds`: one of the
  two inputs never ends a tick with a value that cannot be serialised, so that a reader
  of both meets a gap in one chain beside a full one.
* `Explain`, `Why` (`MaxClock` 3, `MaxLost` 1): a log of two rows is trimmed once,
  a window of one is shorter than the log; one disposal lets an id have two lives.
* `LiveDerived` (`MaxVersion` 2): a replacement that fails and one that follows.
* `HeldReads` (`MaxReads` 3, `MaxDepth` 2, `MaxHour` 2): a ring of one is pruned
  twice; adapters nest once; a read of before, in and after a commit.
* `NodeLives` (`MaxLives` 3, `MaxNow` 2): two ids, one of them registered twice, a
  tombstone list of one that is full.
* `Statecharts` (`MaxTime` 4): two overlapping fetches take four commits, and any number
  of steps that commit nothing come between. A refusal commits nothing.
* `AutoAdapt` (`MaxCommits` 4): two commits trip the hysteresis, the swap and one
  commit after it follow. Two graphs together make seven, so that both change over and
  one goes on. The derived node of one of them is in `Picky`, so it cannot be moved,
  while that of the other is.
* `Loader` (`MaxLoads` 2): two callers whose jobs interleave; a second promise is
  one made after a refusal.
* `BatchedFlush`: batches of one and of two, each with a commit to come after, which
  takes three ticks. An answer has at most one wrong cell, as one is enough to tell.
* `DevtoolsBridge`: two holders, a retained window of two.
* `Families` (`MaxEntries` 3, `MaxTasks` 2): one entry for each of two keys and one
  made again under a key whose microtask waits; three components, so that two may
  share a key while a third uses the other.
* `Hooks` (`MaxObjects` 4): both graphs have a node, each changed once. `Registries`
  (`MaxPromises` 2, `MaxEdits` 2): a promise resolved and a new one.
* `Formula`: three columns admit a cycle through a range and beside it a constant.
  `FormulaParser`: all texts up to three characters and eleven longer ones.
  `Hypothesis`: traces of up to two found steps, which longer claims extend.

`WindowCloses` and `PassEnds` assume weak fairness of the pipeline and of
nothing else. The pipeline is one synchronous JavaScript call: once entered it
proceeds unless a callback does not return, and callbacks (bodies, invariants,
computes, observers) are assumed to return or throw. Callers are not assumed to
do anything. `EveryCommitIsFlushed` assumes weak fairness of `TimerFires` alone: the
event loop runs a timer that stays due. It does not assume that a batch is filled
or that anybody asks for a flush.
`CHECK_DEADLOCK FALSE` in `clients` is for parts that may stop: a search that has
ended, a queue without a timer, a clock at its bound.

## What the violated runs show

Each compares the code with a sentence of the repository (quoted in
`PROJECT.json`).

* `recompute_glitch`: a compute that switches, in the commit, to reading a node
  later in the planned order gets that node's value of before the commit, and is
  not run again. Between commits a derived value can thus differ from its compute
  applied to current values. `GlitchFree` says what is left of the promise: it
  cannot for a node that always reads the same derived nodes, whatever those do.
* `recompute_false_cycle`: when two nodes exchange the direction of the edge
  between them, the probe that follows the first sees the other's old edge.
* `mid_tx_registration`: `derived()` inside a transaction body moves a cell from
  the direct to the staged path, and it gets two undo rows; the later one wins in
  the rollback.
* `simulate_invariants`: simulate has no Phase A.7.
* `group_dispatch`: an entry of a group that was skipped because its group had
  already been called keeps its `lastValue`; when the node returns to that value
  the group is not called.
* `rollback_hang`: the rollback of a cycle-closing pass calls `setDeps` while the
  cycle is in place; with a subscriber downstream the refcount walk does not end.
* `commit_log_stale`: a compute of a simulated frame, or of a commit that throws in
  Phase D, reads the log and so stamps the cached entry with the tick to come.
  The clock goes back and the stamp stays. The next commit reaches that tick; if
  nobody counts as a consumer it skips Phase F.4, and reads find an entry that
  looks current and lacks the commit.

## What is proved

### CommitTxProofs

For every set of inputs and values, every `Allowed`, and any number of frames
(`MaxTime` only enters as a natural number):

* `TypeCorrect`, `SentinelsCorrect`, `UndoRowsUnique`, `InvariantsGate`: the
  invariants of `commit_tx`;
* `RollbackExact`: what the undo rows rebuild does not move until the seal;
* `Refinement`: `Spec => ImplementsAtomicStore`, so atomicity, the clock and the
  exactness of the recorded changed set.

All assume `~MidTxRegistration`. That assumption is needed: `mid_tx_registration`
is the counterexample without it.

None of the invariants is inductive alone. `IInv` adds, for each phase: the clock
against the time the frame was opened (`ClockOK`); at most one undo row per cell,
none of them newer than the frame (`UndoOK`); what a stamp in the future means
(`StampsOK`); that staged rows and staging sentinels point at each other
(`StagedOK`); that no cell of one frame is written both directly and staged
(`DisjointOK`, the part a registration inside a body would break); that
`changedInputIds` is the set of cells with a row (`ChangedOK`). Uniqueness of rows in Phase B needs `StagedOK` and
`DisjointOK`, the sentinels need `ClockOK` and `StampsOK`, so the parts are
proved together, one lemma per action. The rollback and refinement theorems use
`IInv` on both sides of a step and `SameCell`: a cell that keeps its row, or gains
one that records what it holds, or loses one whose content it holds, is rebuilt
to the same contents.

### RecomputeProofs

For every set of inputs, derived nodes and values, and every set of computes that
are pure (`PurityAssumption`: what a compute returns, and what it reads, is
determined by the values of what it reads):

* `TypeCorrect`, `EdgesMirrored`, `ChangedSetExact`: the invariants of
  `recompute`;
* `RollbackExact`: what each node had before the frame does not move until the
  publication, although the rollback puts the nodes back one by one;
* `GlitchFreedom`: `GlitchFree`, for every node of `Static`, that is every node
  that always reads the same derived nodes. Nothing is assumed of the others, not
  even of those it reads: its value is its compute on what they hold. The run `recompute_glitch` shows why they are excluded;
* `CyclesDoNotSurvive`: `NoCycle`. That a node is on no cycle is shown by a closed set
  that holds what it reads and lacks it, so no path has to be counted. The inductive invariant
  `CycleInv` says that the edges before the frame are acyclic and that those of now
  are unless the pass has failed. A compute that rewires `d` and is let through finds
  no way from what it reads back to `d`; any new cycle would need one, since only
  edges into `d` are new (`NewEdges`). A rollback returns to the edges before the
  frame, which is `RollbackExact` for edges.

`IInv` is `TypeOK` and `EdgesMirror` with `LiveOK` (a live node has a compute),
`FrameOK` (what belongs to a frame is empty between frames, undo rows are about
registered nodes, and a node still to be walked has none) and `OutcomesOK` (a
node walked is stable or changed, and which of the two tells whether its value is
the one before the frame). `GlitchFreedom` needs two more facts, together
`SettledInv`: every static node was settled before the frame (`SettledBefore`), and
in the walk every static node that is not waiting is settled and reads none that is
(`DoneSettled`). The second is what the planned order gives, and what a compute
that gains an edge to a waiting node would break; the first is what a rollback
returns to. A skipped node stays settled by purity, since none of what it reads
changed.

### RecomputeOrderProofs

* `OrderIsTopological`: `OrderSpec => Spec`: each step of the queue, and each of the
  rollback in map order, is a step of `Recompute`. `OrderedPassSound` draws the
  conclusion.
* `QueueNeverRunsDry`: `QueueIsReady`, that the queue always has such a step to propose.
  `KahnInv` is the invariant. The buckets list the members of `dependents` once
  each (`BucketsMirror`), and those of a pass are the ones it started with as long
  as it walks. The queue lists, once each, exactly the affected nodes left that wait
  for none left, and a counter is the number of nodes left its node waits for
  (`QueueIsExact`). That is what the queue would lose by a dependent listed twice
  or by a member that joins before its last predecessor is walked. The plan
  (`PlanIsSound`) has in every set of affected nodes one that waits for
  none of the set: among them, take one with the fewest nodes upstream (`Smallest`, by the
  order of the naturals); a predecessor of it in the set would have fewer, as the
  edges have no cycle (`CyclesDoNotSurvive`). So while nodes are left one of them
  is in the queue.

### SubscribersProofs

* `GraphUndisturbed`: `SubSpec => Spec`, so `WatchedGraphSound`: the invariants and
  the rollback of `Recompute` hold with the gate and whatever observers do from inside
  a call.
* `OneCallPerCommit`: `CalledOnce` for any observers and groups. `CallInv` says what
  mark each call of this commit has left (`CallsMarked`): a group is in the fired set,
  a single subscription's entry is visited, a transient one waits to be dropped. It
  rests on `GroupsOK` (an entry is of an open handle, and of a node that handle
  watches) and on `WindowOK` (no frame is open while Phase G runs).

* `CountsArePaths`: `RefcountsCountPaths`. The counts are right at every moment
  (`Counted`), except after a failed pass that has left a circle of counted nodes
  (`Lost`). That exception cannot be dropped: a count along a circle has no value.
  It does no harm because the rollback that breaks the circle walks into it
  and hangs (the run `rollback_hang`). The lemmas are about paths: with edges gained at one
  node, the paths are those of before and those joined at that node
  (`RewiredCounts`), whose number is a product; a new entry brings the paths from its
  node. Paths are sets of sequences without repetition, finite because the nodes are
  (`FiniteGraph`), so nothing is counted by induction along the edges.
* `ObserversKeepUp`: `ObserversAreCurrent`. In every state an observer of one node
  has the value of before the frame, or waits for its call in Phase G, or subscribed in
  the body (`ShownOK`). The step that matters is a commit whose gate is closed. A node that
  changed reads one that did, unless it was stale before (`CauseInv`, from purity). If
  no such chain from a watched node ended at a changed input, the changed nodes of it would
  form a circle, and there is none; so one does, that input has a path to an
  observer, and by `CountsArePaths` its flag is up (`GateOpens`). Without the exception
  for stale nodes the property is false: see `Subscribers` under the behaviours below.

These assume of a watch that it is a group or names one node (`WatchAssumption`); the last two
that the nodes are finitely many.

### ListenersProofs

* `ReadersSound`: `IndexMirrorsReads` and `ReadersAreCurrent` for any projections that
  read one place and then places chosen by its value. `ReadersAreCurrent` speaks of
  between frames only; `ReadersInFrame` carries it through a frame: in a body a reader
  has what the frame began with, and while buckets are walked it has the present or is
  still due, by a bucket to come or by the one being walked, unless that one was cut
  short (`Awaited`). `NoneOfTheGone` is needed where a disposed place leaves the index.
* `SlotAndPagesAgree`: `PersistSound` for any number of pages, builds and versions.
  The invariant adds the shapes of what pages and slot hold, each envelope of the
  shape of its version: that is what a page of that version takes over unmigrated.
  `SavedStays` is the action property `SavedIsKept`.
* `CommitSidesAgree`, `CommitsAreAtomic`: `LayersAgree` and `FrameIsAtomic` of
  `CommitGraph`, for any inputs, derived nodes, pure computes, invariants and observers.
* `WholeKeepsDerivedSide`, `WholeKeepsInputSide`: `CommitSpec => SubSpec` and
  `CommitSpec => C!Spec`. Each side, driven by the other, takes only steps of its own
  specification, so what is proved of it alone holds of the pipeline; `CommitsAreSound`
  draws that conclusion.

  The invariant `WholeInv` is the two inductive invariants, `LayersAgree` and `Link`,
  which says where one side is, given where the other is: a pass is open exactly where
  the transaction recomputes for changed inputs. `StepOfObservers` and `StepOfInputs`
  are the two refinements, step by step; the second is why `CommitTx` has `Rewire`.
  They let both invariants be taken over as they stand, and leave to prove what ties the
  sides: the inputs a pass starts from are those the transaction moved (`StartAgrees`,
  which needs of `CommitTx` that `changedInputIds` is the set of cells that differ from
  what their rows rebuild, `ChangedIsMoved`), they do not move until the seal
  (`WalkAgrees`), and the seal, the only step at which either side publishes
  (`OnlyTheSealPublishes`), brings both to the same (`SealAgrees`). All or nothing
  follows from the same facts of each side (`BeforeKept`, `CellsStep`, `ClockKept`).
* `ListenersTyped`: `ListenersTypeOK`, the types of commits, observers, readers and storage.
* `AtomicToldOnceAndKept`, `ListenersSidesAgree`: the properties of the run `subscribers`
  made of `FrameIsAtomic`, `CalledOnce` and `SavedIsKept`, and of `LayersAgree`, of the
  run's own specification.

### RetentionProofs

For every window, any inputs, values and number of commits:

* `PastSound`: `ReadsOfThePastSound`, that is `WindowIsFull`, `ReadAtExact`,
  `NoAnswerFromAnEarlierLife`, `SnapshotComplete` and, of derived nodes,
  `DerivedReadsExact`;
* `PastStays`: `PastIsStable`.

`Says(rows, k, i, v)` is what `resolveRetained` finds, without a maximum: some row up
to `k` has `v` for `i` and none after it mentions `i`. The invariant is that each
row's chain says what the graph held at that row's tick, of all that can be
serialised (`PastTold`), that a chain says one thing or nothing (`Decided`), and that
an input was there at each tick since its registration (`LivesRecorded`). A commit is
an append followed by a fold; `FollowerSays` shows the first right and `FoldsSays`
that the second changes the answer of no row that stays. The lookups come last:
`RowIs` and `Answer` compute the two maxima. A derived node asked for a tick is
computed over what the inputs answer for it (`RecalledCells`), and a compute gives
the same on cells that agree where it reads (`DerivedAlike`).

### HistoryProofs

* `LogIsSound`, `ConsumersAreTold`: `LogSound` and `ConsumersSeeTheCommit` for any
  cap, any nodes and any number of commits. `LogInv` follows the ring through a frame:
  what Phase F has put aside is the ring of the clock the frame may be taken back to
  (`RingKept`); nobody goes back to a row of a commit that has not happened
  (`NothingAhead`); after k steps of Phase F.5 the first k metadata nodes have the new
  ring (`LogRebuilt`), which needs that each reads one registered before it
  (`SourcesBefore`). The counter is the size of three sets, so these are shown finite
  (`Finitely`), without a constant being assumed so.
* `PastKept`: `PastIsKept`, that is `FrameLeavesNoTrace` and `PastIsStable`. What a
  frame started from can be told, wherever it is, from what it has put aside
  (`StartIsKnown`).
* `SnapshotsExact`: `SnapshotsSound`. The memo is true of every cell except those with
  an undo row and those `misled` names (`SnapInv`).
* `ReadsAreWatched`: `HeldReadsSound`. The count of adapters is that of the calls that
  are open, and a read is in the ring, warned of, exempt or of a dead object (`HeldInv`).
* `LivesAreSound`: `LivesSound`. Totals are the sizes of sets (`Counted`); the
  tombstones are the last disposals up to the cap, and none is older than one left
  out (`TombsKept`); a rule is of the last registration that gave one (`RulesKept`,
  `RulesGiven`).
* `TellingsAreSound`: `TellingsSound`. Every handle that is not disposed holds exactly what
  `buildExplanation` gives now (`ExplainInv`), which needs that each node's deps are what
  its compute reads of the present values, and that a lineage none of whose members moved
  is the same set with the same frames (`LineageKept`): that is why a node computed again to
  the same value need tell nobody. For the explainers, the rows of the log are the last
  commits without a gap (`RowsInOrder`); a row that names a node after its registration is
  no later than the change remembered of it, and the row of that change names it and, among
  what it read, its causes (`CausesTrue`); the last row tells which nodes were left alone
  (`StillTrue`). A deps set may have been recomputed since the change, and an id may have
  rows of an earlier life: both exceptions are in the property.
* `HistoryTyped`: `HistoryTypeOK`, each part's types from its invariant; the log's, with
  what its undo rows hold (`LogTyped`).

### ClientsProofs

* `SyncIsSound`, `ChartsAreFollowed`: `SyncSound` and `SyncFollowsTheCharts` for any
  number of calls, conflicts and commits. The invariant orders the microtasks
  (`QueueInOrder`: an answer is applied once, whoever awaits it is behind it, a renderer
  is woken after it), dates each call one tick before it begins to load
  (`CallsAreDated`), and knows which edge led to the state (`LabelIsTrue`).
* `LinkSound`: `BridgeLinkSound` for any finite set of holders. It needs no more than
  the shapes of the holders and the link, and how a count follows one that joins and
  one that leaves.
* `QueueIsSound`, `DowngradesAreSound`: `BatchSound` and `DowngradeIsSound` for batches of
  any length. `QueueDates` says that what is queued are the last commits of the graph,
  unless one went round the queue; `MirrorFollows` that the cells are the mirror
  overlaid with what is queued, which holds of batches of one only, as an envelope
  carries the values of its first commit. The bridge may answer whatever `Answers` and
  `HalfApplied` allow. `Vetted` says that the mirror has no wrong cell unless an answer
  put one there that was believed or that threw, and `FlushBelieves` what a flush may
  leave there while the engine is compared: nothing is proved of the values that come
  with equal commits, as nothing in the code looks at them.
* `SwapIsSound`, `SwapsAreQuiet`: `SwapIsInvisible` and `SwapIsQuiet` for any number of
  graphs over one cached engine. The engine a graph leaves has exactly what its log says
  (`EngineHasTheLog`), so that a replay that throws nowhere gives the same nodes; at most one graph has
  moved (`OneMoved`); reads, observers and stream follow what was written
  (`FollowsWrites`, `WatchesWhatIs`).
* `LoadingIsSound`: `LoadingSound` for any number of callers, bridges and promises. A
  rejected promise has one job to drop it, which is ahead of those that tell its callers
  (`QueueInv`), and the caller that made it still waits while it is in the cache
  (`CacheInv`).
* `EnginesAreSound`, `EngineChangesKeepSafe` put the theorems on queue, swap and loader together as the run's
  `EnginesSound` and `EngineChangesAreSafe`.
* `PageIsSound`: `ReactSound` for any keys, components, graphs and objects. `FamilyInv`
  has what the map of families owes to who is mounted (`EntryIsKept`) and the microtask
  owed to an entry nobody counts on (`UnusedHasTask`); `HookInv` that an object has one
  value (`OneValueEach`) and that a component at rest shows what its next snapshot
  would give unless it was told nothing (`NothingMissed`); the registries, that the last
  snapshot applied is the one remembered (`LastIsKnown`) and no two graphs share a
  promise (`OwnPromises`).

The caps and bounds of the models enter these theorems as natural numbers of any
size; the assumptions on constants are the named `...Assumption` of the modules.

### Left to TLC

* `WindowCloses`, `PassEnds`, `EveryCommitIsFlushed`: liveness; the prover has no
  rules for fairness.
* `ToolsSound`: the evaluator, the parser and the shrinker are recursive operators.
* `ClientsTypeOK`: it types those three along with the rest. What the other proofs of
  `clients` need of types is in their invariants.

## Behaviours worth knowing

Met while modelling, each visible in the definitions named; the properties of the
runs are stated so that they hold in spite of these, and say where they make an
exception.

* `Snapshots`: the memo of serialisability is stale after a snapshot inside a body
  whose direct write was then undone, although graph.ts 7513-7517 says it is kept
  in step (`misled`).
* `Retention`: `readAt` of a derived node throws `UnknownNodeError` when an
  input it read then has been disposed since; an input whose value of then cannot be
  serialised is taken with an earlier value, or the live one.
* Likewise `readAt` and `snapshotAt` of an input that held a value JSON
  cannot take answer with the value before it and still say `retained`; the
  properties are about values that can be serialised.
* `Subscribers`: an observer that subscribes in a body is shown a value that may be
  taken back, and is not told of that; it is stale until its node changes (`misled`).
* `Subscribers`: a node that was stale before a commit (the run `recompute_glitch` shows that there are such nodes)
  may change in it although nothing it now reads did, and no longer have a path
  to the input that changed. Then the gate stays closed and who watches the node is not
  called (`PassedOver`), although graph.ts 4943-4946 says that the gate skips the dispatch
  "exactly when no path from a changed node reaches any subscribed node", and 1864-1868
  that every change of a subscribed node maps back to a changed input with its flag up.
* `ReadSets`: a projection that throws keeps its old dependencies; one registered in
  a body sees unpublished values, and the frame that is taken back never corrects it;
  an observer that registers itself anew is visited for ever.
* `NodeLives`: input invariants and explain handles survive disposal; a group with a
  disposed member is never called again.
* `Explain`: a disposed handle stays cached and `explain(n)` returns it.
* `Why`: `whyUpdated` filters the change of a past commit by the dependencies of now,
  and so may name wrong causes once the node was recomputed to the same value from
  other nodes.
* `LiveDerived`: `replace` in a body is swallowed and reads go on returning the cached
  value, where the comment at liveDerivation.ts 162-168 says it is applied on the next
  read; after a failed `replace` the slot keeps the new compute, and trying again does
  nothing.
* `Loader`: options of a later caller (engine, window, graph name) are ignored where a
  promise for the bridge is cached. The placeholder the loaders return has no features
  set, although bridge.ts 472-509 says probes are recorded there.
* `AutoAdapt`: all graphs share one cached engine per bridge, so a second graph moves
  onto a used one or its swap throws; inputs that cannot be serialised fall back to
  their initial values; groups and `subscribeReads` stay on the old engine; a compute
  that throws on initial values keeps its graph from being moved, and each commit after
  the load is made and then throws out of the swap; the gate on chain depth never sees its
  statistic, which `captureStats` does not fill in.
* `BatchedFlush`: an engine with equal commits and wrong values is believed, as
  `v2ByteCompareResult` compares no values; an answer that throws while it is applied
  (marshaler.ts 806-819) leaves the clock and the cells it had set, for the catch arm
  rolls nothing back and downgrades nobody. The envelope of a batch has the values of its
  first commit and, of the others, the slots they wrote: an engine that does as it is
  told sends the old values of these back and they stay in the mirror, although
  marshaler.ts 804 says that it ends as after one commit at a time; `MirrorIsCurrent` is
  therefore about batches of one. A batch is taken out of the queue before the bridge is called and lost if that
  throws; commits around the queue are taken for a divergence.
* `DevtoolsBridge`: the skipped and persist flags are stored and read by nobody.
* `Families`: a component rendered before the microtask and mounted after it holds a
  disposed node; where `dispose` refuses, the key is gone from the map already and the
  next mount meets `DuplicateNodeError`.
* `Hooks`: the cache of the typed array hook does not look at the constructor; a node
  hook is not told of a node registered again under its id.
* `Registries`: the comment says the graph stays bound to the first snapshot that was
  applied, the code overwrites it: two elements with different snapshots hydrate the
  graph in turns.
* `Formula`: a formula registered before a cell it refers to has no edge to it until
  something else recomputes it; a commit that does so may then close a cycle.
* `FormulaParser`: grammar.ts 25 lets the name of a function have digits, and parser.ts 4
  says that this is the grammar it parses, but letters with digits always make a cell or a
  range (parser.ts 261-277), so `LOG10(1)` and `A1()` throw.
* `Hypothesis`: the axes that drop fields take no effect inside `shrink`, which keeps
  only traces with fewer steps, against shrink.ts 85-102.
* `PersistedInput`: the text `null` in the slot makes `persistedInput` throw; a quota
  error in `localStorageAdapter` is swallowed.

## What is abstracted, and what is left out

Values are compared with `=`, where the code uses `Object.is`. Node ids, intent
strings, origins and the wording of errors are not in the models; which error is
thrown matters only where a property is about it (`CycleThrows`). Deep freezing,
telemetry, the performance counters and the two storage layouts of dependency
sets are not modelled; the array form of `setDeps` has the same effect as the set
form. Digests have no collisions.

In `CommitTx` a compute failure is a choice and so is what Phase D does to
`hasDependents`; in `Recompute` the input side is one step. `CommitGraph` puts them
together without either choice, and the proofs show that each allows what the other
does. A commit-metadata compute that throws stays a choice there (`MetadataFails`);
what these compute is in `CommitLog`. The modules of the packages take a commit of the
graph as one step, which is what `CommitsAreAtomic` shows, and
choose whether it is taken back where that matters to them. Observers in
`Subscribers` do not commit from inside Phase G: the window is still open and
`commit` throws `CommitInProgressError` before any effect.

Not modelled, and why:

* errors, flags, `types.ts`, telemetry, the dispatch shims: they keep no state of
  their own; what they do to the control flow is in the actions that call them;
* the engine behind the wasm bridge: it is not in this repository's sources; the bridge
  is an external action that may answer wrongly or throw;
* the single-commit path of the wasm backend, and the registry's
  lookups, which the queue does not use; `loadStreaming`, which nothing calls;
* `ir.ts` beyond `exportModel`: pure conversions of a model to other formats;
* migration-check: a scan of source text for deprecated names;
* devtools views: the rendering of answers as text and the outline of a chart;
* `useDispatch`, `update`, `msg` and the probe of the react package: no state, or an
  answer nobody reads;
* the swap of engines for observers that commit while they are re-attached;
* the gate of `shouldMigrate` on commit times (auto-adapt-wrapper.ts 516 passes them): how
  long a commit takes is not modelled, so the model changes engines on node counts alone;
* a compute that throws in the recompute at the end of `_migrateFrom`, which leaves the
  inputs moved and some derived nodes not: it takes a compute of several inputs, and
  those of `AutoAdapt` have one.

## Plan

Done as planned. What would come next, in order: registration of inputs,
`_migrateFrom` and registration in a body under whole commits, which needs `input` to
give both sides the same initial value; the commit log and the retained rows driven by
`CommitGraph` in the same way; the evaluator, the parser and the shrinker by recursive
functions, after which the types of all of `clients` can be proved.
