# Specifications of gardener-scaling-history

This directory holds TLA+ specifications of the recorder and the replayer in
`src/`, configurations with which TLC checks them on small instances, and
proofs, checked by TLAPS, that hold for every value of the constants.

The repository records what happens in Gardener clusters (the *recorder*
writes machine deployments, machine classes, worker pools, nodes, pods,
priority classes, events and the autoscaler's settings to one SQLite file per
cluster) and replays the recorded scale-ups against a virtual cluster (the
*replayer* loads the cluster as it was at the instant of a scale-up, deploys it
and reports what a cluster autoscaler or a scaling recommender does with it).
What makes or breaks it is whether the tables say, for an instant of the past,
what the cluster was at that instant, in spite of restarts, gaps of a watch,
handlers that overlap and database calls that fail; and whether the replayer
asks for the right instants.

## 1. Inventory

Line numbers are those of `src/`.

| component | state | operations | interacts with |
|---|---|---|---|
| machine deployments, machine classes (`recorder.go` 842-986, 1287-1347) | tables `mcd_info`, `mcc_info` | `onAdd*`, `onUpdate*`, `onDelete*`, `process*` | informers of the control plane; `GetNodeTemplates`, `deriveNodeGroups` read the tables |
| nodes, CSI nodes (414-503, 1231-1285) | `node_info`, `csi_node_info` | `processNode`, `onDeleteNode`, `onAddCSINode`, `onDeleteCSINode` | informers of the shoot; `LoadNodeInfosBefore`, `populateAllocatableVolumes` |
| autoscaler settings (988-1130) | `ca_settings_info` | `onAddDeployment`, `onAddConfigMap` | two informers, one table; `launchCA`, the snapshot |
| pods (298-308, 374-412, 610-643, 1349-1421) | `pod_info` | `processPod`, `onDeletePod` | `GetLatestPodInfosBetweenSnapshotTimestamp` |
| worker pools (566-608, 645-666) | `worker_pool_info` | `processWorker` | the snapshot |
| priority classes, events (310-372, 505-555, 1149-1229) | `pc_info`, `event_info` | `processPC`, `onAddEvent`, `onAddControlEvent` | `LoadTriggeredScaleUpEvents` |
| life cycle and connection check (73-217, 251-264, 716-840) | `recordersMap`, `started`, the database handle, the informers' stop channel | `NewDefaultRecorder`, `Start`, `Close`, `startRecorderCheck` | replaces a recorder while handlers of the old one may run |
| data access (`data_access.go`, `sql.go`) | prepared statements, the SQLite file | stores, counts, loads, deletion marks | all of the above |
| choice of scale-ups (`replayer.go` 1292-1342, 406-427) | `scaleUpEvents`, `currentEventIndex`, `replayCount` | `GetNextReplayEvent`, the loop of `ReplayCA` | reads `event_info` once |
| iteration of replay-CA (429-524, 526-581, 1075-1204, 1363-1438, 1646-1757, 1855-1994) | `lastClusterSnapshot`, `lastScenario`, config and signal files, the virtual cluster | snapshot, delta work, signals, waits, report | the virtual autoscaler, through files |
| cluster snapshot (2060-2153) | none | queries and filters | the recorder's tables |
| replay-SR (175-353) | the virtual cluster | `syncNodes`, deployment, recommender call | the scaling recommender, over HTTP |
| app (`app.go`) | pods in a cluster, report files, counters | three loops, `PutReport`, `GetDatabase` | replayers, the recorder's file server |
| comparer (`comparer.go`) | none | `adjustScenario`, `GenerateReport` | report files |

What is hard in it, and the properties that make each part correct:

* **Recorders of objects.** The handlers of one informer run one after the other, those of
  different informers concurrently. Informers relist after a watch error, may
  replace an object by another of its name without showing its removal, show
  removals as tombstones, and show everything as added after a restart. A
  correct recorder's latest row is the content the cluster holds once it caught
  up, it stores no content twice in a row, it marks what is gone, and it never
  changes what a past instant loads.
* **Autoscaler settings.** Two handlers compose one row by load, change, store
  without a lock. Each half should survive the other handler.
* **Choice of scale-ups.** Bursts of events stand for one scale-up; windows of
  pods between two marks should tile the recording; the loop should end.
* **Pods.** The rows carry the UID of a pod, so that a name stands for several
  pods one after the other. A pod that is there is loaded, whatever rows its
  predecessors left; of a pod that is gone all rows should be marked.
* **Iteration of replay-CA.** Files as signals between processes, timeouts, a
  config hash that is reset, early `continue`s. A late signal should not be
  taken for the answer to a newer config, nodes that were scaled up for one
  event should not count for the next, and every wait should end.
* **Life cycle.** Replacement of a recorder with its old handlers still
  running, failed starts, an unlocked map. A replacement should lose no event.
* **App.** One pod per cluster and kind, deleted and created again while the
  deletion is under way; reports with equal names that overwrite each other. No
  database should be left out for ever, and what is compared should belong
  together.

`PROJECT.json` lists the hazards line by line.

## 2. The modules

    Informer <---------------- Recording_proofs ------> Tables
       ^  ^  ^  ^
       |  |  |  +-- PodRecorder     <- PodRecorder_proofs
       |  |  +----- CASettings      <- CASettings_proofs
       |  +-------- NodeRecorder    <- NodeRecorder_proofs
       +----------- MachineRecorder <- MachineRecorder_proofs
                       |     |
                       |     +-> Tables
                       +-> Chronicle (refined, INSTANCE ... WITH)

    ReplayEvents      <- ReplayEvents_proofs
    RecorderLifecycle <- RecorderLifecycle_proofs
    ReplayLoop        <-+
    ReplayApp         <-+- Replay_proofs

An arrow points to what a module extends; the four `*_proofs` of the recorders
extend `Recording_proofs` too, and `PodRecorder` and `NodeRecorder` extend `Tables`.
Each module that TLC runs has an `MC` module, which extends it and at most names
values. `Replay_proofs` extends two modules that share no variable, which is why
the definitions of `ReplayApp` are called `AppSpec`, `AppTypeOK` and so on.

**Informer** is the environment of all recorders, client-go and the cluster: it
is the one part that is not the repository's code. A cluster holds at most one
object per name; every change takes a tick of the clock. `Deliver` hands the
oldest notice of a name to a handler; the recorder modules conjoin it with what
the handler does, so that an action is a whole handler. `Break` and `Relist`
model a gap of the watch, `StartInformer` and `StopInformer` a process (or a
recorder that the connection check replaces) that starts and ends. Handlers of
one object run in order; handlers of different objects in any order, which
includes the order of one queue per informer that client-go keeps.

**Tables** holds what the SQL statements compute on the rows of one name, with
`GROUP BY Name HAVING max(RowID)` as the highest `RowID` among the rows the
`WHERE` clause selects. **Chronicle** is the abstract specification: recording
a content sets it from the present on and leaves the past alone.

**MachineRecorder**: `OnAdd`, `OnUpdate`, `OnDelete` are the handlers, `Process`
is `processMCD`/`processMCC` from the point where the old hash is known. The
two kinds differ only in that the hash of a machine class covers its creation
time, which `Hash` models; which names are machine classes is a constant. A
failing lookup, conversion or store is a branch in which nothing is stored, and
the history variable `lost` records it; `missed` records a removal that could
not be marked or happened while no process ran.

**NodeRecorder**: `OnPutNode` is `processNode`, `OnPutCSINode` is
`onAddCSINode`, `OnDelete` both deletion handlers. Which names are CSI nodes is
chosen in `Init`. `Loaded(n, t)` is what a replay loads of a name.

**PodRecorder**: `OnPutPod` is `processPod`, `OnPutClass` is `processPC`,
`OnDeletePod` is `onDeletePod`; which names are priority classes is chosen in
`Init`. Pods of one name are told apart by their creation, which stands for the
UID. `HashOf` says which contents have equal hashes (the phase is not covered),
`Finished` which have a phase the query leaves out, `Undetermined` which are not
stored. A name is that of an informer, with the namespace in it; `BareName` takes
the namespace off and `KubeSystem` are the names in `kube-system`. `There` and
`LatestOfUIDs` are the window query, `Queried` what it returns of one bare name
over all namespaces, `NewestOf` the one row that the snapshot keeps of these
(`replayer.go:2097-2102`), and `LoadedPod` what then passes `filterAppPods`. Two
changes of the cluster do not happen at one instant, so that no two pods' rows
have equal stamps; in the code such a tie is broken at random. The history variable `escaped` holds the
pods of a name that nothing will mark any more; `returned` says that the content
shown was found in an older row of the pod.

**CASettings**: a handler is two steps, `Load` and one of `Keep`, `Store`,
`StoreFails`, with the other handler free to run in between; `loaded` is the row
it works on. `raced` records that the other handler stored a row made from one
that was not the latest any more.

**ReplayEvents**: `GetNextReplayEvent` is an operator over the sequence of
instants; `Begin`, `Finish`, `Panic` are the first half of an iteration of
`ReplayCA`, `Skip`, `FindNoRows`, `WriteScenario` and `Fail` its ends. Instants
are in units in which `Span` stands for 12 seconds.

**RecorderLifecycle**: `Launch`, `MakeRecorder`, `MainStarts`, `MainStarted` are
`main`, one cluster after the other; `CommenceCheck`, `TestEntry`,
`BeginRefresh`, `Refresh`, `StartFresh`, `StartedFresh` are the checker. A
recorder is `new`, `syncing` (inside `WaitForCacheSync`), `started` or `closed`.
`check.todo` are the entries the range has not come to: those there were when it
began, and perhaps one made since (`Ranged`). When fresh parameters cannot be had,
`Refresh` makes a recorder without any under the key `NoKey`, and the checker
starts it as it would the other. One event of one cluster is followed: it is handed to the database or
dropped by the handler, of the recorder in the map (`OnAddEvent`) or of a closed
one that is not done yet (`OnAddEventClosing`). `began` is when this process made
its first recorder of that cluster. Credentials expire, API servers stop
answering, the process ends at any step.

**ReplayLoop**: `pc` runs through the iteration of `ReplayCA`; every wait, call
and file of it is a step, and every error return ends the run (`Fail`).
`LoadSnapshot` is `GetRecordedClusterSnapshot`: it chooses any content of the
config and any pods. A config is its content and its hash, and the virtual
autoscaler (`VCARefresh`) brings the nodes in line when it sees another hash;
that is what the reset at `replayer.go:464` is for. `scaled` holds the virtually
scaled nodes by the iteration they came in. In the mode `SR` the same module
runs `ReplayScalingRecommender`, which shares the delta work and the scenario.

**ReplayApp**: `List`, `GetPod`, `DeletePod`, `EndPoll` are `RunCAReplay` and
`RunSRReplay`, with a step for each call to the API server; `RunPod`,
`CompletePod`, `RemovePod` are the pods. A report is the number of its upload, so
that `PairsMatch` can say from which CA report an SR report was made. `ListPairs`,
`ReadCAReport`, `Compare` are `GenerateCompareReports`.

Operators whose comment starts with `mutant:` are faulty variants of the
definition that follows them. Nothing uses them; each shows that a property
fails when the code is changed that way (`PROJECT.json`, "mutants").

## 3. What is checked

| run | instance | states | shows |
|---|---|---|---|
| `machine_recorder` | a deployment and a class, two contents, three changes | 140 thousand | types, the latest row is current, removed names are marked, only changes are stored, the table implements `Chronicle`, recording happens in the end |
| `node_recorder` | one node or CSI node, two contents, four changes, no crash after three rows | 300 thousand | one row per content, gone nodes not loaded, CSI nodes loaded with their content, live nodes loaded |
| `node_content` | one node, four changes | stops at the counterexample | the loaded content of a node may be one it had before |
| `ca_settings` | the two objects, two contents, three changes, failing calls | 172 thousand | halves are current but for failed stores and overlaps, rows are not repeated |
| `ca_settings_recorded` | the same without failing calls | stops at the counterexample | a half may stay unrecorded |
| `pod_recorder` | two names of one bare name, each a pod's or a class's, the contents waiting, bound, done; four changes, no crash after two rows | 3.84 million | one row per content of a pod, gone pods are marked but for those that escape, live pods and classes are loaded with their content unless a pod of another namespace shadows it |
| `replay_events` | all recordings of up to five events over seven instants, `Span` 2 | 41 thousand | windows tile, one mark per burst, bursts replayed, reports apart, the loop ends |
| `replay_single` | recordings of one or two events | stops at the counterexample | a single event makes the loop panic |
| `replay_loop` | two configs, one pod name, three snapshots; and one replay-SR | 120 thousand | a scenario is about its own snapshot, no node is reported twice, pods are deployed on their nodes, the run ends |
| `recorder_lifecycle` | two clusters and the empty key, one followed event, two instants | 269 thousand | events are dropped only if older than the process's first recorder, and otherwise handed over in the end unless a replacement is left halfway or the checker is blocked for good |
| `replay_app` | two databases, one report of one of them, two uploads | 451 thousand | every database is taken up for ever, comparisons are about matching reports |
| `replay_app_pairs` | one database, two reports, one upload | stops at the counterexample | a pair may never be compared |

**Bounds.** `MaxTime` bounds the changes of the cluster, and with them every
queue and, but for CSI nodes, every table. Three changes are a creation, an
edit and a removal, or a removal and a re-creation under the same name with a
gap of the watch in between, which is the longest interaction of a machine
object; with two contents an edit may return to a content recorded before a
restart. For nodes four changes are needed for A, B, A and for a node that
registers again after a removal that began with a deletion timestamp. Restarts,
gaps and failed calls are unbounded, except that a CSI node is stored again at
every restart and `MaxRows` stops that. `MaxEvents` and `MaxInstant` allow for
two bursts and a single event, in each order, with the last burst within or
beyond the span; `today` ranges over all instants.

A pod's three contents are the stages of its life; two of them, `bound` and
`done`, have equal hashes, as with the phase. Contents that are not stored
(`Undetermined`) are none in the run; the theorems hold with any. Four changes let a
pod be created, change, be removed in a gap and be created again, or be created,
deleted and removed beside one of its name in another namespace. The two names are
alike, so that the run may take one for the other (`SYMMETRY`). `MaxRows` 2 stops
crashes, not handlers. In `ReplayLoop` the three
snapshots are what it takes to skip one and to return to the config of the one
before, and two configs to tell them apart; one pod name can be pending, deployed
and left over, and the properties are per pod. Waits are not counted: a wait that
may end does so or does not. In `RecorderLifecycle` the second cluster
is there for `main` and for the checker to be busy with; two instants tell an
event before the first recorder from one after it. Only the watched cluster has a
start time that is kept and servers with a state of their own; what the servers of
the others, and of the cluster the process runs in, answer is open at every call,
which allows for more than any of them does. In `ReplayApp` two databases
are what starvation needs; two uploads are a report and its replacement. In
`replay_app_pairs` a second report is needed to hide the first.

**Fairness.** `WF_vars(Start)`: a process that ended is started again (its
pod has `restartPolicy: Always`, `specs/recorder.yaml:37`). `WF_vars(WatchResumes)`: a reflector lists again after
an error. `WF_vars(Handle(n))`: a listener's goroutine runs the handlers of
what is queued, and they do not block. The process need not stay up, so the
liveness properties assume `<>[](conn # "down")`. `ReplayEvents` assumes
`WF_vars(Advance)`: the loop has a goroutine, every wait in it has a timeout.
Cancellation (`Fail`) has no fairness.

`ReplayLoop` assumes `WF_vars(Replayer)`, and `WF_vars(VCADone)`: the wait for the
end of a scale-up has no timeout of its own (`replayer.go:1888-1953`) and ends
only because the virtual autoscaler signals the end of every round of its run
mode; nothing else is assumed of it or of the scheduler. `RecorderLifecycle`
assumes that `main` and the checker go on, that the API servers come back, that an
informer which is tried again and again while a server answers syncs and shows
the event, and that the checker, which tests again and again, meets the expired
credentials at a moment when the server answers (`SF`). Starting the process
again is the kubelet's. Nothing is assumed of the recorder without parameters: its
sync may never end. `ReplayApp` assumes that its three loops go on, for
all their waits have timeouts; of the replay pods it assumes nothing. `EveryPairCompared`
fails although a comparison that is tried again and again is assumed to succeed.

**Deadlock** is checked everywhere but in `ReplayEvents`, whose loop ends; a
`ReplayLoop` that is done stutters explicitly.

**What the properties leave open, on purpose.** `EventKept` excludes two
situations the code does not recover from. A replacement of which a step failed
leaves its entry in the map (`Halfway`, `recorder.go:101-109`): closed, which no
later check repairs, or new, which is replaced once its credentials expire. And the
checker may wait for ever in the `Start` of a recorder whose sync does not end
(`Blocked`, 815), because its credentials expired meanwhile or because it is the one
without parameters (106): then no expired credentials of any cluster are replaced.
Only the checker that never leaves that state is excluded (`[]Blocked`). `GonePodMarked` excludes pods
that are never marked: removed without a deletion timestamp (404), replaced in a
gap of the watch (380), removed while no process ran, or marked in vain.
`DeployedOnItsNodes` excludes what follows an iteration without work, which has
written its config but does not remember it (481-483). `PairsMatch` excludes a CA
report that is uploaded anew while its SR replay or a comparison is under way.
`PodLoaded` excludes contents that come back and pods that have ended. It also names
a loss: the snapshot keeps one pod per `p.Name` over all namespaces
(`replayer.go:2100-2102`), so that of two live pods of one name, as of two
StatefulSets, the replay deploys the one with the later transition, and one of
`kube-system`, filtered out only afterwards (2133), displaces an application pod.
`Shadows` says when: the other pod is there, or not marked as gone, and has the
younger row. In no other case is a pod that is there left out.

### Disagreements with the code's own words

* `NodeContentLoaded`. `README.md:7` says that nodes are recorded.
  `processNode` (438-446) skips a content that *any* earlier row of the node
  has, while `SelectNodeInfoBefore` loads the *latest* row: labels or taints
  that go from A to B and back are loaded as B. A node that registers again
  under its name with a content on record stays marked as deleted.
* `ConfigRecorded`. The same line says "autoscaling config". Priorities
  handled before the first deployment row are dropped, because the row they
  would complete has no node groups and `minMaxMapToText` refuses it, and the
  two handlers overwrite each other's half; with a resync period of 0 nothing
  shows the objects again.
* `ExitsWithoutPanic`. With one recorded scale-up `GetNextReplayEvent` returns
  index 1 of a slice of length 1; the next call of `getNextReplayEvent`
  (1337-1339) indexes it. The log lines at 1309 and 419 say that the event is
  replayed and the loop exits.
* `EveryPairCompared`. `apputil.go:570` says that all reports are listed.
  When the last CA report has no SR report, the error of `os.Stat`, which the
  loop only logs, is the named result of the function: `GenerateCompareReports`
  returns it and compares no pair (`app.go:172-175`), as long as that report has
  none.

## 4. What is proved

The proofs hold for any number of objects, contents, changes, restarts, gaps and
failures, for any recording, and for any number of scale-ups, databases, reports
and uploads. Every safety property a passing run checks, as an invariant, as an
action property or as the refinement of `Chronicle`, is the statement of a
theorem. They rest on the named assumptions of the modules only:

* the bounds are natural numbers; those of events, of their instants and of the
  informer's clock are positive;
* `None` and `Nil` are none of the values they stand in for;
* the names of machine classes are names, the two names of `CASettings` differ,
  the hash of a content is a content, the followed cluster is a cluster, a report
  is of a cluster, the empty key is no cluster's;
* `HashAssumption` of `ReplayLoop`: the hash of a config, a SHA-256 sum, is never
  the random string that `replayer.go:464` puts in its place. That two random
  strings differ is in the model, which has the iteration stand for its string.

The module with proofs of a component, and the inductive invariant in it:

* `Recording_proofs` has no theorem of its own but the lemmas all recorders cite.
  Of `Informer`: its steps keep its types; while the watch is up the queue ends in
  what the cluster holds (`Synced`); no timestamp of an object is ahead of the
  clock (`NothingAhead`). Of `Tables`: a non-empty set of rows has a latest one
  (by well-founded induction on the naturals); appending a row stamped no earlier
  than the others sets the content from its stamp on; marks change no content.
* `MachineRecorder_proofs`. The inductive invariant joins `TypeOK`, `Synced`, "no
  row is stamped ahead of the clock", `LatestRowCurrent` and `GoneMarked`.
  `LatestRowCurrent` speaks of the cache, what the handlers were last shown,
  because only then is it inductive: an update compares with exactly that.
  `CaughtUpRowCurrent` follows with `Synced`. The refinement of `Chronicle`
  maps a stored row to `Record`, a change of the cluster to `Pass` and
  everything else to a stutter; it needs that no row is stamped ahead.
* `NodeRecorder_proofs`. To `TypeOK`, `Synced` and `NothingAhead` the invariant
  adds that creation times and marks of rows are not ahead of the clock, that
  rows are unmarked while no removal was handled, and, for CSI nodes, that the
  last row is the content last shown and unmarked.
* `CASettings_proofs`. The invariant relates the row a handler works on to the
  table: unless the other handler raced, it is the latest one.
* `PodRecorder_proofs`. To `TypeOK`, `Synced` and `NothingAhead` the invariant adds
  that the removals in the queue are of the pod shown before them, also when
  several pods of one name came and went in gaps of the watch (`Chained`); and for
  every name that the row of the content last shown is in the table once, that an
  unmarked row is of a pod that is shown or about to be, or that escaped, and, for
  classes, that the row of the content last shown is the last one and unmarked.

  `PodLoaded` needs more, since rows of other pods of the name may be unmarked and
  the window query has to prefer the right one. The reason is time: a row is
  stamped with the last transition of its pod, and every transition of a pod comes
  before the creation of its successor. `LoadInv` says so of everything that may
  still reach the table: of the rows, of the notices in the queue and of the object
  in the cluster (`Seen`: those of the present pod fit it, those of others are
  stamped before its creation, and of one pod a later one is not stamped earlier),
  and that the content last shown is that of the last row of its pod (`HasLast`),
  unless a store failed or the content came back. It is inductive in the states of
  the first invariant, so that each of the two keeps its proof. Between namespaces
  the query goes by the stamp alone. It returns something of the bare name, for
  stamps are bounded and one is the greatest (`HasNewest`); and a row of another
  name that is younger than all of `n` is of a pod that is there, or escaped, or is
  marked with an instant not yet past, since the first invariant marks all others
  (`ShadowedOnly`): that is what `Shadows` says.
* `ReplayEvents_proofs`. The invariant relates the index to the last mark, and
  says which events the marks so far cover.
* `RecorderLifecycle_proofs`. `OnlyOldEventsDropped` follows from "the start time
  of the watched cluster's recorder is `began`", which a replacement preserves
  because it takes the start time of the one it replaces. `TypeOK` has the parts
  needed for that: the checker works on entries that exist.
* `Replay_proofs`, of `ReplayLoop`. That a scenario is about its own snapshot and
  that no node is reported twice depends on which config the virtual autoscaler
  has read when the replayer goes on. Until the run is done the invariant says:
  what is there at each place and in each mode (`ControlInv`); the config file and
  the success file are about this iteration's snapshot (`FilesInv`); an ordinary
  hash stands for its content, a random one for its iteration, and the autoscaler
  has the hash of this iteration only after it answered in it (`HashInv`: without
  the reset a config that returns would be taken for the one in use, and the nodes
  of the last scale-up would stay); the virtual cluster has the nodes of the
  autoscaler's config, which is that of `lastClusterSnapshot` unless an iteration
  was skipped (`NodesInv`); the pods are the snapshot's when the run begins
  (`PodsInv`); and once the autoscaler answered, the scaled nodes are those of this
  iteration, if anything was reported before (`ScaledInv`). A report that went wrong
  would stay, so that the properties of the reports are conjuncts of their own.
* `Replay_proofs`, of `ReplayApp`. A running SR pod has the CA report as it is, or
  the report was replaced meanwhile (`InputInv`); an SR report younger than its CA
  report, and one that is listed or compared, was made from that CA report
  (`PairInv`). The first gives the second when a pod completes.

Only model-checked, because liveness under fairness is out of the prover's reach:
`EventuallyRecorded` (of `MachineRecorder` and of `CASettings`), `EventuallyLoaded`,
`Terminates` (of `ReplayEvents` and of `ReplayLoop`), `EventKept` and
`EveryDatabaseReplayed`. For `Terminates` of `ReplayLoop` no measure decreases with
every step of the replayer: while the scale-up is under way it looks for the done
file again and again, and only the fairness of the autoscaler ends that. The four
disagreements are counterexamples of TLC.

## 5. What is not modelled

* The contents of objects (a content is a value), logging, HTTP, the HTML and the
  arithmetic of the comparison, prices, manifests and scripts, and SQLite beyond
  what its statements compute.
* Worker pools (`processWorker`): their rows are copied into the snapshot and
  nothing in a replay depends on them. Pod disruption budgets are only logged.
* The copies of a database for download (`app.go:618`, `fileserver.go`): two
  writers of one `_copy.db`; what the file holds then depends on SQLite and the
  file system, not on this code.
* What the recorder without parameters records (`recorder.go:101-106`): it is of the
  cluster the process runs in. One that another displaces from the empty key of the
  map is left to itself, in the code as in the model.
* `ComputeKubeSystemResources`, which adds up the requests of the pods a snapshot
  keeps.
* Which events are stored (`onAddEvent`, `onAddControlEvent`): the event followed
  passes the filters.
* Launching and killing the virtual cluster, the virtual autoscaler and the
  recommender (`replayer.go:739-976`), and the one-shot tools.
* The composition of the tables with `ReplayEvents` and `ReplayLoop`:
  `LoadSnapshot` chooses any snapshot, which is more than any table holds. What
  would be gained is a property across the two, that a replay of a past instant
  loads the same cluster however late it runs. `Chronicle` is that property for
  machine deployments and classes; nodes, whose query goes by the creation of the
  node, and pods, whose rows are stamped in the past, do not have it.
