# A TLA+ model of the self-healing control plane

The system watches a Kubernetes cluster with eBPF probes, turns kernel signals
into anomalies, and heals pods by restarting, rescheduling or cordoning. It is
three processes around a NATS JetStream stream: a node **agent** publishes
signals, **analyzers** turn signals into anomalies, and one **controller** turns
anomalies into actions and watches what became of them.

    probes -> agent --signals--> analyzer --anomalies--> controller --> Kubernetes
                                                  \--actions, outcomes--> stream

The model covers the whole path: the agent's probe life cycle and pod mapper, the
stream and its consumers, the analyzer's detection engine, the controller, and the
node-level intelligence beside it. Beside that path stand two tools that load the
same probes on a node, the **observer** and the **terminal UI**: their start-up and
shutdown, the cgroup resolver and statistics collectors they share, the process
graph, and the UI's state machine are modelled too. Time is discrete; a duration of the
policy is a small number of units in a run and any positive number in a proof.

## 1. Inventory

| Component | State it keeps | Operations | Talks to | What is hard | What makes it correct |
|---|---|---|---|---|---|
| Reconciler (`internal/controller/reconciler.go`) | none of its own; owns the guardrails | `Run`, `handleAnomaly`, `reconcile` (eight gates, dispatch) | bus, policy, guardrails, ladder, executors, observers | gates read state that observers change before the action runs; every path acknowledges | throttling holds for what is *executed*, one handler at a time, always returns |
| Escalation ladder (`escalation.go`) | `sync.Map` of (pod, namespace, type) to (state, action, attempt) | `NextAction`, `MarkResolved`, `IsManual`, `Purge` | reconciler, observers, purge goroutine | Load/Store and visit/delete are not atomic | pace of the climb, resets not lost, MANUAL terminal |
| Outcome observers (`observer.go`) | one goroutine per action: deadline | `WatchAsync`, `watch`, `publish` | API server, breaker, ladder | run beside the reconciler and each other; deadline races the last poll | exactly one verdict per action, eventually |
| Rate limiter (`guardrails/ratelimit.go`) | `lastAction` | `Allow`, `TimeUntilNext` | reconciler | token spent before the action, sometimes for nothing | spacing |
| Cooldown store (`guardrails/cooldown.go`) | per (pod, action): last instant, history | `Allow`, `TimeUntilNext`, `Reset` (no caller) | reconciler | boundaries of interval and rolling hour; in memory only | spacing and cap per key |
| Circuit breaker (`guardrails/circuit_breaker.go`) | outcome history, `isOpen`, `trippedAt` | `Allow`, `RecordSuccess`, `RecordFailure` | reconciler, observers | tripped by another goroutine after it was asked | an open breaker stops healing |
| Executors (`actions/*.go`) | the cluster | `Execute` | API server | a call may fail before or after it took effect | dry run touches nothing |
| Policy (`guardrails/policy.go`, `config/guardrails.yaml`) | configuration | lookups with defaults | all guardrails | defaults for actions not in the table | - |
| Analyzer engine (`internal/analyzer`) | per (pod name, metric) window; per (pod name, action) cooldown | `ProcessSignal` | bus | late, reordered signals; several rules on one window; competing replicas | cooldown and cap per replica, no young sample lost, only breaching names blamed |
| Event bus (`internal/bus`) | durable pull consumers; client batch | `consume`, `acquireConsumer`, `EnsureStream`, `Publish*` | NATS | redelivery while the first copy is queued; stale consumer handles; asynchronous publish errors | at-least-once, bounded retries, reacquisition |
| Intelligence (`internal/intelligence`, started by no command) | per-node anomaly windows, dependency graph, node scores | `Record`, `flush`, `AddEdge`, `Analyse`, `RecordOutcome` | bus | handler runs unlocked in the middle of `flush`; score updated under a read lock | no anomaly lost, graph consistent with registrations |
| eBPF agent (`internal/ebpf`, `cmd/agent`) | loaded probes, drain goroutines, cgroup-to-pod cache | load, attach, drain, poll, resolve, close | kernel, informer, bus | informer callbacks race lookups; shutdown order | mapping never names a deleted pod for long; no leak on a partial load |
| Kernel probes (`ebpf/*.c`) | BPF maps (start times, counters) | entry/exit programs | agent | start without finish, map at its limit | no latency from mismatched pairs |
| Cgroup resolver (`pkg/cgroup`) | cache of live cgroups, history of deleted ones with deletion times | `Lookup`, `refresh`, `evictStaleEntries`, background goroutine | collectors, file system | two goroutines walk the tree unlocked and apply their results in either order | running containers stay resolvable, history expires |
| Statistics collectors (`pkg/collector`: cpu, memory, io, network, syscall) | previous readings | `Collect` | BPF maps, resolver | iteration aborted half-way; dead entries removed while others are read | each report is what was counted since the last one; dead entries leave the kernel map |
| Process graph (`pkg/graph`) | nodes, children, sessions, eviction order, event rings | `IngestFork`, `IngestExec`, `IngestExit`, correlation, eviction, snapshot queries | TUI's process view | events lost, repeated, reordered; eviction in the middle of an insertion | indices agree, no false ancestor, every tracked process shown |
| Security collectors, small libraries (`pkg/collector` ring readers, `pkg/percentile`, `pkg/timeseries`) | ring-buffer readers | decoding | TUI, observer | drain loops | - |
| Exporter, telemetry | counters | output only | - | - | - |
| Terminal UI (`internal/tui`, `cmd/tui`) | state machine, tab bar, modal, palette, tables, detail page, event log, sparklines, process view | key dispatch, data batches, drawing | collectors, process graph | indices into lists that batches replace; overlays over views; cached drawings | indices valid, one owner of the keyboard, no stale drawing, no lost event |
| Commands (`cmd/*`) | what the loaders opened, the deferred calls | start-up, run, shutdown | kernel | a module fails after part of it was attached; shutdown order around a shared map | nothing stays attached, users of the map go first |

`PROJECT.json` lists the same components with their status, and under `hazards`
the places in the code where a test would hardly reach what can go wrong.

## 2. Modules

| Module | Models | Notes |
|---|---|---|
| `Clock` | `time.Now`, `time.Since` | external; `NoTime` is Go's zero time |
| `Workload` | pods, nodes, anomaly types | a pod stands for its namespaced name. The analyzer's event has no `node` field while the controller decodes one, so `CarriesNode` selects both cases |
| `RateLimiter`, `CooldownStore`, `CircuitBreaker` | the three guardrails | each method is one atomic operator, as its mutex makes it. Histories are sets of instants or records; the comments say why nothing is lost |
| `Escalation` | the ladder | `NextAction` is a load and a store, `Purge` a visit and a delete; `OBSERVING` is "no entry" |
| `Policy` | the policy's lookups and their defaults | operators, instantiated by `MCController` for an action table like that of `guardrails.yaml`; their answers are the constants of `CooldownStore` and `Controller` |
| `Controller` | reconciler, observers, purge, executors, restarts | composes the modules above |
| `HealingThrottle` | nothing in the code: the abstract promise | an action is issued only if it keeps spacing, cooldown and cap against what the same process issued before |
| `ControllerClaims` | statements of comments and docs that the code does not keep | one violation run each |
| `SlidingWindow`, `Analyzer` | `window.go` and the engine | one action per signal and replica |
| `DependencyGraph`, `Reasoner`, `Aggregator` | `internal/intelligence` without its scores | `Aggregator` composes the other two; a lookup, a record and each part of `flush` that holds the mutex are actions |
| `NodeHealthScorer` | the node statistics | a reader's loop is one step per element |
| `Intelligence` | both | nothing of the aggregator reads the scores, so a behaviour follows one of the two |
| `EventBus` | `internal/bus` and the agent's `ensureStream` | one durable consumer and the processes that share it; the server is external |
| `Mapper`, `Agent` | `internal/ebpf` and `cmd/agent` | `Agent` composes the loader with the mapper its goroutines use |
| `ToolStartup`, `NodePrograms` | loaders and `main` of `cmd/observer` and `cmd/tui` | `NodePrograms` sets the agent and the tools side by side: separate processes, one followed per behaviour |
| `CgroupResolver`, `StatCollectors` | `pkg/cgroup`, the five collectors and the observer's poll loop | `StatCollectors` composes the poll loop with the resolver it shares with the background goroutine |
| `ProcessGraph`, `ProcGraphView` | `pkg/graph` and the view that shows it | the second adds the collection's phases and the selections |
| `VirtualTable`, `TuiViews`, `Tui` | table widget and table tabs; detail page, event log, sparklines; the root model | `Tui` composes all of them with the process view |
| `Subsequences` | Go's in-order filters and the sort of a table | `Picked`: the elements at a set of positions, in order; `SortedBy`: a set in a given order. No recursion, so that both can be proved about |
| `ControllerProofs`, `AnalyzerProofs`, `BusProofs`, `IntelligenceProofs`, `AgentProofs`, `CollectorProofs`, `TuiProofs` | theorems | section 5 |
| `SequenceFacts` | nothing in the code | lemmas the proofs share: least elements of sets of numbers, recursive functions exist, what `Picked` and `SortedBy` compute |
| `MCController`, `MCAnalyzer`, `MCIntelligence`, `MCEventBus`, `MCAgent`, `MCCollectors`, `MCTui` | constants for TLC | section 4 |

### Controller: state and actions

`pc` is the reconciler goroutine's position: one point per gate, since between
any two gates an observer, the purge goroutine, the cluster or a crash may act.
`req` is the anomaly in hand and `local` what `NextAction` loaded and then chose.
`watchers` is the set of running observers, each with the identity of its action
(the instant of its token), its deadline and its next wake-up. `ready`,
`cordoned` and `shunning` are what the API server reports: ready pods,
unschedulable nodes, and pods whose Deployment was patched to avoid their node.
`ledger` and `slips` are history variables used by properties only.

| Action | Code |
|---|---|
| `Receive` | gates 1 and 2; a failed pod lookup passes the label gate |
| `BreakerGate`, `LimiterGate` | gates 3, 4 |
| `LoadEntry`, `StoreRung` | gate 5: `IsManual` and the two halves of `NextAction` |
| `ConfirmGate` | gate 6, with its reset of the ladder |
| `CooldownGate`, `CordonGate` | gates 7, 8 |
| `Dispatch` | `Dispatcher.Execute`; the call may fail before or after taking effect |
| `DispatchFailed`, `LaunchObserver` | the rest of `reconcile` |
| `ObserverResolved`, `ObserverSleeps`, `ObserverExpired` | one wake-up of `watch` and, when it ends, `publish` |
| `Purge` | `PurgeVisit`, `PurgeDelete` |
| `TimePasses`, `PodChanges`, `Crash` | environment |

`Receive` takes any anomaly at any time, so redelivered and duplicated messages
are behaviours of the model. Published events, metrics and audit entries are
outputs nothing in the controller reads and are left out.

### Analyzer: state and actions

`windows`, `alerted` and `recent` are one engine's `WindowStore` and
`CooldownStore`, per replica; they are keyed by pod *name*, as in the code, while
`alerts` records the namespaced pod. `ProcessSignal` is one action: a replica
calls it from its only subscriber goroutine, and its state is private. It records
the sample once per matching rule, evicting and capping the window each time, as the
engine does (`WindowRecord` folds `RecordOne` over the rules); evaluates the rules of
that metric, scores, decides, and applies the cooldown in rule order. Confidence is in half percents
so that half a boost is an integer; averages are compared multiplied out, so
floating-point rounding is not modelled. Whether a publication that follows
succeeds changes nothing in the engine (the cooldown is recorded first, an error
only logged), so it is not a choice of the model.

### Intelligence: state and actions

`windows` maps a node to its sequence of entries; a window that was deleted and
an empty one are the same value, because `flush` deletes empty ones. `inbox` is
the entry between `handleAnomalyMessage`'s lookups and `record`. `pc` and `flush`
are the flush goroutine: `FlushVisit` is one iteration of its loop up to the point
where the mutex is released (`FlushReport`) or the node is left (`FlushQuiet`);
`Analyse` is the handler; `FlushClear` takes the mutex again. Both filters of an
iteration (the fresh entries, the first of each pod) are `Picked` by the positions they
keep, and since they write in place, what they leave in the shared array is
`Overwritten`. `pending` is history. The graph starts as one sync leaves it;
later syncs and watch events interleave with everything else, also between the two
halves of `addPod` (`SyncPod`, then one `SyncVolume` per claim). A pod that is put on
a node while another still lists it stays in that list; `moved` is the history of those
pods. The scorer's state
is per node: `stamps` is the backing array and `len` the slice header, so that a
reader that compacts in place is modelled as the memory operations it makes.

### Event bus: state and actions

`stream` is the retention policy the stream was created with. `status` and
`deliveries` are the server's view of each message at the consumer (new, pending,
due again, settled, exhausted); `queue` is the rest of a replica's fetched batch, a
set whose messages are handled in any order (redelivery reorders a batch anyway),
and `pc` the replica's position in `consume`. A fetch is two steps: `Fetch` is the
server's hand-out, which counts as a delivery, and `Receive` what arrives (`pc` is
"transit" in between): messages lost on their way, because the connection broke or the
fetch timed out, count toward `MaxDeliver` all the same and are counted in `missed`.
`Discard` is the stream dropping an old message (`MaxAge`, discard-old). AckWait may end at any moment for a pending
message (`AckWaitOver`), since a message waits for all before it in its batch, and for
one lost in transit. An
acknowledgement may be lost while the server cannot be reached. Back-offs and
transient fetch errors only delay and are left out.

### Agent: state and actions

`held` is what the kernel has for the process, `tracked` what `LoadedProbes`
knows of; `LoadCollection`, `AttachLink` and `OpenRing` add to both, and a step of
any probe may fail (`LoadFails`). A cgroup stands for the container in its path, so
that the mapper's index is a set of containers and its cache an instant per
container. `Resolve` is four steps (cache, path, index, store) and `onPodDelete` is
two; they interleave. `ReadClosed` is a drain goroutine that reads a closed ring buffer:
the loader compares the error with `ErrClosed` itself, and the library wraps it
(`ReadError`), so the goroutine goes on reading. `Close` ends the model; what `main`
does until the process exits is not in it.

### Tool start-up: state and actions

A handle is something `main` or a loader has to close: a collection, an attached
probe, a ring-buffer reader, the pin of the process tree map. `open` are the open
ones, `lost` those of them no variable refers to any more (links a failed `attachProbes`
made), `deferred` is Go's stack of
deferred calls as a sequence of sets of handles. `NewCollection`, `Attach`,
`NewCollector` and `LoadLineage` are the steps of a loader for the module at `turn`;
`LoadError`, `AttachError` and `CollectorError` its error returns, which the tools
survive for every module but the first. `Run`, `Stop`, `RunError`, `CloseNext` and
`Return` are the rest of `main`. A collection its loader does not return to `main` is
closed by nobody and stays open until the process ends; so does what is lost, unless
the garbage collector finalises it first, which the model does not rely on. The TUI's
demo mode loads nothing.

### Resolver and collectors: state and actions

`cache`, `history` and `deletedAt` are the resolver's maps. A refresh is a walk
over the directories without the lock (`walk`, one directory per step) and its
application under it (`ApplyWalk`); the background goroutine and any collector that
looks up an unknown cgroup walk independently. Time counts refresh periods, and
`EvictStaleEntries` ages the history. A behaviour follows one kind of collector:
`kern` is its BPF map, `prev` the last snapshot (and `latencies` the I/O collector's
latency counters in it, which it takes from the entry read last), `samples` and `toDelete` what the
running iteration has gathered. `BeginCollect`, `NextEntry`, `LookupAgain`, `Abort` and
the collectors' `CpuCollect` to `SyscallCollect` are the iteration. `done` and `reported` are history: what each cgroup really did, and
how much of it was reported.

### Process graph: state and actions

`g` is the graph: `nodes`, the eviction `order`, `children` and `sessions` lists, and
per node the capped ring of events with its total. Forks, execs and exits arrive in
any order and any number of times, or not at all. An exec carries the true parent, or
0 when the probe's tree map has no entry for the process; init, PID 1, is a process
like others whose children the view draws as roots. A node keeps the container
name of its last event: what the resolver knew then, or the cgroup's number (`NamesOf`),
and the view groups nodes by that name, so that a cgroup may be shown under two names
and two cgroups under one. A PID is not used twice in a cgroup, and processes with the
same PID have no name in common (`ViewAssumption`; section 3 says what reuse would do).
Session ids are those of the process: one that changes its session is left out.

### Terminal UI: state and actions

`app` is the root model (state, state to return to, active tab, modal, theme),
`palette` the command palette, `tbl` the table of the followed tab, `detail` the
detail page, `log` the event log, `graphs` the sparklines. bubbletea calls `Update`
from one goroutine with whole messages, so each message is one action: a key
(`HandleKey`), a batch (its handler issues the next collection), a resize, a theme
change; a batch has the list of each collector, which need not name the same containers,
and events whose count may be 0 (one occurrence) and which may themselves be old
(`MaxAge`); `View` draws and fills the caches. `phase` says where the collection in
flight is: keys arrive during all of it but touch what it changes only after the
batch. A **session** bounds what the user and the node do in a behaviour; five are
explored: table, overlays, pages, event log, process tree.

## 3. Deviations of the code from its documentation

Each of these is a counterexample of a run:

- **MANUAL is not terminal** (`manual`). The ladder's last rung is refused by gate
  6, whose reset takes the context out of MANUAL at once.
- **Reading scores is not safe under the read lock** (`scores`). `computeScore`
  compacts the timestamps in place; two readers lose an anomaly or count it twice.
- **Incidents are missed with a threshold above two** (`threshold`). `flush` keeps
  one entry per pod by compacting the window in place, so an older anomaly of one pod
  overwrites the younger one of another; when the older has expired, three pods with
  young anomalies are not an incident. With the default of two this cannot happen
  (theorem `IncidentsReported`).
- **Stream set-up is not idempotent across programs** (`stream`). An agent that
  comes first creates `SELFHEAL` as a work queue; `EnsureStream` asks for limits
  retention, which the server does not change, and the analyzer and controller
  restart for ever.

Met while modelling, visible in the model, without a run of their own. The first
group contradicts a document of the repository:

- **Ring-buffer goroutines do not end.** The drainers of `loader.go:290`, `323`, `353`
  and `383` compare the read's error with `ErrClosed` by `==`; the library wraps it, so
  that after `Close` they read on in a tight loop (`ReadClosed`). `memory.go:270`, for
  the same reader, uses `errors.Is`.
- **A resolved incident may not start over.** A `MarkResolved` between `NextAction`'s load
  and store is overwritten (`StoreRung`), and the ladder goes on where it was, against
  `escalation.go:20`.
- **A cap of zero is no cap.** `max_per_hour: 0` is said to mean "never autonomous"
  (`guardrails.yaml:125`, `policy.go:159`); `Allow` skips the cap (`cooldown.go:86`).
  `HealingThrottle` promises what the code enforces: of an action with cap zero and
  without confirmation, the spacing and the cooldown only. In the shipped table the
  actions with cap zero need confirmation.
- **Cooldowns do not outlive the process** (`CooldownReset`), although `escalation.go:22`
  relies on it: spacing and caps are those of one process.
- **An unregistered pod keeps edges.** `addPod` fetches the claims without the lock; a pod
  deleted meanwhile gets its volume edges afterwards (`SyncVolume`), against `graph.go:283`.
- **Entries of replaced containers stay.** `onPodDelete` removes the containers of the last
  status only, so the entry of a container that a restart replaced stays in the index for
  ever, against `mapper.go:157`. `DeletedPodFades` is therefore about the last container.
- **I/O latencies are of another cgroup.** The collector remembers, for every cgroup, the
  latency counters of the entry it read last (`io.go:207`, `IoCollect`), so that with two
  cgroups the average latency of an interval is wrong, against `io.go:78`.
- **The palette leaves its state behind.** The state `CommandPalette` is not left when the
  palette closes (`app.go:282`, against `state.go:22`); Enter then opens no detail page any
  more, and help opened then returns to that state.

The rest are details:

- Controller: refused requests use up rungs: the rung is stored before the cooldown
  is asked (`escalation.go:142`, against its header and `guardrails.yaml:53`), so a
  pod is rescheduled after fewer restarts than configured; a handler that passed gate 3
  dispatches although the breaker has opened since (`AtMostOneSlip` is the bound that does hold);
  tokens are spaced but dispatches are not, because API calls lie between
  (`TokenSpacing` is about tokens); a successful cordon resolves the ladder of the
  node's name and not of the pod (`ResolvedKey`); a protected pod whose lookup
  fails is acted on (`Receive`); `Purge` may delete an entry stored after its visit
  (`PurgeDelete`); the ladder is climbed without waiting for the observation window.
- Analyzer: cooldowns are per replica and the chart deploys two; windows are per
  pod name, so a healthy pod is reported for the samples of a namesake;
  correlations of rules on different metrics never apply, because only the rules
  of the signal's own metric are evaluated (`Matching`); a `log_only` decision is
  published with `dry_run` set, a field the controller does not decode; an anomaly
  carries no node, so that reschedules and cordons fail (`CarriesNode = FALSE`).
- Intelligence: an anomaly recorded for a node while that node's incident is being
  handled is deleted with the window (`FlushClear`), although the header promises
  an incident whenever enough pods are affected; a node that
  joined between the two lists of a sync has no name in incidents (`Lookup`); a pod put
  on a second node before its deletion from the first was seen stays listed there for
  ever (`moved`); the header says a cause needs at least 60 % of the pods, the code
  more than 60 %; the patterns name metrics while anomalies carry rule identifiers,
  so that with the shipped rules the cause is always unknown.
- Bus: poison messages are given up after `MaxDeliver`, not sent to the DLQ the
  header mentions; a consumer created again delivers the whole stream again.
- Agent: the path cache never expires.
- Tool start-up: `attachProbes` returns the links it made together with its error and
  the callers drop them, so tracepoints of a module the tool runs without stay
  attached until the garbage collector finalises them (`lost`); nobody closes the
  collections that the loaders keep to themselves; the TUI never removes the pin of the
  process tree map and never closes its ring readers. `LetGo` names each of these as an
  exception, and allows no other.
- Resolver: the header says the cache is refreshed when older than 5 s, the code
  says 100 ms; `k8sMode` is never read; a container younger than the last refresh is
  evicted from the kernel map as dead; an older walk may be applied after a newer
  one and declare a live container deleted (`ApplyWalk`; history keeps it resolvable,
  which is what `KnownStaysKnown` is about).
- Collectors: `AgeSeconds` subtracts kernel time from wall-clock time; the drain
  loops set a new 1 ms deadline before each record and do not end while records
  come faster; gauges of vanished containers are never deleted. (Not modelled.)
- Process graph: lists are kept for parents and sessions that are not tracked, for
  ever; an evicted parent that is created again as a stub has no children list; a
  reused PID can make a cycle of PPIDs that hides processes; two cgroups with the
  same name share keys; `truncated` is set when a chain ends exactly at the limit.
- TUI: the palette's `quit` has no action; `S` on the last
  column, descending, panics (`SortPrevPanics`) and otherwise never goes back a
  column; while filtering, `q ? : T` and digits go to the application, `esc` never
  reaches the search bar and Enter opens the detail page; the table's scroll offset
  is not clamped when rows shrink; cursor and selections are indices and drift to
  another row when a batch is sorted differently; help opened while loading returns
  to loading; keys that scroll the sparklines do not mark the view dirty; an entry of
  the event log whose time was advanced can hide a younger duplicate from merging;
  `paused` survives a change of container; `T` continues from its own index after the
  palette changed the theme; theme changes write the configuration file from
  racing goroutines; very narrow terminals panic in `strings.Repeat`.
- Bus: errors of `PublishAsync` are collected by nobody (`Publish` may lose a message).

## 4. Runs

| Run | Checks | Instance |
|---|---|---|
| `guardrails` | `CooldownSpacing`, `WaitAgreesWithAllow`, `AtMostOneSlip`, `OneVerdictPerAction`, `LadderPace`, `ThrottleSpec` (refinement) | two anomaly types on one pod, so that two ladders share the pod's cooldown entries; breaker enabled; evaluation window, pause and rolling hour within the horizon, purge age short; two attempts of each kind before the next rung (cordoning is reached in `liveness`); one restart of the process at any point |
| `liveness` | `HandlerReturns`, `VerdictReached` | fair goroutines, time may pass at every program point |
| `analyzer` | `AlertSpacing`, `AlertCap`, `FreshSamplesKept`, `BlamedNameBreached` | two pods of one name, two rules on one metric (shared window, correlation), a suppressed rule, a rule with an invalid window, one that fires on low values, a disabled rule; lag 1, capacity 3, rolling hour within the horizon, one restart |
| `intelligence` | `TypeOK`, `StampsExact`, `GraphIndexed`, `CordonNeedsMajority`, `IncidentsExact` | two pods, two nodes, a volume, threshold 2; after the first sync four inputs, of them at most three anomalies, the others changes of the graph; for the scores one node, one reader, four anomalies over an hour of two units |
| `bus` | `TypeOK`, `AckedWasHandled`, `NotAbandoned`, `BoundedHandling`, `EventuallyHandled` | two replicas, a good and a poison message, two deliveries; a crash, an outage, a lost consumer, deliveries lost in transit: any two of these in a behaviour |
| `agent` | `DeletedPodFades`, `IndexComplete`, `NothingLeaks`, `LetGo` | a probe without and one with a ring buffer, a pod that restarts once, two resolving goroutines; the two tools with the modules and probes they really have |
| `collectors` | `TypeOK`, `HistoryDated`, `KnownStaysKnown`, `DeltaExact`, `DeadEvicted` | one directory, the poll loop and the background goroutine, time to live 2, history of 1, three operations, one aborted iteration, one directory missed by a walk; all five kinds |
| `tui` | `TypeOK`, `GraphSound`, `ProcessTreeTrue`, `IndicesCurrent`, `EventsConserved`, `KeyboardHasOneOwner`, `DetailOfOne`, `DrawnIsCurrent` | five sessions; a chain of three processes from PID 1 on, whose container events name in two ways, and a single one in a container of one of these names, with room for two nodes and one event each; three containers, batches whose collectors differ, a log of two entries with events that are counted 0 and 2 times and up to one unit old, two sparklines |
| `manual`, `threshold`, `scores`, `stream` | violations | section 3; `threshold` has three pods and a threshold of three, `scores` two readers, `stream` no failure at all |

What some properties say. `IncidentsExact`: an incident is about enough different
pods with young anomalies that were never reported, and when a flush ends, no node is
left with enough pods whose anomalies are young, were recorded before the flush
and were never reported. `LadderPace`: from the first rung a ladder has in this process,
every rung above it costs another `MinInterval`, whenever that first rung was taken.
`WaitAgreesWithAllow`: the wait that a refusal reports is the first instant at which
`Allow` would say yes, for the token and the interval; for the cap it is never too short.
`GraphIndexed`: the node a pod is said to run on lists it, and no other node does unless
the pod was put there before it was taken off the first. `NotAbandoned`: as long as fewer
processes crashed, and fewer deliveries of a message were lost on their way, than it has
deliveries, it is not given up before a handler saw it, although waiting in a batch uses
deliveries up. `BoundedHandling`: a poison message stops
after `MaxDeliver` calls per creation of the consumer. `EventuallyHandled`: every
message reaches a handler, unless the stream drops it first or its deliveries died with
processes and connections. `DeletedPodFades`: a `Resolve` that overlaps
`onPodDelete` can put the pod back into the cache, but not for longer than the time
to live and the time a goroutine is held up. `LetGo`: when a tool's `main` returns,
every probe of the modules it ran is detached, and every collection `main` was given is
closed; what stays open is listed in the property: collections no loader returned, the
TUI's readers and pin, and links of modules that failed to load. `KnownStaysKnown`: a running container that was found
once stays resolvable although an older walk may be applied after a newer one. It
rests on a time to live of two refresh periods, which the code has, and on a
background refresh that does not outlast its period; the number of goroutines that
refresh does not matter (theorem `KnownStay`). `DeltaExact`: a report, I/O latencies apart,
is exactly what the cgroup did since its last report, also after an aborted iteration. `DeadEvicted`: the entry
of a dead cgroup eventually leaves the kernel map. `ProcessTreeTrue`: the process
view shows every tracked process once, under the name of its last event, and no ancestor
that did not fork it. `EventsConserved`: each occurrence that a batch reports is counted
in one entry of the log or was cut off, an event without a count being one.
`KeyboardHasOneOwner`: at most one overlay is open, an open palette has the state that is
named for it (the converse does not hold, section 3), and the table has the keys exactly
while its tab is shown.
`IndicesCurrent`: cursor, selections and visible rows are valid for the lists as they
are now. `DrawnIsCurrent`: a drawing that would be returned from the cache is what
would be drawn.

**Bounds.** `MaxTime` ends the clock; 2 to 6 units let a cooldown, an observation
window, a pause, a time to live and a rolling hour begin and end. `MaxEpoch`,
`MaxRuns` and `MaxCrashes` bound restarts: process state is in memory, so a second
restart begins where the first did. `MaxSignals`, `MaxMessages`, `MaxAnomalies` and
`MaxEscalated` bound inputs; `MaxUpdates` the changes of the graph and `MaxInputs` these
and the anomalies together; `MaxOutages`, `MaxLosses` and `MaxMissed` the failures of the
server and the connection, and `MaxFailures` all failures of the bus together; `MaxAge`
how old an event of the log may be when it is read (ages from `TooOld` on are one value,
which no event can tell apart); `MaxWork`, `MaxAborts` and `MaxSkips` the
operations of a cgroup, iterations aborted and directories missed; `maxEvents` of a
session the events; `TuiAssumption` says what a session may be, any layouts, heights,
batches of different containers and logs of events. Larger instances of the last two runs (two directories with one
collector, three graph nodes) were checked while developing and are left out
for their time; theorem `DeltasExact` is about any number of cgroups. One pod and one node suffice for the
guardrail runs because all state but the limiter and the breaker is per pod, and
the limiter is exercised by two types. In the `analyzer` run one replica suffices
because replicas share nothing, and the two pods, which have the same name, are
interchangeable (`NamesakeSymmetry`), as are the anomaly types of `guardrails`
(`TypeSymmetry`) and the pods and nodes of the `intelligence` run (`PodSymmetry`). `MaxAttempts` is 1 instead of 10: it only counts. `MaxStall` bounds
how long a goroutine is held between looking a container up and caching it; without
such a bound nothing could be said of a deleted pod. `SlowPoints` says where time
may pass inside a handler: `ApiPoints` (waiting for a message or for the API
server) in the larger runs, every point in `liveness`; the proofs assume nothing
about it.

**Fairness.** `HandlerReturns` and `VerdictReached` assume weak fairness of the
reconciler goroutine's steps, of each observer and of the clock: the Go runtime
schedules runnable goroutines, and the handler's API calls are under a 30 s
timeout. Nothing is assumed about pods recovering, anomalies arriving, purging
or crashes. An observer is obliged to reach a verdict only if its window ends
within the horizon. `EventuallyHandled` assumes weak fairness of each replica's loop,
of AckWait (a timer of the server) and of the end of an outage; `SetupSucceeds` is
refuted under the same. `DeadEvicted` assumes it of the poll loop, the walks, the
background refresh, the eviction and the passing of refresh periods (tickers);
nothing is assumed about containers ending, and aborts are finitely many.

Deadlock is checked in every run but `agent`, `collectors` and `tui`: an agent, a tool
and a UI that was quit really stop, and collectors come to rest once the bounded
work is done.

## 5. Proofs

Every theorem is about the module's own `Spec`, for all values of the constants that
satisfy the module's named assumptions. Each safety theorem follows the same argument:
an inductive invariant (named below) holds initially, is kept by each action, and
implies the property. The invariants are what a reader of the code needs to know.

Loops are recursive functions in the models, and induction over data is not
available to the provers. Where a proof needs what a loop computes, it takes the
least index at which a claim fails (`LeastNat`), or a function that solves the
recurrence (`RecursionExists`), both of `SequenceFacts`; the same module says what
`Picked` and `SortedBy` compute (`PickedIs`, `SortedIs`), and what picking the elements
above a bound leaves of an append, of a concatenation, or when done twice (`AboveAppend`,
`AboveConcat`, `AboveTwice`).

**Controller** (`ControllerProofs`), for all sets of pods, nodes and types, all policies,
every `SlowPoints`, and any number of restarts.

- `TypeCorrect`: `[]TypeOK`. Not inductive alone: that a `Dispatch` records a
  proper instant needs `ControlOK`, which says what is already in hand at each
  program point (a request, a token, an action of the dispatcher, a grant).
- `TokensSpaced`: `[]TokenSpacing` (two actions of one process paid with tokens
  `MinInterval` apart), through `TokenInv`: every dispatched action's
  token is at most `lastToken`, and at least `MinInterval` before it while a new
  token is held.
- `DryRunHarmless`: `[]DryRunTouchesNothing` (no node cordoned, no Deployment patched, no
  observer started) and `DryRunDeletesNothing` (no step of the controller makes a pod unready). With
  dry run on, no executor takes effect, whatever the handler reads and wherever it is
  interrupted; `ControlOK` says which action is in hand when `Dispatch` runs.
- `OneSlip`: `[]AtMostOneSlip`, through `SlipInv`: if an action has slipped
  through, the handler is not between gate 3 and the dispatch unless the count
  allows it.
- `LadderPaced`: `[]LadderPace`, through `PaceInv`: `began` is the token of a ladder's first
  rung; with a token in hand there is room for one rung more above every ladder, counted
  from there, and resets only lower a ladder.
- `OneVerdict`: `[]OneVerdictPerAction`, through `VerdictInv`: an action is known by the
  instant of its token, observers and outcomes bear instants of tokens already
  spent, and from the last token until its action is launched nothing bears its instant.
- `CooldownsKept`: `[]CooldownSpacing`, through `CooldownInv`: stamps of a key are
  at most `cdLast`, strictly earlier by the cooldown while a grant is held.
- `WaitsAgree`: `[]WaitAgreesWithAllow`: if nothing else is granted, `Allow` refuses until
  exactly the wait that `TimeUntilNext` answers is over, for the limiter and every key's
  interval, and the cap is open by then, although only one of the two prunes.
- `ControllerImplementsThrottle`: `Spec => ThrottleSpec`, the refinement. Initial
  states map to initial states; `Dispatch` is an `Issue`, because `CapInv` says the
  key's pruned history contains every stamp of the ledger of the last hour, so
  the count the gate compared is at least the abstract one; every other step
  leaves the ledger alone.

**Analyzer** (`AnalyzerProofs`), for any rules, policies, replicas and order of samples.

- `AlertsSpaced`: `[]AlertSpacing`, through `SpacingInv`: every anomaly reported is
  remembered by its replica under an instant that is not earlier (`Remembered`), and the
  rules of one signal that alert have different actions.
- `AlertsCapped`: `[]AlertCap`, through `CapInv`: the pruned history of a key holds every
  alert of the last hour. A history is a set, and since a cooldown is positive no
  two alerts share an element of it, so its size counts alerts.
- `FreshKept`: `[]FreshSamplesKept`, through `WindowInv`: a fresh sample is found in
  its window at its place from the end, although each rule records, evicts and caps once
  for every signal, whatever late samples came before and after it, until newer records
  fill the capacity. One recording is a lemma; the number of rules is an induction on it
  by the least rule at which a claim fails.
- `BlamedBreached`: `[]BlamedNameBreached`, through `BlamedInv` and what `WindowInv` says of
  the content of a window when a rule is evaluated: an average above a threshold has an
  element above it, one below it an element below.

**Bus** (`BusProofs`), for any messages, replicas, batches, delivery limits and failures.

- `BusTyped`: `[]TypeOK`, with `DeliveryInv`: what each status says of the deliveries.
- `SettledWasHandled`: `[]AckedWasHandled`, through `AckInv`.
- `HandlingBounded`: `[]BoundedHandling`, and `NeverAbandoned`: `[]NotAbandoned`, through
  `CountInv`, a double count: every delivery became a handler's call, waits in a batch or
  died with a process or on its way, and every call was a delivery of this consumer or of
  a lost one.

**Intelligence** (`IntelligenceProofs`), for any pods, nodes, names and readers.

- `IndicesTogether`: `[]GraphIndexed`, both directions, inductive with the graph's types
  (`GraphInv`): only `AddRunsOn` of a pod another node lists leaves it in two lists.
- `CordonsHaveMajority`: `[]CordonNeedsMajority`, through `AggInv`, which adds the types
  of the aggregator and what the flush goroutine has in hand at each point.
- `IncidentsSound`: `IncidentSound`, an action property, through `EntriesMatched`: each
  entry of a window is of an anomaly not yet reported, unless the flush is still to
  prune it or is handling that window.
- `IncidentsReported`: with `MinPodsThreshold <= 2` (the default is 2), `IncidentsExact`: no
  incident is missed either, through `NoneMissed`: every young anomaly that did not join a
  window being handled is in its window, and a node the flush has dealt with has too few.
  The hypothesis is needed: with three, `threshold` is the counterexample.
- `ServicesTyped`: `[]TypeOK`, through `ScorerInv`: unresolved anomalies stay between none
  and all there were, and a reader's loop stays within the array, also when other
  readers shorten the slice under it.
- `ReadersInventNothing`: `[]StampsGenuine`, through `GenuineInv`: any number of readers that
  compact a slice under each other, and outcomes and decay between them, may drop or
  repeat a timestamp but leave none that is not the instant of an anomaly of the node.
  That none is lost or doubled (`StampsExact`) does not hold with two readers: `scores`.

**Agent and tools** (`AgentProofs`), for any probes, pods, containers and goroutines.

- `ProbesGivenBack`: `[]NothingLeaks`, through `LeakInv`: what the kernel holds
  is tracked, also between the steps of a probe.
- `RunningIsIndexed`: `[]IndexComplete`, through `IndexInv`: a queued deletion
  is about a container that will never run again (`QueueInv`).
- `DeletedPodsFade`: `[]DeletedPodFades`, through `FadeInv`: nothing about a
  container is queued behind its pod's deletion (`GoneInv`), and a lookup in hand is
  at most `MaxStall` old and was made before the pod was forgotten (`TimesInv`).
- `ToolsLetGo`: `[]LetGo`, for both tools and every way in which loading a module or
  attaching a probe fails, through `ToolInv`: each open handle is in a deferred call, or the
  loader or the final closing still has to deal with it (`Owed`), or it is one of those
  `LetGo` lists; what is lost is a probe of a module that failed to load.

**Resolver and collectors** (`CollectorProofs`), for any directories, goroutines and limits.

- `HistoryExpires`: `[]HistoryDated`, through `HistoryInv`: each entry of the
  history is of a live cgroup or has a deletion time.
- `KnownStay`: with `TTL >= 2`, `[]KnownStaysKnown`, through `KnownInv`: a known running
  cgroup that is out of the table was moved to the history in this period, or in the
  last one and then the background's refresh of this period is still to come and
  finds it (`Bridged`). The code's time to live is twice the refresh period.
- `DeltasExact`: `DeltaExact`, an action property, through `DeltaInv`: a
  reading in the snapshot, in the samples or in hand stands for exactly what was done
  when it was read, and only grows. It is about the counters; the I/O latencies are not
  remembered cgroup by cgroup.
- `CollectorsTyped`: `[]TypeOK` of `StatCollectors`, through `TypesInv`: to these it adds the
  types of the two tables and of the counters, and that no entry of the map counts more than
  its cgroup did; in particular nothing is in hand between polls.

**Terminal UI** (`TuiProofs`), for any sessions within `TuiAssumption`, processes and limits.

- `GraphIsSound`: `[]GraphSound`, through `Sound`: node, children and session indices
  agree (`Indexed`) within the limit (`Bounded`), also halfway through an insertion that
  evicts, and a process is listed under no parent but its own (`Family`).
- `TreeIsTrue`: `[]ProcessTreeTrue`. By `Family` and `ViewAssumption` the process drawn above
  another (`Above`) is its true parent, whichever of them was renamed, so each step of a chain
  of ancestors is true; the processes not yet shown would have a least one by the order
  in which they were started (a parent before its children, `GraphAssumption`), which has
  no unshown parent under its name and so is a root or on the next level.
- `OneOwner`, `PageOfOne`, `DrawingsCurrent`: `[]KeyboardHasOneOwner`, `[]DetailOfOne`,
  `[]DrawnIsCurrent`, through one invariant `AppInv` of the root model, the palette, the
  table and the detail page: which overlay may be open in which state, whose data the page
  has, and for each cache that it is empty, marked dirty or what would be drawn now.
- `IndicesValid`: `[]IndicesCurrent`, through `AppInv` (the table's cursor and the rows shown,
  sorted and filtered) and `SelectionInv` (the process view's selections, valid again at
  the end of each collection).
- `NoEventLost`: `[]EventsConserved`, through `LogInv`: for each text, what was received
  is the sum of the log's counts and of what was cut off, where an event counted 0 is one
  (`Occurred` in the code's merge, `Reported` in the history). Merging replaces an entry, a
  batch appends, the limit splits; each has a lemma on sums.
- `UiTyped`: `[]TypeOK`, from these and `DataInv`: the order of the sparklines is that of
  the histories there are, so that its first element may be evicted.

**Only model-checked.** Liveness is outside the prover's reach and stays with TLC:
`HandlerReturns`, `VerdictReached`, `EventuallyHandled`, `DeadEvicted`. So does `StampsExact`,
which the code keeps for one reader at a time only; every other invariant and action
property of a passing run is stated by one of these theorems. Two theorems have a
hypothesis on a constant: `IncidentsReported` (a threshold of at most two, the default;
`threshold` shows what happens without it) and `KnownStay` (a time to live of at least two
refresh periods, which the code has).

## 6. Not modelled, and the plan

Left out for good: YAML and JSON decoding, logging, Prometheus metrics and the
exporter, audit entries, `patch_limits` (the ladder never chooses it), rendering and
layout, the overview page (it only sums a batch), writing the UI's configuration
file, the values the agent's signals carry, reuse of a cgroup's inode or a PID, how a
cgroup's path becomes a container's name and the kubelet and runtime lookups behind
it, percentile and time-series libraries (no modelled part calls them), loaders no
command calls (`loadLineage`, `loadLineageFromCPU`). The security collectors decode
ring-buffer records; what the UI does with their events is modelled, the decoding
is not. The kernel probes (`ebpf/*.c`) are restricted C, not part of any Go process:
what the models need of them (counters that grow, entries of dead cgroups, events
that may be lost) is stated where their readers are modelled.

Next, in this order:

1. **Pipeline**: analyzer, bus and controller composed; what one anomaly may cause
   end to end, with redelivery.
2. **Proofs**: the theorems of the pipeline.
3. **Kernel probes**: start/finish pairing in BPF maps and maps at their limit.
4. **UI**: selections by key instead of index, once the code has them.
