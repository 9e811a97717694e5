# A TLA+ verification of the minilisysm agent

minilisysm is a Linux stability monitor: collectors sample memory, CPU, I/O and
scheduling delay, rules turn samples into events, and sinks write the events to
disk and to an HTTP endpoint. The modules here model the parts of the agent in
which order, concurrency and failure matter; TLC checks them on small instances
and TLAPS proves theorems about eleven of them for every value of the constants.
Paths below are relative to the repository.

## 1. The system

```
 fast collector --> RuleEngine --> source ring --> dispatcher --+--> ring --> JsonlEventSink
 sched collector -> RuleEngine --> source ring --> dispatcher --+--> ring --> NetworkEventSink
   (one thread each)              (SPSC, drops)   (one thread    (one ring per source and sink;
                                                   per source)    one thread per sink)
```

`Monitor` owns everything and starts and stops it under `lifecycle_mutex_`.
All hand-overs between threads go through `SpscRingBuffer`; the only other
synchronisation is a stop flag with a condition variable, the atomic counters
and the mutex of the metric registry.

| Component | State | Operations | What is hard | What makes it correct |
|---|---|---|---|---|
| `SpscRingBuffer` (`include/minilisysm/queue`) | slots, `head_`, `tail_`, drop counters | `push`, `pop`, `depth`, `stats` | lock-free interleaving of producer, consumer and a third thread that reads the depth; reserve and capacity at their limits | FIFO, no two threads in one slot, every refused push counted, a depth that can be explained |
| `RuleEngine` (`src/rules`) | one context per rule and target: state, three window counters, `notification_active`, last activation | `evaluate_*`, `forget_process_memory`, pruning | long sequences of windows; a cooldown that silences an event but not the state; pruning | life cycle of an alert, hysteresis, cooldown, an open alert ends |
| `Monitor` (`src/runtime/monitor.cpp`) | `running_`, threads, sequence numbers, process maps | `start`, `stop`, `fast_loop`, `sched_loop`, `publish_event`, process metrics | start that fails half-way, stop racing the collectors, restart | nothing lost uncounted, nothing left running, stop returns |
| `EventDispatcher(Group)` (`src/runtime/event_dispatcher.cpp`) | `running_`, thread, input queues | `start`, `stop`, `run`, `drain_source`, `dispatch` | a sink that hangs; the order in which dispatchers and sinks drain | isolation of the sinks, order per source |
| `NetworkEventSink` (`src/storage`) | `pending_`, WAL segments, current segment | `start`, `stop`, `run`, `append_wal`, `rewrite_wal_locked`, `flush_batch` | kill and power cut between two file operations, failing operations, a load that misses segments unnoticed, lost responses, the size limit | at-least-once delivery, no duplicates without a cause, progress |
| `JsonlEventSink` (`src/storage`) | two streams, file number, sizes, fsync limiter | `start`, `stop`, `write_event` and what it calls | buffered streams, failing flush/sync/open, rotation and cache limit, kill | Critical events flushed and durable, newest events kept, rates and sizes bounded |
| Process watch (`whitelisted_process_reader.cpp`, `monitor.cpp`) | instances, CPU baselines, memory history, rule contexts, all by pid | scan of `/proc`, `record_whitelisted_process_metrics` | processes change while they are read; pid reuse; scans that break off | no process inherits another's state, none forgotten, none remembered |
| Scheduler-delay collector (`src/collectors`) | baselines and cached names by id | `collect` | names that are stale when used, passes cut short by a limit, ids used again | a cached name is believed for one refresh, a watched thread is read, a sample covers less than the TTL |
| CPU, I/O, meminfo and self-status collectors (`src/collectors`) | previous counters per core or device, time of the last failure event | `collect`, `publish_collector_failure` | counters that begin again or run backwards, targets that come and go, a limit per pass, collectors that fail for long | a counter that is lower than its baseline gives no sample (one that began again and has outgrown its baseline does), a failing collector is neither silent nor a flood |
| eBPF collector (`ebpf/`) | kernel maps: allowlists, wait starts, aggregates, ring, counters; refresh times | the programs on switch, exec and exit; `poll` with refresh and scan | kernel and user space change the maps concurrently; a scan of `/proc` while processes fork, exec, rename themselves, exit and wait to be reaped; failing reads and map updates; full maps | the allowlist is complete and current, every wait is accounted for |
| `MetricsServer` | listening socket, thread, client | `start`, `stop`, `run`, `handle_client` | the socket is closed under the thread that polls and accepts on it, and its number is given out again | only own descriptors are closed, stop is never stuck behind a client |
| `MetricRegistry`, `MonitorMetrics` | metrics by name under a mutex | set, increment, `set_gauge_family`, render | a scrape between the steps of an event or of a pass | bounds on the published total, families of one pass |
| Configuration loader (`src/core/config.cpp`) and its use in `main` | – | `load_or_default`, `validate` | corrections that depend on each other, early returns, `nan` | an accepted configuration is one the parts can live with, and a fixed point |
| Event serializer, factories, time and proc helpers, thread policy, hardware health, the rest of `main` | none, or one flag | – | – | not modelled: pure layout, construction or thin wrappers of system calls |

`PROJECT.json` lists the same components with their status, every hazard at the
line where it bites, and for every modelling definition the lines it translates.

## 2. The modules

| Module | Models | Extends / instantiates |
|---|---|---|
| `BoundedFifo` | what a ring promises: a bounded FIFO that may refuse, with levels held back by a reserve | – |
| `SpscQueue` | `SpscRingBuffer` at the grain of its shared accesses | refines `BoundedFifo` |
| `RuleEngine` | the rule evaluators and their contexts | – |
| `Alerting` | one collector's rule engine composed with `publish_event` and a full queue | extends `RuleEngine` |
| `EventPipeline` | the threads of the agent, its queues, start and stop | uses bounded FIFOs, as `SpscQueue` justifies |
| `NetworkSink` | `NetworkEventSink` with its log, disk and server | – |
| `JsonlSink` | `JsonlEventSink` with its files, medium and clock | – |
| `ProcessWatch` | the process watch with the processes it observes | – |
| `SchedDelay` | `SchedDelayCollector` with the threads it observes | – |
| `EbpfSchedDelay` | the kernel programs and `EbpfSchedDelayCollector` with the processes they observe | – |
| `UsageCollectors` | `CpuUsageCollector`, `IoDelayCollector`, collectors without memory, `publish_collector_failure` | – |
| `Metrics` | `MetricsServer`, the registry, and the threads that record in it | – |
| `SchedTargets` | the programs both scheduler-delay collectors are configured to watch | extended by `SchedDelay` and `EbpfSchedDelay` |
| `Config` | `ConfigLoader` and what `main` does with the result | – |
| `SpscQueueProofs`, `RuleEngineProofs`, `EventPipelineProofs`, `NetworkSinkProofs`, `JsonlSinkProofs` | theorems and proofs | extend the module they are about |
| `CollectorsProofs` | the same for the four parts that observe processes and devices | extends `ProcessWatch`, `UsageCollectors`, `SchedDelay`, `EbpfSchedDelay` |
| `MetricsConfigProofs` | the same for the two parts that stand alone | extends `Metrics`, `Config` |
| `SumLemmas` | facts about sums over finite sets and folds, which the proofs share | extended by the proofs of the sinks, the collectors and the metrics |
| `MC*` | values for the constants of a run | extend the module they run |
| `MCCollectorPath` | the rules and the ring their events go into side by side | extends `RuleEngine`, `SpscQueue` |
| `MCAgentParts` | the parts around the pipeline side by side, each explored with the others at rest | extends all six |

### SpscQueue
`push` is five actions (test of full, test of the reserve, write of the slot,
release store of `head_`, high watermark); `pop` is three (load and test, move
out, release store of `tail_`); `depth()` by a third thread is two loads.
Because one thread owns each index and publication is release/acquire, an
interleaving of atomic steps is the behaviour the build can produce. `Moved` is
the content of a moved-from slot. `log` and `out` are histories of the
published and of the popped events. Atomic counters are part of the step that
updates them. The observer runs in a sink or metrics thread and never blocks
the others.

### RuleEngine
A sample is the zone its value falls in (recovered, between, warning,
critical): `validate` keeps the thresholds ordered. One action per evaluator,
each the whole function: pruning of stale contexts first, then the state
machine (`evaluate_threshold`), then what it returns. `Tick` is the clock,
`forget_process_memory` is called by the process watch. `streak` and `said` are
histories of the windows and of the events, from which the properties are
stated.

### EventPipeline
The program counters are those of the threads: `cpc` a collector (head of the
loop, collecting, pushing, testing the predicate with `stop_mutex_`, waiting),
`dpc` a dispatcher, `spc` a sink, `ctl` the thread inside `Monitor::start` or
`Monitor::stop`. A start that fails at a sink or at the metrics server undoes
what was started, in the order of the code. An event carries only its sequence
number. `StalledSinks` may hang in their I/O.

### NetworkSink
Disk state is split into what the process sees (`segs`, `dir`) and what is on
the medium (`synced`, `ddir`). `rewrite_wal_locked` is one action per file
operation: stage temporary segments, rename each, publish, remove each old one.
`Kill` keeps the former, `PowerCut` only the latter. Every file operation of the
sink can fail, at most `MaxFaults` times in all: an append, each operation of a
rewrite, and the reads, none of which reports its error. `start` reads each
segment as far as it likes, or takes the directory for empty and numbers
segments from 1 again; `wal_over_limit` may answer wrongly either way; a rewrite
that cannot list the directory takes the old generation for empty, and its
renames may replace segments it does not know of. `overlooked` is the history of
the events a load has missed and no load has read since. `create_directories`
throws when it fails, which nobody catches: in the worker that is a `Kill`, in
`start` the sink stays down. A request has three outcomes: not delivered,
delivered but unanswered, acknowledged.

### JsonlSink
One action per function of `write_event`, in its order: reopen, write the line,
summary, sync, rotation, cache limit. A stream has a buffer whose lines may
reach the file at any step, and a bad state that a failed flush leaves behind.
`medium` is what is durable; since `CriticalDurable` speaks of the medium in
every state, a power cut needs no action of its own. An exception of
`create_directories` or of the directory scan is not caught by the worker and
ends the process: it is one of the `Kill`s.

### ProcessWatch
The world (start, exec, zombie, exit, reuse of ids) runs between any two reads
of the scan, which reads `comm`, `stat` and `status` separately. One assumption:
an id is not reused between the reads of `stat` and of `status` of one entry,
two calls apart, which would need the kernel to go through the whole range of
ids in between.

### SchedDelay
One action per read: the listing, the name of a process (cached or read), the
directory of its threads, the counters of a thread. Each may fail, the world and
the clock go on in between, and either limit ends the pass. Of the counters only
their order is kept, so a read of an id that another thread has taken may or may
not look like a reset. A process has one thread and the thread whitelist is
empty, its default. Unlike the process watch, the collector does not compare
start times: a reused id keeps its baseline until a counter is lower, and no
property claims otherwise.

### EbpfSchedDelay
The tracepoints are the kernel's steps: a switch out and in, an exec, the exit
of a thread. A fork, a change of name (`Rename`) and the reaping of a zombie
(`Reap`) pass none. A process is in `/proc` under its name until it is reaped,
whether or not a thread of it still runs. `poll` is one action per access: read
the counters and clear the lists, read a name, enter the process, read and enter
a task, end the scan, handle a record, end. The process may be another between
the read of its name and the update of the map. The reads of `/proc` and of a
`comm` may fail, and so may the map updates, whose result the code ignores: the
maps hold 8192 entries each. The counters are in array maps, whose lookup does
not fail for an index they have. Waits are long enough or not; a sample is its
thread and the number of waits it stands for. Configuration and the bounds on
starts and waits form one record, `settings`, chosen at the start, so that the
long histories of processes and those of waits are explored apart. Histories
(`measured`, `delivered`, `watched_at`, `blind_at`, ...) are what the properties
compare with.

### UsageCollectors
A pass may find any targets with any counters, which covers hot-plugging, a
replaced device and an iowait that runs backwards. Subtraction is modulo
`Width`. The pass ends with the sample that reaches `io_max_targets`, in any
order of the hash table. Two counters stand for all: total and idle jiffies, or
requests and time.

### Metrics
`stop` is one action per effect on the socket (shutdown, close, forget, join),
the server thread one per call that can be overtaken (the test of `running_`,
poll, which may return with or without input or find the listener shut down,
accept and its return, the response). Descriptors are numbers of which the
lowest free one is given out, to the sinks as well. A scrape reads its
arguments, sets the counter and copies the registry in three steps, as
`render_metrics`, `render` and `render_prometheus` do; an event draws its number
and is recorded in two.

### Config
`validate` is three lists of corrections in the order of the code, one before,
one between and one after its two early returns, each applied by a fold. A
correction is a record: what it does, to which setting, compared with which
(`Ruled` gives the value it leaves). A file is two lines: the value of any key,
and the value of a key that a correction compares it with, or that decides about
an early return. What a line may hold includes what the parsers refuse. A
fraction is a whole number. `nan`, which `std::stod` takes for any of the
doubles, is a value of its own for which no comparison holds, and `std::min` and
`std::max` choose as the library does.

## 3. The runs

Every bound is a constant of its module, commented `bound:` where it is
declared.

| Run | Specification and bounds | What it checks |
|---|---|---|
| `collector_path`: rules | 6 evaluations; the groups by themselves, CPU and process together; windows 2/2/2 (sched 3/2/1), cooldown 2, TTL 2, clock to 3 | the flag tracks the events, life cycle, state follows the pressure, an open alert ends. Six windows open, raise, and close an alert; three ticks exceed cooldown and TTL. |
| `collector_path`: ring | 2 slots in use, 1 reserved, 4 pushes of 3 levels | no race on a slot, explained depth, reserve, refinement of `BoundedFifo`. Indices wrap, the ring is full and empty, the reserve refuses. |
| `rule_engine_continuous` | the rules as above | **violated**: finding 1 |
| `alerting` | memory and process rule, queue of 1, 4 evaluations | **violated**: finding 2 |
| `network_sink` | 3 events (one Critical), batches of 2, segments of 2 lines, a log limit of 2 lines, 1 fault, 2 crashes | nothing accepted is lost, the backlog on the medium suffices, and duplicates have a cause. The log rotates, drops and is compacted at its limit, and crashes hit rewrites and the start after a crash. The fault may be any operation: a load that misses segments, a directory misread by a rewrite or by the limit, an append, a rename. |
| `network_delivery` | fair; 2 events, 2 faults, 1 crash | every accepted event is delivered, unless a load misses it; a stop ends |
| `network_torn` | a failing append may leave part of its line | **violated**: finding 4 |
| `network_unread` | 2 events, 1 fault, 1 kill, no power cut | **violated**: finding 5 |
| `jsonl` | 4 events (3 Critical), 1 sync per minute of 2 ticks, files of 2 lines, cache of 4, 1 fault, 1 kill | Critical events flushed and durable unless counted otherwise, sync rate, newest kept. Rotation, removal, limiter and its reset all happen. The cache is twice the size of a file, a far smaller ratio than the defaults (100 MB and 4 MB). |
| `agent_parts` | see the next table | 17 properties of six parts |
| `pipeline` | 2 sources, 2 sinks, all rings of 1, 4 events, 2 starts, the network may hang | conservation of events, clean stop, one producer per ring, order per source. Deadlock is checked. |
| `pipeline_progress` | fair; 3 events, 1 start | a hanging sink does not hold up the other; stop returns |
| `pipeline_prompt_stop` | 1 event | **violated**: finding 3 |

The parts of `agent_parts`, and the rules and the ring of `collector_path`,
share no state that these properties speak of, so the specification picks one
and leaves the others at rest; one run explores all.

| Part | Bounds | What it checks |
|---|---|---|
| process watch | 2 ids, 2 watched names and another, 2 starts, 1 exec, clock to 4, growth window 1, TTL 2 | state by id belongs to one process (`OneProcess`), none is left over (`NoOrphans`), lost (`KeptWhileAlive`) or kept for ever (`GoneIsForgotten`). Two starts reuse an id; the history fills, ages and is pruned. |
| scheduler delay | 2 ids, a watched name and another, refresh 2, TTL 2, clock to 3, 1 target and 1 or 2 threads a pass | a watched thread is read although names are cached (`WatchedIsRead`); samples cover less than the TTL (`SampleWindow`) |
| eBPF | a process of 2 threads, refresh 2, window 1, batches of 2, ring and aggregate map of 1, clock from 2 to 4; 3 forks, execs or renames without waits, or 1 with up to 4 waits | no exec is missed, and a fork, a rename, the exit of a thread, or a failing read or update hides a process for one refresh at most (`AllowlistComplete`); none stays a refresh after it was last in `/proc` under a watched name (`AllowlistCurrent`); every wait is delivered, counted or beyond a batch (`WaitsAccounted`). Ring, map and batch overflow; ids are used again during a scan. |
| usage | 2 targets, counters to 2 and 1, 8 values wide, TTL and interval 2, 1 target a pass, clock to 4 | no sample of counters that ran backwards (`DeltasReal`), failures announced in time (`FailureAnnounced`) |
| metrics | 3 descriptors, 2 starts, 2 clients, 2 publishers with 3 events, 3 passes of 2 families over 2 threads | `ClosesOwn`, `StopNotStuck`, `PublishedTotalBounds`, `FamilyConsistent`. A number is given out again between close and the next use; the client goes between poll and accept; events are under way during a scrape. |
| configuration | two-line files with the numbers -1, 0, 60 and 100000, around the defaults and clamps, and `nan` | what is accepted is safe for the parts (`AcceptedConfigIsSafe`) and a fixed point of `validate` (`RunsOnFixedPoint`) |

`CHECK_DEADLOCK FALSE` is set where the run ends because a bound is reached or
the process has been killed for the last time.

### Fairness
* `NetworkSink`: weak fairness of the worker, of a restart that reads everything
  (restarting is a supervisor's job; the excuse of `overlooked` covers the
  others), and strong fairness of an acknowledged request: the code
  retries without limit, so this says only that the server is not down for
  every attempt for ever.
* `EventPipeline`: weak fairness of every thread, which is what the scheduler
  and the deadline of each wait give; none for sinks in `StalledSinks`, and
  none for calls of start or stop from outside. `StopReturns` is conditional on
  the sinks coming back, since stop joins their threads.

## 4. What is proved

The theorems hold for every capacity, window, limit, set of targets, files or
processes, every order of steps and every value of the bounds, from the named
assumptions of the modules. Those are the types of the constants and:

* `DistinctSinksAssumption`: every sink is an object of its own, with one queue
  for each dispatcher (`storage_factory.cpp` makes one of each kind);
* `WatchAssumption`: the whitelist has no empty name (`split_csv` drops them);
* `MetricsAssumption`: no descriptor the agent opens is 0, its standard input;
  a pass sets several families; the publishing threads are finitely many;
* `UsageAssumption`: what is read of a counter fits the type that holds it;
* `EbpfAssumption`: the threads are finitely many, and no process has the id 0;
* `SchedAssumption`: the TTL is not 0 (`validate` corrects it);
* `ConfigAssumption`: what is in lower case already stays as it is, and the words
  the loader knows are in lower case.

Some theorems need a hypothesis of their own, and state it:

* `AtLeastOnceCorrect` assumes `~TornAppends`. With torn appends the property
  is false: that is finding 4. `DurableBacklogCorrect` holds with them. Both
  excuse what a load has missed: without that excuse the first is finding 5.
* `NewestKeptCorrect` assumes `CacheLines >= 2 * RotateLines`: the cache has room
  for one full file and its summary. The defaults leave far more (100 MB, 4 MB),
  but `validate` only demands that a file is not larger than the cache. One line
  less and TLC finds the newest event removed with its file.
* `WatchedIsReadCorrect`, `AllowlistCompleteCorrect` and
  `AllowlistCurrentCorrect` assume a refresh other than 0. `RefreshesWork` proves
  that an accepted configuration has one unless `low_freq_collect_interval_ms` is
  0, for which the loop of the collector spins (section 5).

**SpscQueueProofs.** None of the properties is inductive: that a slot holds the
right event depends on where both indices stand relative to the histories. The
invariant `IInv` therefore relates the indices to the lengths of `log` and
`out` modulo the size of the ring (`IndexInv`), the slots to the undelivered
part of `log` and the locals of the threads to their program counters
(`ConsumerInv`, `ProducerInv`, `ObserverInv`), and adds the properties
`FifoDelivery`, `PushAccounting` and `ObservedDepth`. From it follow
`TypeCorrect`, `FifoCorrect`, `RaceFree`, `AccountingCorrect`,
`ObservedDepthCorrect`, `ReserveCorrect` and `Refinement`: every behaviour of
the ring is, through the mapping to its undelivered events, a behaviour of
`BoundedFifo`. Facts about indices modulo the size and about sequences are
lemmas of their own.

**RuleEngineProofs.** `IInv` says of every context that it `Tracks` its
histories: `SaidAgrees` (the flag and the last event), `CountersAgree` (each
counter and the streak it counts) and `StateAgrees` (the state and what the
streaks demand), and that no activation lies in the future. `Tracks` is proved
once for the state machine and lifted to each evaluator. Theorems:
`TypeCorrect`, `NotificationCorrect`, `StateCorrect`, `LifeCycleCorrect`,
`HysteresisCorrect`, `CooldownCorrect`, `OpenAlertCorrect`.

**EventPipelineProofs.** `PhaseInv` says which threads may run in which phase of
start and stop, and `EmptyInv` that a thread that has left leaves nothing in its
input: together they are `CleanStop` and `SingleProducer`. `Conservation` is
inductive with `CarryInv` (what a dispatcher holds is an event and distinct
sinks still to serve). For the order, `OrderInv` puts the last event a sink
handled, its ring, the dispatcher's hand, the source ring and the number the
collector has drawn on one rising line. Theorems: `TypeCorrect`,
`ConservationCorrect`, `CleanStopCorrect`, `SingleProducerCorrect`,
`OrderCorrect`.

**NetworkSinkProofs.** What is `Owed` to the server is accepted (or hardened by
a rewrite) and not received. `OwedInv`: it is in the segments a restart reads,
and in `pending_` while the process lives. `RewriteInv` follows a rewrite from
generation to generation: which temporary segments are renamed and synced, that
what is owed lies in segments numbered below those a rewrite gives out
(`Lower`), so that a rename never replaces it, and that after the publication
what is owed is on the medium without the old segments. An event a load has
missed is owed no more: what is owed was read by every load since, and so is in
`pending_` and in what each rewrite stages. `QuietInv` is what holds as long as
nothing fails. Theorems: `TypeCorrect`, `AtLeastOnceCorrect`,
`DurableBacklogCorrect`, `NoDuplicatesCorrect`.

**JsonlSinkProofs.** `StreamInv`, `SizeInv`, `EventInv` and `HomeInv` say where
the streams, lines and events are. An event is `Settled` when what the sink
vouches for is true of it; `SettledInv` says that this is so when the worker
leaves `fsync_if_allowed`, and no later step takes it back. `SyncInv` relates
the limiter to the history of the syncs: its count bounds those since its start,
and `MaxSyncs` those of any minute that reaches back before it; so no stretch of
a minute sees more than twice the limit. `ScanInv` says that the cache limit
knows the sum of the sizes that are left; when only the files of the newest
event are left, that sum is within the limit. Theorems: `TypeCorrect`,
`CriticalFlushedCorrect`, `CriticalDurableCorrect`, `SyncRateCorrect`,
`NewestKeptCorrect`. Sums over sets (`MapThenSumSet`) are treated by lemmas
(`SumInsert`, `SumUnion`, `SumPart`, ...).

**CollectorsProofs: process watch.** What the maps hold under an id belongs to
one process because a sample does (`SampleInv`), because what is being read is
of a process that was there (`ReadingInv`, `FaithfulInv`), and because an
instance is never younger than that (`InstanceInv`). `SeenInv` says why a
process that runs on is not taken for gone. Theorems: `TypeCorrect`,
`OneProcessCorrect`, `NoOrphansCorrect`, and the action properties
`KeptCorrect`, `ForgottenCorrect`.

**CollectorsProofs: usage collectors.** `BaselineInv`: baselines fit the width
of a counter, so that a comparison decides what the modular subtraction gives.
`ReportInv`: the time of the last event of a collector is its own. Theorems:
`DeltasCorrect`, `FailureCorrect`.

**CollectorsProofs: scheduler-delay collector.** `NamesInv`: a cached name that
was read after the thread last changed its own is the thread's, so one that has
kept its name for a refresh cannot hide behind an older one. `YoungInv`: every
baseline was younger than the TTL when the pass began. `ReadInv`: what the pass
under way has left behind, and should have read, it has read. Theorems:
`SchedIInvHolds`, and the action properties `WatchedIsReadCorrect`,
`SampleWindowCorrect`.

**CollectorsProofs: eBPF collector.** `PollInv`: the refresh in force began less
than a refresh before the poll. `CurrentInv`: what is on the allowlist, or in
the hand of the scan, was watched since then, and an exec that ended this is
pending. `CompleteInv` gives for every watched process the reason why it is not
missed for long: it is listed, the scan has yet to visit or enter it, it was
forked, renamed or lost a thread since the refresh began, the refresh failed to
see it (`blind_at`), or the counter of execs the next poll compares has moved
on. That last case is what makes reading the counter before the scan safe.
`CountInv` balances the waits that were measured with those delivered, in the
ring, in the aggregates and lost; a step moves a wait from one to another
(`CountsAreSum` and the lemmas of `SumLemmas`). Theorems: `EbpfIInvHolds`,
`AllowlistCompleteCorrect`, `AllowlistCurrentCorrect`, `WaitsAccountedCorrect`.

**MetricsConfigProofs: metrics.** `DescriptorInv` and `ServerInv`: the table of
descriptors, the two numbers of the server and the phase of `stop` never
disagree. `EventInv` and `PageInv`: an event under way is drawn and not
recorded, and at most one per publisher is. `FamilyInv`: which families have
been set in the pass under way. Theorems: `ClosesOwnCorrect`, `StopCorrect`,
`PublishedTotalCorrect`, `FamiliesCorrect`.

**MetricsConfigProofs: configuration.** A correction is `Settled` when it would
leave its setting as it is. Each kind of correction settles itself
(`RuledTwice`), and a later one unsettles it only by changing one of the two
settings it looks at (`SettledFrame`). A list in which no correction does that
to an earlier one leaves all of them settled (`IndependentSettles`), and so do
two such lists of which the second leaves alone what the first looks at
(`SettlesConcat`). Three places need more: a reserve can only be put below a
capacity that is not 0, which the correction before it sees to (`QueueSettles`);
the CPU thresholds are put in order before they are limited to percentages,
which keeps the order of numbers, while a `nan` becomes 100 and may leave the
others above or below it, so that only the second call puts them in order
(`FrontSettles`, `LimitsBound`, `CpuFacts`); and the refresh of the allowlist is
taken from a setting that is corrected after it (`AllowRule`). So one call that
succeeds leaves a configuration that is safe if its CPU thresholds were numbers
(`Once`), and the second, which finds numbers and the other setting corrected, a
safe one that is a fixed point (`Twice`, `ValidateFacts`). The fold is taken
apart by following its course along the list (`CourseExists`,
`CorrectedConcat`), for these lists and any other. Theorems: `ValidatedIsSafe`,
`ValidatedTwiceIsFixed` and `RefreshesWork` speak of any configuration, of
however many lines its file was made; with the invariant `ConfigIInv` of `main`
follow `AcceptedConfigCorrect` and `FixedPointCorrect`.

Type correctness, `FifoDelivery`, `PushAccounting`, `Hysteresis` and
`CooldownKept` are stated and proved, and no run repeats them. TLC has checked
every inductive invariant on the instances of the runs before it was proved.

**Only model-checked.**

* Liveness: `EventuallyDelivered`, `StopReturns`, isolation and the like need
  fairness and ENABLED, which are out of the prover's reach.
* `Alerting`, whose property the code violates.

Induction is used in the form of sets (a set of numbers that holds 0 and with n
also n + 1 holds them all), from the well-foundedness of the naturals; the
library's theorems with an operator as parameter cannot be instantiated by the
provers that are used.

## 5. Findings

Five runs show that the code does something else than the repository's
documents say; `PROJECT.json` quotes both sides.

1. **Critical windows need not be consecutive** (`rule_engine.cpp:311`). A
   recovered window of a rule in Warning leaves `critical_hit_count` alone.
2. **A Recovery without an activation** (`monitor.cpp:273`). The engine marks an
   alert as announced before the push, whose failure is ignored.
3. **A stop can be missed until the deadline** (`monitor.cpp:112`). `notify_all`
   is called without the mutex of the wait. Stop still returns (`StopReturns`).
4. **A torn append swallows the next record** (`network_event_sink.cpp:262`).
   What a failing append leaves behind is joined to the next line, which then
   cannot be read back.
5. **What a start cannot read is removed** (`network_event_sink.cpp:289`).
   `load_wal` does not notice a directory it cannot list or a segment it cannot
   open or read to its end, and the next rewrite removes the segment with the
   old generation (lines 313-320, 389-396): one failing read at a start loses
   accepted events for good.

Smaller things met on the way, which no document contradicts: a failed write of
a JSONL line leaves the summary stream open, so the next file has no summary of
its own; a zombie that is never reaped keeps its state, as its entry is always
"uncertain"; `validate` returns early on some inverted thresholds and skips the
clamps below, among them that of the batch size, and `main` goes on.
From the parts around the pipeline:

* `minilisysm_events_published_total` is added to by events and set by scrapes:
  an event that is under way counts twice in one scrape, and the counter falls
  with the next. `PublishedTotalBounds` gives the exact bounds.
* Records beyond `sched_ebpf_max_events_per_poll` are not left for the next poll:
  the callback's 1 is no error to libbpf, which consumes and loses them.
* Aggregates of threads that have exited stay in their map, and an aggregate the
  ring has no room for counts as one drop.
* `low_freq_collect_interval_ms` has no lower bound; 0 makes the scheduler loop
  spin. With `sched_ebpf_allowlist_refresh_ms` and `sched_proc_cache_refresh_ms`
  both 0, one `validate` is not enough; `main` happens to call it twice.
* An address with zeros before an octet passes `valid_ipv4` and fails
  `inet_pton`: the configuration is accepted and the agent does not start.
* A device beyond `io_max_targets` is marked as seen but keeps its old baseline.
* A device that completes no request gives no sample, so one that hangs raises
  no alert.
* `std::stod` takes `nan`, which compares as neither lower nor higher: no
  correction changes an I/O threshold that is one, and its rule never raises or
  never ends an alert, although `validate` succeeds. Among the CPU thresholds it
  becomes 100 after their order was checked, so one call can leave a warning
  threshold above the critical one; the second puts them in order.
* A `comm` that cannot be read, or a full map, hides a watched process from the
  eBPF collector until the next refresh, and the number of matched ids counts
  entries the map has refused.
* A zombie is entered in the allowlist again at every refresh until it is reaped.
* The retry delay of the network sink is doubled in 32 bits before it is capped,
  and the order of segment names ends at six digits.

## 6. What is not modelled

* Formatting and parsing: JSON lines (the event serializer), summaries, `/proc`
  text, Prometheus text and the HTML page, the syntax of the configuration file.
* Sockets and DNS of the network sink (a request has three outcomes), and its
  retry delays ("a flush may be due"). Segment numbers are numbers.
* The measured values themselves: zones, or the process they were measured of.
* Hardware health, which keeps no state: a pass reads `/sys` and returns samples.
* Gauges that are set one by one: a plain assignment under the lock.
* Loading and attaching the eBPF programs, and the fallback to `/proc` when that
  fails: a decision of the factory at start. The other factories only construct.
* Thread affinity and priorities, the set-up of the logger, the signal flag of
  `main`, and the memory order below release/acquire.

## 7. Plan

Done, in this order: the ring and its abstraction, the rules, the network sink,
the threads and their life cycle, the JSONL sink, the process watch, the
scheduler-delay collector, with proofs of the ring and of the rules; then the
eBPF collector, the usage collectors, the metrics and the configuration; then
proofs of the pipeline, the two sinks, the process watch, the usage collectors
and the metrics; then those of the two scheduler-delay collectors and of the
configuration. Every invariant and action property that a run finds to hold is
now proved. What a next part could add:

1. the fallback of the factory from eBPF to `/proc`, and the reading of hardware
   health, as modules of their own;
2. a refinement of the pipeline to an abstract lossy channel for each source and
   sink, which would let the conservation be stated in one place;
3. liveness, should a prover for it become available.
