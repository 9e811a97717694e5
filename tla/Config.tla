------------------------------- MODULE Config -------------------------------
(***************************************************************************)
(* The configuration loader (src/core/config.cpp) and what main does with  *)
(* it (apps/minilisysm-agent/main.cpp): the file is read and validated,    *)
(* the result is validated once more, and an error is only logged.         *)
(*                                                                         *)
(* Settings that neither validate nor the start of the agent looks at are  *)
(* left out.  Fractions are rounded to whole numbers, and an infinity is a *)
(* large one.  The "nan" that std::stod also takes for a double is a value *)
(* of its own, for which no comparison holds.                              *)
(***************************************************************************)
EXTENDS Integers, Sequences, SequencesExt

CONSTANTS
  Numbers, \* numbers a file may hold
  nan,     \* the double that is not a number
  Texts,   \* words a file may hold
  Lower    \* the words in lower case

\* The words the loader knows.
Levels == {"debug", "info", "warn", "error"}
Rotations == {"size", "daily"}
Modes == {"total", "per_core", "both"}
Sources == {"proc", "ebpf"}
KnownWords == Levels \cup Rotations \cup Modes \cup Sources

\* A word in lower case is in lower case, and those the loader knows are.
ASSUME ConfigAssumption ==
  /\ Numbers \subseteq Int
  /\ nan \notin Int
  /\ Texts \cup KnownWords \subseteq DOMAIN Lower
  /\ \A w \in DOMAIN Lower : /\ Lower[w] \in DOMAIN Lower
                             /\ Lower[Lower[w]] = Lower[w]
  /\ \A w \in KnownWords : Lower[w] = w

VARIABLES
  file,    \* two lines of the file: key and value
  config,  \* the configuration of main
  error,   \* the last validate returned false
  mpc      \* where main is

configVars == <<file, config, error, mpc>>

---------------------------------------------------------------------------
(***************************************************************************)
(* MonitorConfig, and the types of its members.                            *)
(***************************************************************************)
Default == [
  enable |-> TRUE, fast_collect_interval_ms |-> 1000,
  low_freq_collect_interval_ms |-> 10000, dispatcher_idle_sleep_ms |-> 2,
  sink_idle_sleep_ms |-> 5, metrics_enable |-> TRUE, metrics_port |-> 9108,
  metrics_allowed_clients |-> "none", state_ttl_sec |-> 3600,
  agent_log_level |-> "info", agent_log_rotation |-> "size",
  agent_log_rotate_mb |-> 16, agent_log_rotate_files |-> 8,
  agent_log_async_queue_size |-> 8192, event_queue_capacity |-> 4096,
  critical_reserved_slots |-> 32, memory_rule_enable |-> TRUE,
  mem_available_warning_mb |-> 512, mem_available_critical_mb |-> 256,
  mem_available_recovery_mb |-> 768, queue_warning_percent |-> 70,
  queue_critical_percent |-> 90, queue_recovery_percent |-> 50,
  self_rss_soft_limit_mb |-> 40, self_rss_hard_limit_mb |-> 64,
  self_rss_recovery_mb |-> 32, sched_delay_source |-> "proc",
  sched_wait_sum_warning_us |-> 10000, sched_wait_sum_critical_us |-> 30000,
  sched_wait_sum_recovery_us |-> 5000, sched_ebpf_min_wait_us |-> 10000,
  sched_ebpf_ringbuf_kb |-> 1024, sched_ebpf_max_events_per_poll |-> 4096,
  sched_ebpf_allowlist_refresh_ms |-> 10000,
  sched_ebpf_aggregate_window_ms |-> 1000,
  sched_ebpf_aggregate_max_entries |-> 8192,
  sched_proc_cache_refresh_ms |-> 10000,
  sched_proc_max_scan_threads |-> 4096,
  sched_collector_overrun_warning_ms |-> 200, sched_max_targets |-> 32,
  process_memory_growth_warning_mb |-> 100,
  process_memory_growth_critical_mb |-> 200,
  process_memory_growth_recovery_mb |-> 20,
  process_memory_growth_window_sec |-> 600, io_await_warning_ms |-> 50,
  io_await_critical_ms |-> 200, io_await_recovery_ms |-> 20,
  io_util_warning_percent |-> 80, io_util_critical_percent |-> 95,
  io_util_recovery_percent |-> 50, io_max_targets |-> 16,
  cpu_usage_mode |-> "total", cpu_usage_warning_percent |-> 80,
  cpu_usage_critical_percent |-> 95, cpu_usage_recovery_percent |-> 60,
  cpu_usage_continuous_warning_windows |-> 3,
  cpu_usage_continuous_critical_windows |-> 2,
  cpu_usage_recovery_windows |-> 3, cache_max_mb |-> 100,
  file_rotate_mb |-> 4, network_batch_size |-> 128,
  network_flush_interval_ms |-> 1000, network_retry_base_ms |-> 1000,
  network_retry_max_ms |-> 60000, network_wal_max_mb |-> 64,
  network_wal_segment_mb |-> 4]

ConfigKeys == DOMAIN Default

Flags == {"enable", "metrics_enable", "memory_rule_enable"}
Words == {"metrics_allowed_clients", "agent_log_level", "agent_log_rotation",
          "sched_delay_source", "cpu_usage_mode"}
Doubles == {"io_await_warning_ms", "io_await_critical_ms",
            "io_await_recovery_ms", "io_util_warning_percent",
            "io_util_critical_percent", "io_util_recovery_percent",
            "cpu_usage_warning_percent", "cpu_usage_critical_percent",
            "cpu_usage_recovery_percent"}

\* What may stand after a key.  An address with zeros before an octet is
\* valid to the loader, but not to the server.
Values(key) ==
  CASE key \in Flags -> BOOLEAN
    [] key = "metrics_allowed_clients" -> {"valid", "padded", "invalid"}
    [] key \in Words -> Texts
    [] key \in Doubles -> Numbers \cup {nan}
    [] OTHER -> Numbers

\* assign_bool, assign_string, assign_int and assign_double: a number that is
\* negative, or too large for a port, is not taken for an unsigned member.
Assigned(c, key, value) ==
  IF /\ key \notin Words \cup Flags
     /\ \/ key \notin Doubles /\ value < 0
        \/ key = "metrics_port" /\ value >= 2^16
  THEN c
  ELSE [c EXCEPT ![key] = value]

---------------------------------------------------------------------------
(***************************************************************************)
(* validate: a list of corrections, with two places where it gives up.     *)
(***************************************************************************)
AtLeast(key, n) == [rule |-> "at_least", key |-> key, n |-> n, by |-> key]
NotBelow(key, by) == [rule |-> "not_below", key |-> key, n |-> 0, by |-> by]
NotAbove(key, by) == [rule |-> "not_above", key |-> key, n |-> 0, by |-> by]
ZeroMeans(key, by) == [rule |-> "zero_means", key |-> key, n |-> 0,
                       by |-> by]
Below(key, by) == [rule |-> "below", key |-> key, n |-> 0, by |-> by]
PartOf(key, by) == [rule |-> "part_of", key |-> key, n |-> 0, by |-> by]
Percent(key) == [rule |-> "percent", key |-> key, n |-> 100, by |-> key]
OneOf(key, words) == [rule |-> "one_of", key |-> key, n |-> words,
                      by |-> key]

\* The comparison of two doubles.
Less(a, b) == a # nan /\ b # nan /\ a < b

\* std::min and std::max, which give the first where nothing is less.
Smaller(a, b) == IF Less(b, a) THEN b ELSE a
Larger(a, b) == IF Less(a, b) THEN b ELSE a

\* What a rule makes of the value of its key.
Ruled(c, r) ==
  LET v == c[r.key]
      w == c[r.by]
  IN  CASE r.rule = "at_least" -> Larger(v, r.n)
        [] r.rule = "not_below" -> Larger(v, w)
        [] r.rule = "not_above" -> Smaller(v, w)
        [] r.rule = "zero_means" -> IF v = 0 THEN w ELSE v
        [] r.rule = "below" -> IF v >= w THEN w - 1 ELSE v
        [] r.rule = "part_of" -> IF v = 0 \/ v > w THEN Smaller(4, w) ELSE v
        [] r.rule = "percent" -> Larger(0, Smaller(r.n, v))
        [] r.rule = "one_of" -> IF v \in r.n THEN v ELSE Default[r.key]

Correct(c, r) == [c EXCEPT ![r.key] = Ruled(c, r)]

Corrected(c, rules) == FoldLeft(Correct, c, rules)

First == <<AtLeast("fast_collect_interval_ms", 100),
           AtLeast("dispatcher_idle_sleep_ms", 1),
           AtLeast("sink_idle_sleep_ms", 1)>>

\* Mutant: the reserve may be the whole queue.
QueueRulesWhole == <<
  AtLeast("event_queue_capacity", 16),
  NotAbove("critical_reserved_slots", "event_queue_capacity")>>

QueueRules == <<
  AtLeast("event_queue_capacity", 16),
  Below("critical_reserved_slots", "event_queue_capacity")>>

LogRules ==
  <<OneOf("agent_log_level", Levels), OneOf("agent_log_rotation", Rotations),
    AtLeast("agent_log_rotate_mb", 1), AtLeast("agent_log_rotate_files", 1),
    AtLeast("agent_log_async_queue_size", 1024)>>

Second == LogRules \o QueueRules

\* A rule for which high is bad.
Thresholds(warning, critical, recovery) ==
  <<NotBelow(critical, warning), NotAbove(recovery, warning)>>

SelfRules ==
  <<NotBelow("mem_available_recovery_mb", "mem_available_warning_mb")>>
  \o Thresholds("queue_warning_percent", "queue_critical_percent",
                "queue_recovery_percent")
  \o Thresholds("self_rss_soft_limit_mb", "self_rss_hard_limit_mb",
                "self_rss_recovery_mb")

EbpfRules ==
  <<NotBelow("sched_wait_sum_critical_us", "sched_wait_sum_warning_us"),
    ZeroMeans("sched_ebpf_min_wait_us", "sched_wait_sum_warning_us"),
    AtLeast("sched_ebpf_ringbuf_kb", 64),
    AtLeast("sched_ebpf_max_events_per_poll", 1),
    ZeroMeans("sched_ebpf_allowlist_refresh_ms",
              "sched_proc_cache_refresh_ms"),
    AtLeast("sched_ebpf_aggregate_window_ms", 1),
    AtLeast("sched_ebpf_aggregate_max_entries", 16)>>

ProcRules ==
  <<ZeroMeans("sched_proc_cache_refresh_ms", "low_freq_collect_interval_ms"),
    AtLeast("sched_proc_max_scan_threads", 1),
    AtLeast("sched_collector_overrun_warning_ms", 1),
    OneOf("sched_delay_source", Sources),
    NotAbove("sched_wait_sum_recovery_us", "sched_wait_sum_warning_us"),
    AtLeast("sched_max_targets", 1)>>

UsageRules ==
  Thresholds("process_memory_growth_warning_mb",
             "process_memory_growth_critical_mb",
             "process_memory_growth_recovery_mb")
  \o <<AtLeast("process_memory_growth_window_sec", 1)>>
  \o Thresholds("io_await_warning_ms", "io_await_critical_ms",
                "io_await_recovery_ms")
  \o Thresholds("io_util_warning_percent", "io_util_critical_percent",
                "io_util_recovery_percent")
  \o <<AtLeast("io_max_targets", 1)>>

CpuRules ==
  Thresholds("cpu_usage_warning_percent", "cpu_usage_critical_percent",
             "cpu_usage_recovery_percent")
  \o <<OneOf("cpu_usage_mode", Modes),
       Percent("cpu_usage_warning_percent"),
       Percent("cpu_usage_critical_percent"),
       Percent("cpu_usage_recovery_percent"),
       AtLeast("cpu_usage_continuous_warning_windows", 1),
       AtLeast("cpu_usage_continuous_critical_windows", 1),
       AtLeast("cpu_usage_recovery_windows", 1)>>

SinkRules ==
  <<AtLeast("cache_max_mb", 1), PartOf("file_rotate_mb", "cache_max_mb"),
    AtLeast("network_batch_size", 1), AtLeast("network_flush_interval_ms", 1),
    AtLeast("network_retry_base_ms", 1),
    NotBelow("network_retry_max_ms", "network_retry_base_ms"),
    AtLeast("network_wal_max_mb", 1),
    PartOf("network_wal_segment_mb", "network_wal_max_mb")>>

Third == SelfRules \o EbpfRules \o ProcRules \o UsageRules \o CpuRules
         \o SinkRules

InLowerCase(c) ==
  [c EXCEPT !.agent_log_level = Lower[@], !.agent_log_rotation = Lower[@],
            !.cpu_usage_mode = Lower[@]]

\* Up to the check of the clients.
Prepared(c) ==
  LET d == Corrected(InLowerCase(c), First)
  IN  [d EXCEPT !.metrics_enable = @ /\ d.metrics_port # 0]

\* Up to the check of the memory thresholds.
Bounded(c) ==
  Corrected([c EXCEPT !.state_ttl_sec = IF @ = 0 THEN 3600 ELSE @], Second)

\* The configuration validate leaves, and whether it returns false.
validate(c) ==
  LET d == Prepared(c)
      e == Bounded(d)
  IN  IF d.metrics_allowed_clients = "invalid"
      THEN [config |-> d, failed |-> TRUE]
      ELSE IF e.mem_available_critical_mb > e.mem_available_warning_mb
      THEN [config |-> [e EXCEPT !.memory_rule_enable = FALSE],
            failed |-> TRUE]
      ELSE [config |-> Corrected(e, Third), failed |-> FALSE]

---------------------------------------------------------------------------
(***************************************************************************)
(* main.                                                                   *)
(***************************************************************************)
\* Bound: the second line has a key that a correction compares with the one
\* of the first, or one that decides whether validate gives up.
Partners(key) ==
  {r.by : r \in {r \in ToSet(First \o Second \o Third) : r.key = key}}
    \cup {"metrics_allowed_clients", "metrics_port",
          "mem_available_critical_mb"}

ConfigInit ==
  /\ \E j \in ConfigKeys : \E k \in Partners(j) :
       \E v \in Values(j), w \in Values(k) :
         file = <<[key |-> j, value |-> v], [key |-> k, value |-> w]>>
  /\ config = <<>> /\ error = FALSE /\ mpc = "load"

\* Its own call of validate ignores the result.
load_or_default ==
  /\ mpc = "load"
  /\ config' = validate(Assigned(Assigned(Default, file[1].key,
                                          file[1].value),
                                 file[2].key, file[2].value)).config
  /\ mpc' = "validate"
  /\ UNCHANGED <<file, error>>

\* Mutant: main relies on the validation of the loader.
ValidateOnce ==
  /\ mpc = "validate"
  /\ error' = validate(config).failed
  /\ mpc' = "start"
  /\ UNCHANGED <<file, config>>

ValidateAgain ==
  /\ mpc = "validate"
  /\ config' = validate(config).config
  /\ error' = validate(config).failed
  /\ mpc' = "start"
  /\ UNCHANGED file

\* Monitor::start, as far as the configuration decides.
StartMonitor ==
  /\ mpc = "start"
  /\ mpc' = IF /\ config.enable
               /\ config.metrics_enable
                    => config.metrics_allowed_clients \in {"none", "valid"}
            THEN "running" ELSE "failed"
  /\ UNCHANGED <<file, config, error>>

ConfigNext == load_or_default \/ ValidateAgain \/ StartMonitor

ConfigSpec == ConfigInit /\ [][ConfigNext]_configVars

---------------------------------------------------------------------------
\* Thresholds that are numbers are in order, so that an alert raised above
\* one of them can end again.  With nan for a recovery threshold it cannot,
\* and validate does not see it.
Ordered(c, warning, critical, recovery) ==
  ~Less(c[warning], c[recovery]) /\ ~Less(c[critical], c[warning])

\* The thresholds of the processor are numbers even where the file has nan.
CpuThresholds == {"cpu_usage_warning_percent", "cpu_usage_critical_percent",
                  "cpu_usage_recovery_percent"}

\* What the parts of the agent rely on: queues that can hold their reserve and
\* something more, thresholds in order, percentages of the processor, a batch,
\* a segment and a file that are not empty and fit their limit, a retry that
\* waits, limits that let something through.
SafeConfig(c) ==
  /\ c.critical_reserved_slots < c.event_queue_capacity
  /\ c.mem_available_critical_mb <= c.mem_available_warning_mb
  /\ c.mem_available_warning_mb <= c.mem_available_recovery_mb
  /\ Ordered(c, "queue_warning_percent", "queue_critical_percent",
             "queue_recovery_percent")
  /\ Ordered(c, "self_rss_soft_limit_mb", "self_rss_hard_limit_mb",
             "self_rss_recovery_mb")
  /\ Ordered(c, "sched_wait_sum_warning_us", "sched_wait_sum_critical_us",
             "sched_wait_sum_recovery_us")
  /\ Ordered(c, "process_memory_growth_warning_mb",
             "process_memory_growth_critical_mb",
             "process_memory_growth_recovery_mb")
  /\ Ordered(c, "io_await_warning_ms", "io_await_critical_ms",
             "io_await_recovery_ms")
  /\ Ordered(c, "io_util_warning_percent", "io_util_critical_percent",
             "io_util_recovery_percent")
  /\ Ordered(c, "cpu_usage_warning_percent", "cpu_usage_critical_percent",
             "cpu_usage_recovery_percent")
  /\ \A k \in CpuThresholds : c[k] \in 0..100
  /\ c.file_rotate_mb \in 1..c.cache_max_mb
  /\ c.network_wal_segment_mb \in 1..c.network_wal_max_mb
  /\ c.network_retry_base_ms \in 1..c.network_retry_max_ms
  /\ \A k \in {"network_batch_size", "sched_max_targets", "io_max_targets",
               "sched_ebpf_max_events_per_poll", "state_ttl_sec",
               "sched_proc_max_scan_threads"} : c[k] >= 1

\* An agent that runs without a configuration error (validate) has what its
\* parts rely on.
AcceptedConfigIsSafe == mpc = "running" /\ ~error => SafeConfig(config)

\* The agent runs with a configuration that validate would not change any
\* more, although validate is not idempotent: a refresh of 0 is taken from
\* another setting that is corrected after it.
RunsOnFixedPoint == mpc = "running" => validate(config).config = config
=============================================================================
