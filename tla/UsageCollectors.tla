-------------------------- MODULE UsageCollectors --------------------------
(***************************************************************************)
(* The collectors that compare two readings of a counter file, CPU usage   *)
(* (src/collectors/cpu_usage_collector.cpp) and I/O delay                  *)
(* (io_delay_collector.cpp), a collector without memory (meminfo and self  *)
(* status), and the reporting of their failures                            *)
(* (Monitor::publish_collector_failure).                                   *)
(*                                                                         *)
(* A pass may find any targets with any counters: cores and devices come   *)
(* and go, their counters begin again, and iowait may run backwards.  Of   *)
(* the counters two are kept: the total and the idle jiffies of a core, or *)
(* the requests of a device and its time (queue times and io_time behave   *)
(* alike).  They are Width values wide.                                    *)
(***************************************************************************)
EXTENDS Integers, FiniteSets

CONSTANTS
  Targets,        \* cores, or devices, that pass should_scan
  Width,          \* number of values of a counter
  MaxCount,       \* bound: the first counter
  MaxPart,        \* bound: the second counter
  BaselineTtl,    \* state_ttl_sec
  Interval,       \* kCollectorFailureEventIntervalMs
  io_max_targets,
  MaxUsageTime    \* bound: the clock

\* What is read of a counter fits the type that holds it.
ASSUME UsageAssumption ==
  /\ Width \in Nat \ {0} /\ MaxCount \in 0..(Width - 1)
  /\ MaxPart \in 0..(Width - 1)
  /\ Interval \in Nat \ {0}

VARIABLES
  kind,           \* the collector whose passes are explored: chosen once
  time,
  baselines,      \* baselines_
  baseline_last_seen, \* baseline_last_seen_ms_, 0 for none
  last_event,     \* by collector: last_..._failure_event_ms_
  samples,        \* what the last pass returned
  last_pass,      \* history: the last pass that read its file
  failed,         \* history: by collector, its last failure
  tried,          \* history: by collector, the last event tried
  close           \* history: collectors with two tries within an interval

reports == <<last_event, failed, tried, close>>
usageVars == <<kind, time, baselines, baseline_last_seen, samples, last_pass,
               reports>>

NoBaseline == [whole |-> 0, part |-> 0, at |-> 0]

Reporters == {"cpu_usage", "io_delay", "meminfo"}

UsageInit ==
  /\ kind \in Reporters
  /\ time = 1
  /\ baselines = [t \in Targets |-> NoBaseline]
  /\ baseline_last_seen = [t \in Targets |-> 0]
  /\ last_event = [r \in Reporters |-> 0]
  /\ samples = {} /\ last_pass = 0
  /\ failed = [r \in Reporters |-> 0] /\ tried = [r \in Reporters |-> 0]
  /\ close = {}

\* Unsigned subtraction.
Minus(a, b) == (a - b) % Width

---------------------------------------------------------------------------
\* prune_baselines.  What is in the file has just been marked as seen.
Expired(t, seen) == seen[t] # 0 /\ time - seen[t] >= BaselineTtl

\* Mutant: a counter that began again is not noticed.
ComparableAnyway(now, old) ==
  kind = "cpu_usage" => Minus(now.part, old.part) <= Minus(now.whole,
                                                           old.whole)

\* The counters have not run backwards, and something happened.
Comparable(now, old) ==
  \/ /\ kind = "cpu_usage"
     /\ now.whole > old.whole /\ now.part >= old.part
     /\ Minus(now.part, old.part) <= Minus(now.whole, old.whole)
  \/ /\ kind = "io_delay"
     /\ now.at > old.at
     /\ now.whole >= old.whole /\ now.part >= old.part
     /\ Minus(now.whole, old.whole) # 0

\* The targets a pass gets to in the order of its hash table: it ends with
\* the sample that reaches the limit.
Reached(present, ready) ==
  IF kind = "cpu_usage" \/ Cardinality(ready) < io_max_targets
  THEN {present}
  ELSE {P \in SUBSET present : Cardinality(P \cap ready) = io_max_targets}

\* A pass of collect that finds current in its file.
Collect(current) ==
  LET present == DOMAIN current
      seen == [t \in Targets |-> IF t \in present THEN time
                                 ELSE baseline_last_seen[t]]
      kept == {t \in Targets : baselines[t] # NoBaseline
                                 /\ ~Expired(t, seen)}
      ready == {t \in present \cap kept :
                  Comparable(current[t], baselines[t])}
  IN  \E done \in Reached(present, ready) :
        /\ baselines' = [t \in Targets |->
                           CASE t \in done -> current[t]
                             [] t \in kept \ done -> baselines[t]
                             [] OTHER -> NoBaseline]
        /\ baseline_last_seen' = [t \in Targets |->
                                    IF Expired(t, seen) THEN 0 ELSE seen[t]]
        /\ samples' =
             {[target |-> t, now |-> current[t],
               whole |-> Minus(current[t].whole, baselines[t].whole),
               part |-> Minus(current[t].part, baselines[t].part)] :
                t \in ready \cap done}

---------------------------------------------------------------------------
\* The history of a failure, for which an event is tried or not.
Failed(r, due) ==
  /\ failed' = [failed EXCEPT ![r] = time]
  /\ tried' = [tried EXCEPT ![r] = IF due THEN time ELSE @]
  /\ close' = IF due /\ tried[r] # 0 /\ time - tried[r] < Interval
              THEN close \cup {r} ELSE close

Due(r) == last_event[r] = 0 \/ time - last_event[r] >= Interval

\* Mutant: the collectors share one time.
FailureSharesTime(r) ==
  /\ last_event' = IF Due(r) THEN [q \in Reporters |-> time] ELSE last_event
  /\ Failed(r, Due(r))

\* Whether the queue takes the event makes no difference to it.
publish_collector_failure(r) ==
  /\ last_event' = IF Due(r) THEN [last_event EXCEPT ![r] = time]
                   ELSE last_event
  /\ Failed(r, Due(r))

\* The file is missing, or none of its lines is of use; meminfo and self
\* status: the sample is not valid.
CollectFails(r) ==
  /\ last_pass # time
  /\ samples' = {}
  /\ publish_collector_failure(r)
  /\ UNCHANGED <<kind, time, baselines, baseline_last_seen, last_pass>>

CollectorPass ==
  /\ kind # "meminfo" /\ last_pass # time
  /\ \E present \in (SUBSET Targets) \ {{}} :
       \E counts \in [present -> [whole : 0..MaxCount, part : 0..MaxPart]] :
         /\ kind = "cpu_usage" =>
              \A t \in present : counts[t].part <= counts[t].whole
         /\ Collect([t \in present |-> [whole |-> counts[t].whole,
                                        part |-> counts[t].part,
                                        at |-> time]])
  /\ last_pass' = time
  /\ UNCHANGED <<kind, time, reports>>

\* The loop has evaluated the samples and waits for its next deadline.
UsageTick ==
  /\ time < MaxUsageTime
  /\ time' = time + 1
  /\ samples' = {}
  /\ UNCHANGED <<kind, baselines, baseline_last_seen, last_pass, reports>>

\* The collectors share nothing but publish_collector_failure.
Failures ==
  \E r \in Reporters : (kind = "meminfo" \/ r = kind) /\ CollectFails(r)

UsageNext == CollectorPass \/ Failures \/ UsageTick

UsageSpec == UsageInit /\ [][UsageNext]_usageVars

---------------------------------------------------------------------------
\* A sample never speaks of counters that ran backwards, which unsigned
\* subtraction would turn into an enormous load: what it says happened is no
\* more than the counters hold, not nothing, and a core is idle for no longer
\* than it ran.
DeltasReal ==
  \A s \in samples :
    /\ s.whole \in 1..s.now.whole
    /\ s.part <= s.now.part
    /\ kind = "cpu_usage" => s.part <= s.whole

\* For every failure of a collector that collector tried an event less than
\* an interval before, and between two tries lies an interval: a collector
\* that goes on failing is neither silent nor a flood, and no other collector
\* silences it.
FailureAnnounced ==
  /\ close = {}
  /\ \A r \in Reporters :
       failed[r] # 0 => tried[r] # 0 /\ failed[r] - tried[r] < Interval
=============================================================================
