---------------------------- MODULE MCAgentParts ----------------------------
(***************************************************************************)
(* The parts of the agent around the pipeline for TLC: the process watch   *)
(* and the usage collectors of the collector threads, both scheduler-delay *)
(* collectors, the metrics server with its registry, and the configuration *)
(* loader.  Their state is their own, so each is explored with the others  *)
(* at rest.                                                                *)
(***************************************************************************)
EXTENDS ProcessWatch, UsageCollectors, Metrics, SchedDelay, EbpfSchedDelay,
        Config

VARIABLE part  \* the part that is explored

partVars ==
  <<part, vars, schedVars, ebpfVars, usageVars, metricsVars, configVars>>

---------------------------------------------------------------------------
MCLimits ==
  [sched_max_targets : {1}, sched_proc_max_scan_threads : {1, 2}]

\* Filters and aggregation, the allowlists without waits, and the waits of a
\* few processes.
MCSettings ==
  [pid_filter : {TRUE}, tid_filter : {FALSE}, lifecycle : BOOLEAN,
   aggregate : {FALSE}, starts : {3}, waits : {0}]
  \cup [pid_filter : {TRUE}, tid_filter : {FALSE}, lifecycle : {TRUE},
        aggregate : {FALSE}, starts : {1}, waits : {3}]
  \cup [pid_filter : {TRUE}, tid_filter : {FALSE}, lifecycle : {FALSE},
        aggregate : {TRUE}, starts : {1}, waits : {4}]
  \cup [pid_filter : BOOLEAN, tid_filter : {TRUE}, lifecycle : {TRUE},
        aggregate : {FALSE}, starts : {1}, waits : {1}]

\* All threads are of process 1.
MCProcess == [t \in Threads |-> 1]

\* A negative number, none, one between the defaults and a large one.
MCNumbers == {-1, 0, 60, 100000}
MCTexts == {"DEBUG", "daily", "EBPF", "both"}
MCLower ==
  [w \in MCTexts \cup KnownWords |->
     CASE w = "DEBUG" -> "debug" [] w = "EBPF" -> "ebpf" [] OTHER -> w]

---------------------------------------------------------------------------
\* What a part chooses once is fixed while another is explored.
PartsInit ==
  /\ part \in {"watch", "sched", "ebpf", "usage", "metrics", "loader"}
  /\ Init
  /\ SchedInit
  /\ part # "sched" => limits.sched_proc_max_scan_threads = 1
  /\ EbpfInit
  /\ part # "ebpf" => settings.waits = 4
  /\ UsageInit
  /\ part # "usage" => kind = "meminfo"
  /\ MetricsInit
  /\ part # "metrics" => busy = "files"
  /\ ConfigInit
  /\ part # "loader" =>
       file = <<[key |-> "enable", value |-> TRUE],
                [key |-> "metrics_allowed_clients", value |-> "valid"]>>

PartsNext ==
  \/ /\ part = "watch" /\ Next
     /\ UNCHANGED <<part, schedVars, ebpfVars, usageVars, metricsVars,
                    configVars>>
  \/ /\ part = "sched" /\ SchedNext
     /\ UNCHANGED <<part, vars, ebpfVars, usageVars, metricsVars, configVars>>
  \/ /\ part = "ebpf" /\ EbpfNext
     /\ UNCHANGED <<part, vars, schedVars, usageVars, metricsVars, configVars>>
  \/ /\ part = "usage" /\ UsageNext
     /\ UNCHANGED <<part, vars, schedVars, ebpfVars, metricsVars, configVars>>
  \/ /\ part = "metrics" /\ MetricsNext
     /\ UNCHANGED <<part, vars, schedVars, ebpfVars, usageVars, configVars>>
  \/ /\ part = "loader" /\ ConfigNext
     /\ UNCHANGED <<part, vars, schedVars, ebpfVars, usageVars, metricsVars>>

PartsSpec == PartsInit /\ [][PartsNext]_partVars
=============================================================================
