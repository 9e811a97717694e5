----------------------------- MODULE SchedDelay -----------------------------
(***************************************************************************)
(* SchedDelayCollector (src/collectors/sched_delay_collector.cpp): once in *)
(* a pass it walks the threads of the whitelisted processes and reports    *)
(* how long each has waited for a CPU since it was last read.  Names are   *)
(* cached, the work of a pass is limited, and what has not been seen for   *)
(* the TTL is dropped.                                                     *)
(*                                                                         *)
(* Threads start, exec and exit, and the clock goes on, between any two    *)
(* reads.  A process has one thread here, so an id is the key of every     *)
(* map, and sched_thread_whitelist is empty, its default: with one, the    *)
(* same lookup is made a second time under the key of the thread.  Of the  *)
(* counters only the order is kept, and of a baseline the thread it was    *)
(* taken of: the collector does not know start times, so an id that is     *)
(* used again keeps its baseline.                                          *)
(***************************************************************************)
EXTENDS Naturals, FiniteSets, SchedTargets

CONSTANTS
  SchedPids,    \* process ids, a set of numbers
  agent_pid,    \* the agent's own id, watched when no whitelist is given
  SchedRefresh, \* sched_proc_cache_refresh_ms
  SchedTtl,     \* state_ttl_sec
  SchedLimits,  \* the values of sched_max_targets and
                \* sched_proc_max_scan_threads that are explored
  MaxBirths,    \* bound: processes started
  MaxRenames,   \* bound: calls of exec
  MaxSchedTime  \* bound: the clock

\* validate replaces a TTL of 0.
ASSUME SchedAssumption ==
  SchedPids \subseteq Nat /\ SchedRefresh \in Nat /\ SchedTtl \in Nat \ {0}

VARIABLES
  limits,            \* the configured limits
  tasks,             \* the thread with each id
  births, renames,   \* threads started, calls of exec
  sched_clock,
  process_names,     \* process_comm_cache_
  thread_baselines,  \* baselines_, with the thread they were taken of
  at,                \* where the collector is
  pass               \* the locals of collect

schedWorld == <<tasks, births, renames>>
schedMaps == <<process_names, thread_baselines>>
schedVars == <<limits, schedWorld, sched_clock, schedMaps, at, pass>>

NoTask == [start |-> 0, name |-> "", since |-> 0]
NoName == [comm |-> "", refreshed_at |-> 0, last_seen |-> 0]
NoThreadBaseline == [of |-> 0, last_seen |-> 0]
NoPass == [began |-> 0, todo |-> {}, listed |-> {}, pid |-> 0, samples |-> 0,
           scanned |-> 0, unread |-> {}]

Exists(p) == tasks[p].start # 0

SchedInit ==
  /\ limits \in SchedLimits
  /\ tasks = [p \in SchedPids |-> NoTask]
  /\ births = 0 /\ renames = 0
  /\ sched_clock = 1
  /\ process_names = [p \in SchedPids |-> NoName]
  /\ thread_baselines = [p \in SchedPids |-> NoThreadBaseline]
  /\ at = "idle" /\ pass = NoPass

---------------------------------------------------------------------------
(***************************************************************************)
(* The threads and the clock.                                              *)
(***************************************************************************)
StartThread(p, n) ==
  /\ ~Exists(p) /\ births < MaxBirths
  /\ births' = births + 1
  /\ tasks' = [tasks EXCEPT ![p] = [start |-> births + 1, name |-> n,
                                    since |-> sched_clock]]
  /\ UNCHANGED <<limits, renames, sched_clock, schedMaps, at, pass>>

ExecAs(p, n) ==
  /\ Exists(p) /\ tasks[p].name # n /\ renames < MaxRenames
  /\ renames' = renames + 1
  /\ tasks' = [tasks EXCEPT ![p].name = n, ![p].since = sched_clock]
  /\ UNCHANGED <<limits, births, sched_clock, schedMaps, at, pass>>

EndThread(p) ==
  /\ Exists(p)
  /\ tasks' = [tasks EXCEPT ![p] = NoTask]
  /\ UNCHANGED <<limits, births, renames, sched_clock, schedMaps, at, pass>>

SchedTick ==
  /\ sched_clock < MaxSchedTime
  /\ sched_clock' = sched_clock + 1
  /\ UNCHANGED <<limits, schedWorld, schedMaps, at, pass>>

---------------------------------------------------------------------------
(***************************************************************************)
(* The caches.                                                             *)
(***************************************************************************)
\* Mutant: an entry is dropped after the TTL, not at its end.
ExpiredLate(entry) ==
  entry.last_seen # 0 /\ sched_clock - entry.last_seen > SchedTtl

\* erase_expired, for one entry of a map.
Outdated(entry) ==
  entry.last_seen # 0 /\ sched_clock - entry.last_seen >= SchedTtl

\* Mutant: a name that is cached is never read again.
HitForEver(entry) == entry # NoName

\* A cached name that is young enough to be used.
Hit(entry) == entry # NoName /\ sched_clock - entry.refreshed_at < SchedRefresh

\* read_comm: the first line of the comm file of a process that exists.
Comm(p) == tasks[p].name

\* cached_comm: the entry after a lookup that succeeds.
Named(cache, p) ==
  IF Hit(cache[p]) THEN [cache[p] EXCEPT !.last_seen = sched_clock]
  ELSE [comm |-> Comm(p), refreshed_at |-> sched_clock,
        last_seen |-> sched_clock]

should_scan_process(p, comm) ==
  IF WatchedPrograms = {} THEN p = agent_pid
  ELSE comm \in WatchedPrograms

---------------------------------------------------------------------------
(***************************************************************************)
(* collect.                                                                *)
(***************************************************************************)
\* prune_expired_state, then the listing of /proc, unless it fails or the
\* collector is switched off.
Begin(listed) ==
  /\ at = "idle"
  /\ process_names' = [p \in SchedPids |->
       IF Outdated(process_names[p]) THEN NoName ELSE process_names[p]]
  /\ thread_baselines' = [p \in SchedPids |->
       IF Outdated(thread_baselines[p]) THEN NoThreadBaseline
       ELSE thread_baselines[p]]
  /\ IF listed
     THEN /\ at' = "entries"
          /\ pass' = [NoPass EXCEPT !.began = sched_clock, !.todo = SchedPids,
                                    !.listed = {p \in SchedPids : Exists(p)}]
     ELSE UNCHANGED <<at, pass>>
  /\ UNCHANGED <<limits, schedWorld, sched_clock>>

\* The next entry of /proc, in the order of the ids.
NextEntry == CHOOSE p \in pass.todo : \A q \in pass.todo : p <= q

\* On to the next entry.
Leave(p, unread) ==
  /\ at' = "entries"
  /\ pass' = [pass EXCEPT !.todo = @ \ {p}, !.pid = 0,
                          !.unread = @ \cup unread]

AtEntry == at = "entries" /\ pass.todo # {}

\* There is no such entry, or it is not considered.
PassOver ==
  /\ AtEntry
  /\ \/ ~Exists(NextEntry)
     \/ WatchedPrograms = {} /\ NextEntry # agent_pid
  /\ Leave(NextEntry, {})
  /\ UNCHANGED <<limits, schedWorld, sched_clock, schedMaps>>

\* The name of the process is cached or can be read.
NameProcess ==
  /\ AtEntry
  /\ WatchedPrograms # {} \/ NextEntry = agent_pid
  /\ \/ Exists(NextEntry)
     \/ NextEntry \in pass.listed /\ Hit(process_names[NextEntry])
  /\ LET entry == Named(process_names, NextEntry)
     IN  /\ process_names' = [process_names EXCEPT ![NextEntry] = entry]
         /\ IF should_scan_process(NextEntry, entry.comm)
            THEN at' = "task" /\ pass' = [pass EXCEPT !.pid = NextEntry]
            ELSE Leave(NextEntry, {})
  /\ UNCHANGED <<limits, schedWorld, sched_clock, thread_baselines>>

ProcessUnnamed ==
  /\ AtEntry
  /\ WatchedPrograms # {} \/ NextEntry = agent_pid
  /\ Exists(NextEntry) \/ NextEntry \in pass.listed
  /\ ~Hit(process_names[NextEntry])
  /\ process_names' = [process_names EXCEPT ![NextEntry] = NoName]
  /\ Leave(NextEntry, {NextEntry})
  /\ UNCHANGED <<limits, schedWorld, sched_clock, thread_baselines>>

\* The directory of the threads cannot be opened.
TasksUnlisted ==
  /\ at = "task"
  /\ Leave(pass.pid, {pass.pid})
  /\ UNCHANGED <<limits, schedWorld, sched_clock, schedMaps>>

AtLimit ==
  \/ pass.samples >= limits.sched_max_targets
  \/ pass.scanned >= limits.sched_proc_max_scan_threads

\* A limit ends the pass.
CutShort ==
  /\ at = "task" /\ Exists(pass.pid)
  /\ AtLimit
  /\ at' = "idle" /\ pass' = NoPass
  /\ UNCHANGED <<limits, schedWorld, sched_clock, schedMaps>>

AtThread == at = "task" /\ Exists(pass.pid) /\ ~AtLimit

\* read_sched fails.
SchedUnread ==
  /\ AtThread
  /\ at' = "entries"
  /\ pass' = [pass EXCEPT !.todo = @ \ {pass.pid}, !.pid = 0,
                          !.scanned = @ + 1, !.unread = @ \cup {pass.pid}]
  /\ UNCHANGED <<limits, schedWorld, sched_clock, schedMaps>>

\* read_sched and the comparison with the baseline, which is replaced with or
\* without a sample.  A counter is lower than in the baseline only when
\* another thread has the id, and then there is no sample.
ReadSched(lower) ==
  /\ AtThread
  /\ LET p == pass.pid
         base == thread_baselines[p]
     IN  /\ lower => base # NoThreadBaseline /\ base.of # tasks[p].start
         /\ thread_baselines' = [thread_baselines EXCEPT ![p] =
              [of |-> tasks[p].start, last_seen |-> pass.began]]
         /\ at' = "entries"
         /\ pass' = [pass EXCEPT !.todo = @ \ {p}, !.pid = 0,
                                 !.scanned = @ + 1,
                                 !.samples = IF base = NoThreadBaseline \/ lower
                                             THEN @ ELSE @ + 1]
  /\ UNCHANGED <<limits, schedWorld, sched_clock, process_names>>

Finish ==
  /\ at = "entries" /\ pass.todo = {}
  /\ at' = "idle" /\ pass' = NoPass
  /\ UNCHANGED <<limits, schedWorld, sched_clock, schedMaps>>

SchedNext ==
  \/ \E p \in SchedPids, n \in Programs : StartThread(p, n) \/ ExecAs(p, n)
  \/ \E p \in SchedPids : EndThread(p)
  \/ SchedTick
  \/ \E listed \in BOOLEAN : Begin(listed)
  \/ PassOver \/ NameProcess \/ ProcessUnnamed
  \/ TasksUnlisted \/ CutShort
  \/ \E lower \in BOOLEAN : ReadSched(lower)
  \/ SchedUnread \/ Finish

SchedSpec == SchedInit /\ [][SchedNext]_schedVars

---------------------------------------------------------------------------
\* A thread that has had a watched name for a refresh when a pass begins is
\* read in that pass, unless a file of it could not be read or a limit cut
\* the pass short: no cached name hides it any longer.
WatchedIsRead ==
  [][at = "entries" /\ at' = "idle"
       => \A p \in SchedPids \ pass.unread :
            /\ Exists(p) /\ should_scan_process(p, tasks[p].name)
            /\ tasks[p].since + SchedRefresh <= pass.began
            => thread_baselines[p] = [of |-> tasks[p].start,
                                      last_seen |-> pass.began]]_schedVars

\* A sample covers less than the TTL, however many passes failed, were cut
\* short or did not reach the thread since its baseline was taken.
SampleWindow ==
  [][pass'.samples > pass.samples
       => pass.began - thread_baselines[pass.pid].last_seen
            < SchedTtl]_schedVars
=============================================================================
