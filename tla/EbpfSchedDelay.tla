--------------------------- MODULE EbpfSchedDelay ---------------------------
(***************************************************************************)
(* The eBPF scheduler-delay collector: the kernel programs                 *)
(* (ebpf/bpf/sched_delay.bpf.c), which run on every switch, exec and exit, *)
(* and the user side that polls them                                       *)
(* (ebpf/src/ebpf_sched_delay_collector.cpp).                              *)
(*                                                                         *)
(* The kernel filters by two allowlists that only the user side can fill,  *)
(* from names it reads under /proc; processes fork, exec, rename           *)
(* themselves, exit and are reaped, and their ids are used again, while it *)
(* does so, and any of its reads and map updates may fail unnoticed.  The  *)
(* length of a wait is abstracted to whether it reaches min_wait_ns, a     *)
(* sample to its thread and the number of waits it stands for.  A process  *)
(* may exec once it has a single thread, because exec ends the others      *)
(* first.                                                                  *)
(***************************************************************************)
EXTENDS Naturals, Sequences, FiniteSets, Functions, SchedTargets

CONSTANTS
  Threads,       \* thread ids
  Process,       \* the process id of each thread
  NamedThreads,  \* threads with a name of sched_thread_whitelist
  Settings,      \* the configurations explored, each with its bounds on
                 \* changes of program (starts) and waits begun (waits)
  EbpfRefresh,   \* sched_ebpf_allowlist_refresh_ms
  EbpfWindow,    \* sched_ebpf_aggregate_window_ms
  BatchLimit,    \* sched_ebpf_max_events_per_poll
  RingSize,      \* records the ring buffer holds
  AggregateSize, \* MINILISYSM_EBPF_AGGREGATE_MAX_ENTRIES
  MaxEbpfTime    \* bound: the clock

\* A process id is not 0, which found uses for none.
ASSUME EbpfAssumption ==
  /\ IsFiniteSet(Threads) /\ Process \in [Threads -> Nat \ {0}]
  /\ EbpfRefresh \in Nat

VARIABLES
  settings,      \* the configuration: chosen once
  program,       \* the name each entry of /proc has, and how it got it
  live,          \* threads that run or can run
  kernel_clock, begun, \* time, and what bounds the model
  launched,
  pid_allowlist, tid_allowlist, runnable_since, aggregates,
  ring,          \* the map events
  counters,
  upc,           \* where the poll is
  todo,          \* entries of /proc the scan has still to visit
  found,         \* process whose name matched, 0 for none
  task_todo,     \* entries of its task directory the scan has still to visit
  poll,          \* the locals of poll: now, the counters read, pending
  memory,        \* last_filter_refresh, last_exec_seen, last_counter_total
  reported,      \* history: failures collect has returned
  measured,      \* history: waits that passed the filters
  delivered,     \* history: waits that samples stood for
  discarded,     \* history: waits consumed beyond the batch of a poll
  settled,       \* history: processes unchanged since the poll began
  unannounced,   \* history: last change of a process without an exec
  watched_at,    \* history: when a process last had a watched name
  blind_at       \* history: the last refresh that failed to see a process

ebpfWorld == <<settings, program, live, launched>>
kernel == <<pid_allowlist, tid_allowlist, runnable_since, aggregates, ring,
            counters, begun, measured>>
user ==
  <<upc, todo, found, task_todo, poll, memory, reported, delivered, discarded>>
seen == <<settled, unannounced, watched_at, blind_at>>
ebpfVars == <<ebpfWorld, kernel_clock, kernel, user, seen>>

Processes == {Process[t] : t \in Threads}

ThreadsOf(p) == {t \in Threads : Process[t] = p}

HasThreads(p) == ThreadsOf(p) \cap live # {}

NoProgram == [name |-> "", by |-> "fork"]

\* An entry in /proc lasts until its process is reaped, which is after the
\* exit of its last thread.
InProc(p) == program[p] # NoProgram

Watched(p) == InProc(p) /\ program[p].name \in WatchedPrograms
NoAggregate == [count |-> 0, last |-> 0]
NoCounters == [ringbuf_drops |-> 0, exec_seen |-> 0, stale_hits |-> 0,
               aggregate_drops |-> 0]

\* What read_counter_delta adds up.
Total(c) == c.ringbuf_drops + c.stale_hits + c.aggregate_drops

\* The clock starts late enough for the first poll to refresh.
EbpfInit ==
  /\ settings \in Settings
  /\ program = [p \in Processes |-> NoProgram]
  /\ live = {} /\ kernel_clock = EbpfRefresh /\ begun = 0 /\ launched = 0
  /\ pid_allowlist = {} /\ tid_allowlist = {} /\ runnable_since = {}
  /\ aggregates = [t \in Threads |-> NoAggregate]
  /\ ring = <<>> /\ counters = NoCounters
  /\ upc = "idle" /\ todo = {} /\ found = 0 /\ task_todo = {}
  /\ poll = [now |-> 0, counters |-> NoCounters, pending |-> 0]
  /\ memory = [refresh |-> 0, exec |-> 0, total |-> 0]
  /\ reported = 0 /\ measured = 0 /\ delivered = 0 /\ discarded = 0
  /\ settled = {}
  /\ blind_at = [p \in Processes |-> 0]
  /\ unannounced = [p \in Processes |-> 0]
  /\ watched_at = [p \in Processes |-> 0]

---------------------------------------------------------------------------
(***************************************************************************)
(* Processes and threads, with the tracepoints they pass.                  *)
(***************************************************************************)
\* The history of watched names, in the state a change leads to.
NoteWatched(at) ==
  watched_at' = [p \in Processes |-> IF Watched(p) \/ Watched(p)' THEN at
                                     ELSE watched_at[p]]

\* A fork passes no tracepoint of the collector; the child has the name of
\* its parent, and all its threads are created at once.
Fork(p, n) ==
  /\ ~InProc(p) /\ launched < settings.starts
  /\ launched' = launched + 1
  /\ program' = [program EXCEPT ![p] = [name |-> n, by |-> "fork"]]
  /\ live' = live \cup ThreadsOf(p)
  /\ settled' = settled \ {p}
  /\ unannounced' = [unannounced EXCEPT ![p] = kernel_clock]
  /\ NoteWatched(kernel_clock)
  /\ UNCHANGED <<settings, kernel_clock, kernel, user, blind_at>>

\* Mutant: exec is not counted.
ExecUnseen(p, n) ==
  /\ Cardinality(ThreadsOf(p) \cap live) = 1 /\ launched < settings.starts
  /\ launched' = launched + 1
  /\ program' = [program EXCEPT ![p] = [name |-> n, by |-> "exec"]]
  /\ settled' = settled \ {p}
  /\ UNCHANGED <<settings, live, kernel_clock, kernel, user, unannounced,
                 blind_at>>
  /\ NoteWatched(kernel_clock)

\* on_sched_process_exec.
ExecProgram(p, n) ==
  /\ Cardinality(ThreadsOf(p) \cap live) = 1 /\ launched < settings.starts
  /\ launched' = launched + 1
  /\ program' = [program EXCEPT ![p] = [name |-> n, by |-> "exec"]]
  /\ counters' = [counters EXCEPT !.exec_seen =
                    IF settings.lifecycle THEN @ + 1 ELSE @]
  /\ settled' = settled \ {p}
  /\ UNCHANGED <<settings, live, kernel_clock, pid_allowlist, tid_allowlist,
                 runnable_since, aggregates, ring, begun, measured, user,
                 unannounced, blind_at>>
  /\ NoteWatched(kernel_clock)

\* A process gives itself another name, as prctl does, without an exec.
Rename(p, n) ==
  /\ HasThreads(p) /\ launched < settings.starts
  /\ launched' = launched + 1
  /\ program' = [program EXCEPT ![p] = [name |-> n, by |-> "rename"]]
  /\ settled' = settled \ {p}
  /\ unannounced' = [unannounced EXCEPT ![p] = kernel_clock]
  /\ NoteWatched(kernel_clock)
  /\ UNCHANGED <<settings, live, kernel_clock, kernel, user, blind_at>>

\* on_sched_process_exit: the allowlist entry of the whole process goes with
\* any of its threads; its entry in /proc stays.
ExitThread(t) ==
  /\ t \in live
  /\ live' = live \ {t}
  /\ IF settings.lifecycle
     THEN /\ tid_allowlist' = tid_allowlist \ {t}
          /\ pid_allowlist' = pid_allowlist \ {Process[t]}
          /\ runnable_since' = runnable_since \ {t}
     ELSE UNCHANGED <<tid_allowlist, pid_allowlist, runnable_since>>
  /\ unannounced' = [unannounced EXCEPT ![Process[t]] = kernel_clock]
  /\ UNCHANGED <<settings, program, launched, kernel_clock, aggregates, ring,
                 counters, begun, measured, user, settled, blind_at>>
  /\ NoteWatched(kernel_clock)

\* The parent waits for a zombie, which passes no tracepoint of the collector.
Reap(p) ==
  /\ InProc(p) /\ ~HasThreads(p)
  /\ program' = [program EXCEPT ![p] = NoProgram]
  /\ settled' = settled \ {p}
  /\ NoteWatched(kernel_clock)
  /\ UNCHANGED <<settings, live, launched, kernel_clock, kernel, user,
                 unannounced, blind_at>>

EbpfTick ==
  /\ kernel_clock < MaxEbpfTime
  /\ kernel_clock' = kernel_clock + 1
  /\ UNCHANGED <<ebpfWorld, kernel, user, settled, unannounced, blind_at>>
  /\ NoteWatched(kernel_clock + 1)

---------------------------------------------------------------------------
(***************************************************************************)
(* on_sched_switch.                                                        *)
(***************************************************************************)
\* A thread is switched out that could have gone on.
SwitchOut(t) ==
  /\ t \in live \ runnable_since /\ begun < settings.waits
  /\ begun' = begun + 1
  /\ runnable_since' = runnable_since \cup {t}
  /\ UNCHANGED <<ebpfWorld, kernel_clock, pid_allowlist, tid_allowlist,
                 aggregates, ring, counters, measured, user, seen>>

\* Mutant: a record the ring has no room for is dropped without a count.
EmitUncounted(t, n) ==
  IF Len(ring) < RingSize
  THEN /\ ring' = Append(ring, [tid |-> t, count |-> n])
       /\ UNCHANGED counters
  ELSE UNCHANGED <<ring, counters>>

emit_event(t, n) ==
  IF Len(ring) < RingSize
  THEN /\ ring' = Append(ring, [tid |-> t, count |-> n])
       /\ UNCHANGED counters
  ELSE /\ counters' = [counters EXCEPT !.ringbuf_drops = @ + 1]
       /\ UNCHANGED ring

Aggregated == {t \in Threads : aggregates[t].count > 0}

\* The window is only looked at when the next wait arrives, and the entry is
\* deleted whether or not the ring took the record.
aggregate_or_emit(t) ==
  \/ /\ ~settings.aggregate
     /\ emit_event(t, 1)
     /\ UNCHANGED aggregates
  \/ /\ settings.aggregate /\ t \notin Aggregated
     /\ IF Cardinality(Aggregated) < AggregateSize
        THEN /\ aggregates' = [aggregates EXCEPT
                                 ![t] = [count |-> 1, last |-> kernel_clock]]
             /\ UNCHANGED counters
        ELSE /\ counters' = [counters EXCEPT !.aggregate_drops = @ + 1]
             /\ UNCHANGED aggregates
     /\ UNCHANGED ring
  \/ /\ settings.aggregate /\ t \in Aggregated
     /\ IF kernel_clock - aggregates[t].last < EbpfWindow
        THEN /\ aggregates' = [aggregates EXCEPT ![t].count = @ + 1]
             /\ UNCHANGED <<ring, counters>>
        ELSE /\ emit_event(t, aggregates[t].count + 1)
             /\ aggregates' = [aggregates EXCEPT ![t] = NoAggregate]

Allowed(t) ==
  /\ settings.pid_filter => Process[t] \in pid_allowlist
  /\ settings.tid_filter => t \in tid_allowlist

\* A thread that waited is switched in; long: its wait reaches min_wait_ns.
SwitchIn(t, long) ==
  /\ t \in live \cap runnable_since
  /\ runnable_since' = runnable_since \ {t}
  /\ \/ /\ ~long
        /\ UNCHANGED <<counters, aggregates, ring, measured>>
     \/ /\ long /\ ~Allowed(t)
        /\ counters' = [counters EXCEPT !.stale_hits = @ + 1]
        /\ UNCHANGED <<aggregates, ring, measured>>
     \/ /\ long /\ Allowed(t)
        /\ measured' = measured + 1
        /\ aggregate_or_emit(t)
  /\ UNCHANGED <<ebpfWorld, kernel_clock, pid_allowlist, tid_allowlist, begun,
                 user, seen>>

---------------------------------------------------------------------------
(***************************************************************************)
(* poll, on the scheduler-delay thread.                                    *)
(***************************************************************************)
\* An exec is only noticed through the counter, and the refresh time moves on
\* whatever the refresh achieves.
RefreshDue ==
  /\ settings.pid_filter \/ settings.tid_filter
  /\ \/ kernel_clock - memory.refresh >= EbpfRefresh
     \/ counters.exec_seen > memory.exec

\* Mutant: a refresh only adds.
ClearNothing(S) == S

\* clear_u32_map, at the beginning of a refresh.
Cleared(S) == IF RefreshDue THEN {} ELSE S

\* Reads the counters and decides on a refresh, which begins by clearing both
\* allowlists; opened: /proc could be opened.
BeginPoll(opened) ==
  /\ upc = "idle"
  /\ poll' = [now |-> kernel_clock, counters |-> counters, pending |-> 0]
  /\ settled' = {p \in Processes : InProc(p)}
  /\ memory' = [memory EXCEPT !.exec = counters.exec_seen,
                              !.refresh = IF RefreshDue THEN kernel_clock
                                          ELSE @]
  /\ pid_allowlist' = Cleared(pid_allowlist)
  /\ tid_allowlist' = Cleared(tid_allowlist)
  /\ upc' = IF RefreshDue /\ opened THEN "scan" ELSE "drain"
  /\ todo' = IF RefreshDue /\ opened THEN Processes ELSE {}
  /\ blind_at' = IF RefreshDue /\ ~opened
                 THEN [p \in Processes |-> kernel_clock] ELSE blind_at
  /\ UNCHANGED <<ebpfWorld, kernel_clock, runnable_since, aggregates, ring,
                 counters, begun, measured, found, task_todo, reported,
                 delivered, discarded, unannounced, watched_at>>

\* What the refresh fails to see of a process, it does not see until the next.
Overlook(p) == blind_at' = [blind_at EXCEPT ![p] = poll.now]

\* The next process is read, a zombie among them; known: its name was there.
ReadName(p, known) ==
  /\ upc = "scan" /\ found = 0 /\ task_todo = {} /\ p \in todo
  /\ todo' = todo \ {p}
  /\ found' = IF InProc(p) /\ (settings.pid_filter => known /\ Watched(p))
              THEN p ELSE 0
  /\ IF InProc(p) /\ ~known THEN Overlook(p) ELSE UNCHANGED blind_at
  /\ UNCHANGED <<ebpfWorld, kernel_clock, kernel, upc, task_todo, poll, memory,
                 reported, delivered, discarded, settled, unannounced,
                 watched_at>>

\* Enters it, although the process may be another by now; stored: the map,
\* whose answer nobody reads, has taken it.
Enter(stored) ==
  /\ found # 0
  /\ pid_allowlist' = IF settings.pid_filter /\ stored
                      THEN pid_allowlist \cup {found} ELSE pid_allowlist
  /\ IF stored THEN UNCHANGED blind_at ELSE Overlook(found)
  /\ task_todo' = IF settings.tid_filter THEN ThreadsOf(found) ELSE {}
  /\ found' = 0
  /\ UNCHANGED <<ebpfWorld, kernel_clock, tid_allowlist, runnable_since,
                 aggregates, ring, counters, begun, measured, upc, todo, poll,
                 memory, reported, delivered, discarded, settled, unannounced,
                 watched_at>>

\* A thread has an entry in the task directory while it lives; the first
\* thread of a process as long as the process is there.
IsTask(t) == t \in live \/ (t = Process[t] /\ InProc(t))

\* The next task is read and entered; entered: neither step has failed.
ReadTask(t, entered) ==
  /\ t \in task_todo
  /\ task_todo' = task_todo \ {t}
  /\ tid_allowlist' = IF entered /\ IsTask(t) /\ t \in NamedThreads
                      THEN tid_allowlist \cup {t} ELSE tid_allowlist
  /\ UNCHANGED <<ebpfWorld, kernel_clock, pid_allowlist, runnable_since,
                 aggregates, ring, counters, begun, measured, upc, todo, found,
                 poll, memory, reported, delivered, discarded, seen>>

EndScan ==
  /\ upc = "scan" /\ todo = {} /\ found = 0 /\ task_todo = {}
  /\ upc' = "drain"
  /\ UNCHANGED <<ebpfWorld, kernel_clock, kernel, todo, found, task_todo, poll,
                 memory, reported, delivered, discarded, seen>>

\* append_sample, for one record.  A result of 1 is no error to libbpf, which
\* goes on to the next record: what is beyond the batch is consumed and gone.
HandleEvent ==
  /\ upc = "drain" /\ ring # <<>>
  /\ ring' = Tail(ring)
  /\ IF poll.pending < BatchLimit
     THEN /\ poll' = [poll EXCEPT !.pending = @ + 1]
          /\ delivered' = delivered + Head(ring).count
          /\ UNCHANGED discarded
     ELSE /\ discarded' = discarded + Head(ring).count
          /\ UNCHANGED <<poll, delivered>>
  /\ UNCHANGED <<ebpfWorld, kernel_clock, pid_allowlist, tid_allowlist,
                 runnable_since, aggregates, counters, begun, measured, upc,
                 todo, found, task_todo, memory, reported, seen>>

\* The failures are those counted when the poll began.
EndPoll ==
  /\ upc = "drain" /\ ring = <<>>
  /\ upc' = "idle"
  /\ reported' = reported + (Total(poll.counters) - memory.total)
  /\ memory' = [memory EXCEPT !.total = Total(poll.counters)]
  /\ UNCHANGED <<ebpfWorld, kernel_clock, kernel, todo, found, task_todo, poll,
                 delivered, discarded, seen>>

---------------------------------------------------------------------------
KernelStep ==
  \/ \E p \in Processes, n \in Programs :
       Fork(p, n) \/ ExecProgram(p, n) \/ Rename(p, n)
  \/ \E p \in Processes : Reap(p)
  \/ \E t \in Threads :
       ExitThread(t) \/ SwitchOut(t) \/ \E long \in BOOLEAN : SwitchIn(t, long)

PollStep ==
  \/ \E opened \in BOOLEAN : BeginPoll(opened)
  \/ \E p \in Processes, known \in BOOLEAN : ReadName(p, known)
  \/ \E stored \in BOOLEAN : Enter(stored)
  \/ \E t \in Threads, entered \in BOOLEAN : ReadTask(t, entered)
  \/ EndScan \/ HandleEvent \/ EndPoll

EbpfNext == KernelStep \/ PollStep \/ EbpfTick

EbpfSpec == EbpfInit /\ [][EbpfNext]_ebpfVars

---------------------------------------------------------------------------
\* When a poll begins to read samples, a process with a watched name is on
\* the allowlist, unless less than a refresh ago it was forked, renamed
\* without an exec or lost a thread, or the refresh failed to see it, because
\* /proc or its name could not be read or the map did not take it: an exec is
\* never missed, although the counter is read before the scan, and the exit
\* of one thread, or one failure, hides the process for one refresh at most.
AllowlistComplete ==
  upc = "drain" /\ settings.pid_filter /\ settings.lifecycle =>
    \A p \in settled :
      Watched(p) => \/ p \in pid_allowlist
                    \/ unannounced[p] + EbpfRefresh > poll.now
                    \/ blind_at[p] + EbpfRefresh > poll.now

\* When a poll begins to read samples, a process on the allowlist has been in
\* /proc, running or not yet reaped, under a watched name less than a refresh
\* ago, even if its id was used again or it was entered after it had gone; and
\* one that execed to an unwatched program before the poll is off the list.
AllowlistCurrent ==
  upc = "drain" =>
    \A p \in pid_allowlist :
      /\ watched_at[p] + EbpfRefresh > poll.now
      /\ settings.lifecycle /\ p \in settled /\ program[p].by = "exec"
           => Watched(p)

\* The waits that passed the filters and are neither delivered nor consumed
\* beyond a batch, nor in the ring, nor in an aggregate.
Lost ==
  measured - delivered - discarded
    - FoldFunction(LAMBDA e, sum : e.count + sum, 0, ring)
    - FoldFunction(LAMBDA a, sum : a.count + sum, 0, aggregates)

\* No wait that passed the filters disappears without a drop being counted
\* or a poll filling its batch, one by one unless waits are aggregated, and
\* none is delivered twice; and every counted drop is reported once, by the
\* first poll that begins after it.
WaitsAccounted ==
  /\ LET drops == counters.ringbuf_drops + counters.aggregate_drops
     IN  /\ Lost >= drops
         /\ drops = 0 \/ ~settings.aggregate => Lost = drops
  /\ upc = "idle" => reported = Total(poll.counters)
=============================================================================
