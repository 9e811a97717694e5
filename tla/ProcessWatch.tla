---------------------------- MODULE ProcessWatch ----------------------------
(***************************************************************************)
(* The watch on whitelisted processes: the scan of /proc                   *)
(* (src/runtime/whitelisted_process_reader.cpp) and                        *)
(* Monitor::record_whitelisted_process_metrics (src/runtime/monitor.cpp),  *)
(* which keeps four maps by process id: the instance it believes runs      *)
(* there, its CPU baseline, the history of its memory and, in the rule     *)
(* engine, the context of its growth rule.                                 *)
(*                                                                         *)
(* Processes start, exec, become zombies and exit while the scan reads one *)
(* file after another, and their ids are used again.  A process is known   *)
(* by its start time.  Of a CPU or memory sample only the process it was   *)
(* taken of is kept, and of a rule context the processes it has judged:    *)
(* what the rule makes of a growth is the subject of RuleEngine.           *)
(***************************************************************************)
EXTENDS Naturals, Sequences, FiniteSets

CONSTANTS
  Pids,                  \* process ids, a set of numbers
  Names,                 \* names of programs
  sched_process_whitelist,
  process_memory_enable, \* configuration: watch the growth of memory
  metrics_scrape_collectors, \* configuration: report process metrics
  GrowthWindow,          \* process_memory_growth_window_sec
  Ttl,                   \* state_ttl_sec
  MaxStarts,             \* bound: processes started
  MaxExecs,              \* bound: calls of exec
  MaxTime                \* bound: the clock

ASSUME WatchAssumption ==
  /\ Pids \subseteq Nat \ {0}
  \* split_csv drops empty names
  /\ sched_process_whitelist \subseteq Names \ {""}
  /\ process_memory_enable \in BOOLEAN
  /\ metrics_scrape_collectors \in BOOLEAN
  /\ GrowthWindow \in Nat \ {0}
  /\ Ttl \in Nat \ {0}
ASSUME WatchBoundsAssumption ==
  MaxStarts \in Nat /\ MaxExecs \in Nat /\ MaxTime \in Nat

VARIABLES
  procs,     \* the process with each id
  starts,    \* the last start time
  execs,     \* calls of exec so far
  instances, \* process_instances_
  process_cpu_baselines, \* whose, 0 for none
  history,   \* process_memory_history_
  contexts,  \* the rule contexts by name and id: whose windows, seen when
  now,
  pc,        \* where the fast collector is
  scan,      \* the entries still to come and the result so far
  reading,   \* the locals of read_whitelisted_process_details
  vacant     \* history: the ids without a process since the scan began

world == <<procs, starts, execs, vacant>>
maps == <<instances, process_cpu_baselines, history, contexts>>
vars == <<world, maps, now, pc, scan, reading>>

Keys == Names \X Pids

StartTimes == 1..MaxStarts

NoProcess == [start |-> 0, name |-> "", renamed |-> FALSE, zombie |-> FALSE]
NoInstance == [name |-> "", start |-> 0]
NoContext == [of |-> {}, seen |-> 0]
NoReading == [pid |-> 0, name |-> "", start |-> 0]
NoScan == [todo |-> {}, samples |-> {}, uncertain |-> {}, complete |-> FALSE]

Init ==
  /\ procs = [p \in Pids |-> NoProcess]
  /\ starts = 0 /\ execs = 0
  /\ instances = [p \in Pids |-> NoInstance]
  /\ process_cpu_baselines = [p \in Pids |-> 0]
  /\ history = [p \in Pids |-> <<>>]
  /\ contexts = [k \in Keys |-> NoContext]
  /\ now = 0
  /\ pc = "idle" /\ scan = NoScan /\ reading = NoReading
  /\ vacant = {}

---------------------------------------------------------------------------
(***************************************************************************)
(* The processes.  The kernel hands out ids in turn, so an id is not used  *)
(* again between the reads of stat and status.                             *)
(***************************************************************************)
Alive(p) == procs[p].start # 0

Spawn(p, n) ==
  /\ ~Alive(p) /\ starts < MaxStarts
  /\ ~(pc = "status" /\ reading.pid = p)
  /\ starts' = starts + 1
  /\ procs' = [procs EXCEPT ![p] = [NoProcess EXCEPT !.start = starts + 1,
                                                     !.name = n]]
  /\ vacant' = vacant \ {p}
  /\ UNCHANGED <<execs, maps, now, pc, scan, reading>>

Exec(p, n) ==
  /\ Alive(p) /\ ~procs[p].zombie /\ procs[p].name # n /\ execs < MaxExecs
  /\ execs' = execs + 1
  /\ procs' = [procs EXCEPT ![p].name = n, ![p].renamed = TRUE]
  /\ UNCHANGED <<starts, vacant, maps, now, pc, scan, reading>>

\* It has exited, and its parent has not noticed yet.
BecomeZombie(p) ==
  /\ Alive(p) /\ ~procs[p].zombie
  /\ procs' = [procs EXCEPT ![p].zombie = TRUE]
  /\ UNCHANGED <<starts, execs, vacant, maps, now, pc, scan, reading>>

Exit(p) ==
  /\ Alive(p)
  /\ procs' = [procs EXCEPT ![p] = NoProcess]
  /\ UNCHANGED <<starts, execs, vacant, maps, now, pc, scan, reading>>

---------------------------------------------------------------------------
(***************************************************************************)
(* scan_whitelisted_processes.                                             *)
(***************************************************************************)
\* The time of a scan is taken once, when it begins; a collection interval
\* lies between two of them.
BeginScan ==
  /\ pc = "idle" /\ sched_process_whitelist # {}
  /\ metrics_scrape_collectors \/ process_memory_enable
  /\ now' \in (now + 1)..MaxTime
  /\ pc' = "scan"
  /\ scan' = [NoScan EXCEPT !.todo = Pids]
  /\ vacant' = {p \in Pids : ~Alive(p)}
  /\ UNCHANGED <<procs, starts, execs, maps, reading>>

\* The next entry of the directory.
Entry == CHOOSE p \in scan.todo : \A q \in scan.todo : p <= q

Uncertain(p) ==
  /\ scan' = [scan EXCEPT !.todo = @ \ {p}, !.uncertain = @ \cup {p}]
  /\ pc' = "scan" /\ reading' = NoReading
  /\ UNCHANGED <<world, maps, now>>

\* There is no such process, or its name is not on the whitelist.
SkipEntry ==
  /\ pc = "scan" /\ scan.todo # {}
  /\ Alive(Entry) => procs[Entry].name \notin sched_process_whitelist
  /\ scan' = [scan EXCEPT !.todo = @ \ {Entry}]
  /\ UNCHANGED <<world, maps, now, pc, reading>>

ReadComm ==
  /\ pc = "scan" /\ scan.todo # {}
  /\ Alive(Entry) /\ procs[Entry].name \in sched_process_whitelist
  /\ reading' = [NoReading EXCEPT !.pid = Entry, !.name = procs[Entry].name]
  /\ pc' = "stat"
  /\ UNCHANGED <<world, maps, now, scan>>

\* The entry was listed, but its comm cannot be read.
CommFails ==
  /\ pc = "scan" /\ scan.todo # {}
  /\ Uncertain(Entry)

ReadStat ==
  /\ pc = "stat" /\ Alive(reading.pid)
  /\ reading' = [reading EXCEPT !.start = procs[reading.pid].start]
  /\ pc' = "status"
  /\ UNCHANGED <<world, maps, now, scan>>

\* A zombie has no VmRSS.
ReadStatus ==
  /\ pc = "status" /\ Alive(reading.pid) /\ ~procs[reading.pid].zombie
  /\ LET s == [pid |-> reading.pid, name |-> reading.name,
               start |-> reading.start, of |-> procs[reading.pid].start]
     IN  scan' = [scan EXCEPT !.todo = @ \ {reading.pid},
                              !.samples = @ \cup {s}]
  /\ pc' = "scan" /\ reading' = NoReading
  /\ UNCHANGED <<world, maps, now>>

\* One of the files is gone, or cannot be read or parsed.
DetailsFail ==
  /\ pc \in {"stat", "status"}
  /\ Uncertain(reading.pid)

\* The iterator reaches the end of the directory, or fails.
ScanEnds(complete) ==
  /\ pc = "scan"
  /\ complete => scan.todo = {}
  /\ scan' = [scan EXCEPT !.complete = complete]
  /\ pc' = "record"
  /\ UNCHANGED <<world, maps, now, reading>>

---------------------------------------------------------------------------
(***************************************************************************)
(* record_whitelisted_process_metrics, after the scan.                     *)
(***************************************************************************)
\* Mutant: an instance is known by its name alone.
ChangedName(s) ==
  instances[s.pid] # NoInstance /\ instances[s.pid].name # s.name

\* Another process has taken the id, or the process has another program.
Changed(s) ==
  /\ instances[s.pid] # NoInstance
  /\ \/ instances[s.pid].start # s.start
     \/ instances[s.pid].name # s.name

\* Mutant: the rule forgets the new name instead of the old one.
ForgottenNew(s) == IF Changed(s) THEN {<<s.name, s.pid>>} ELSE {}

\* forget_process_memory for the instance that is no more.
Forgotten(s) ==
  IF Changed(s) THEN {<<instances[s.pid].name, s.pid>>} ELSE {}

\* The samples of the instance: the youngest that is a window old, and all
\* the younger ones.
Extended(s) ==
  LET all == Append(IF Changed(s) THEN <<>> ELSE history[s.pid],
                    [at |-> now, of |-> s.of])
      old == {i \in 2..Len(all) : now - all[i].at >= GrowthWindow}
  IN  SubSeq(all, Cardinality(old) + 1, Len(all))

GrowthKnown(h) == Len(h) > 1 /\ now - h[1].at >= GrowthWindow

\* evaluate_process_memory_growth, with the pruning of contexts not seen for
\* the TTL.
Judged(s, h, k) ==
  LET c == IF k \in Forgotten(s) THEN NoContext ELSE contexts[k]
  IN  IF ~(process_memory_enable /\ GrowthKnown(h)) THEN c
      ELSE IF k = <<s.name, s.pid>>
           THEN [of |-> c.of \cup {h[1].of, s.of}, seen |-> now]
      ELSE IF c # NoContext /\ now - c.seen >= Ttl THEN NoContext
      ELSE c

Record(s) ==
  /\ pc = "record" /\ s \in scan.samples
  /\ scan' = [scan EXCEPT !.samples = @ \ {s}, !.uncertain = @ \cup {s.pid}]
  /\ instances' = [instances EXCEPT ![s.pid] = [name |-> s.name,
                                                start |-> s.start]]
  /\ process_cpu_baselines' = [process_cpu_baselines EXCEPT ![s.pid] = s.of]
  /\ history' = IF process_memory_enable
                THEN [history EXCEPT ![s.pid] = Extended(s)]
                ELSE [history EXCEPT ![s.pid] = IF Changed(s) THEN <<>> ELSE @]
  /\ contexts' = [k \in Keys |-> Judged(s, Extended(s), k)]
  /\ UNCHANGED <<world, now, pc, reading>>

\* Mutant: an incomplete scan clears away what it has not seen.
GoneAnyway == {p \in Pids : instances[p] # NoInstance} \ scan.uncertain

\* Mutant: nothing is cleared away as long as any process is uncertain.
GoneIfCertain ==
  IF scan.complete /\ scan.uncertain = {}
  THEN {p \in Pids : instances[p] # NoInstance}
  ELSE {}

\* The instances a complete scan has neither seen nor been uncertain about.
\* The ids of recorded samples have joined the uncertain ones in live_pids.
Gone ==
  IF scan.complete
  THEN {p \in Pids : instances[p] # NoInstance} \ scan.uncertain
  ELSE {}

Sweep ==
  /\ pc = "record" /\ scan.samples = {}
  /\ contexts' = [k \in Keys |->
       IF k[2] \in Gone /\ k[1] = instances[k[2]].name THEN NoContext
       ELSE contexts[k]]
  /\ instances' = [p \in Pids |-> IF p \in Gone THEN NoInstance
                                  ELSE instances[p]]
  /\ process_cpu_baselines' =
       [p \in Pids |-> IF p \in Gone THEN 0 ELSE process_cpu_baselines[p]]
  /\ history' = [p \in Pids |-> IF p \in Gone THEN <<>> ELSE history[p]]
  /\ scan' = NoScan /\ vacant' = {}
  /\ pc' = "idle"
  /\ UNCHANGED <<procs, starts, execs, now, reading>>

Next ==
  \/ \E p \in Pids, n \in Names : Spawn(p, n) \/ Exec(p, n)
  \/ \E p \in Pids : BecomeZombie(p) \/ Exit(p)
  \/ BeginScan \/ SkipEntry \/ ReadComm \/ CommFails
  \/ ReadStat \/ ReadStatus \/ DetailsFail
  \/ \E complete \in BOOLEAN : ScanEnds(complete)
  \/ \E s \in scan.samples : Record(s)
  \/ Sweep

Spec == Init /\ [][Next]_vars

---------------------------------------------------------------------------
NamesOrNone == Names \cup {""}

TypeOK ==
  /\ procs \in [Pids -> [start : 0..MaxStarts, name : NamesOrNone,
                         renamed : BOOLEAN, zombie : BOOLEAN]]
  /\ starts \in 0..MaxStarts /\ execs \in 0..MaxExecs
  /\ instances \in [Pids -> [name : NamesOrNone, start : 0..MaxStarts]]
  /\ process_cpu_baselines \in [Pids -> 0..MaxStarts]
  /\ history \in [Pids -> Seq([at : 1..now, of : StartTimes])]
  /\ contexts \in [Keys -> [of : SUBSET StartTimes, seen : 0..now]]
  /\ now \in 0..MaxTime
  /\ pc \in {"idle", "scan", "stat", "status", "record"}
  /\ scan \in [todo : SUBSET Pids,
               samples : SUBSET [pid : Pids, name : Names, start : StartTimes,
                                 of : StartTimes],
               uncertain : SUBSET Pids, complete : BOOLEAN]
  /\ reading \in [pid : Pids \cup {0}, name : NamesOrNone,
                  start : 0..MaxStarts]
  /\ vacant \subseteq Pids

\* What the monitor keeps under a process id was measured of one process: a
\* process that takes over the id inherits no CPU baseline, no memory history
\* and no alert, whatever happens between the reads of a scan and whichever
\* scans stay incomplete.
OneProcess ==
  \A p \in Pids :
    /\ process_cpu_baselines[p] \in {0, instances[p].start}
    /\ \A i \in DOMAIN history[p] : history[p][i].of = instances[p].start
    /\ \A n \in Names : contexts[<<n, p>>].of \subseteq {instances[p].start}

\* Nothing is left behind in one map when it is dropped from another: a rule
\* context, a baseline or a history belongs to an instance of that name.
NoOrphans ==
  \A p \in Pids :
    /\ process_cpu_baselines[p] # 0 \/ history[p] # <<>> =>
         instances[p] # NoInstance
    /\ \A n \in Names :
         contexts[<<n, p>>] # NoContext => instances[p].name = n

\* A process that runs on under its name is never forgotten: neither a file
\* of it that could not be read nor a scan that broke off costs it its
\* history.
KeptWhileAlive ==
  [][\A p \in Pids :
       /\ instances[p] # NoInstance /\ instances[p].start = procs[p].start
       /\ instances[p].name = procs[p].name /\ ~procs[p].renamed
       => instances'[p] = instances[p]
            /\ (history[p] # <<>> => history'[p] # <<>>)]_vars

\* A process that was gone when a complete scan began, and whose id was not
\* taken since, has left nothing behind when the scan ends, however many
\* other entries the scan was uncertain about.
GoneIsForgotten ==
  [][pc' = "idle" /\ pc = "record" /\ scan.complete
       => \A p \in vacant \ scan.uncertain :
            /\ instances'[p] = NoInstance /\ history'[p] = <<>>
            /\ \A n \in Names : contexts'[<<n, p>>] = NoContext]_vars
=============================================================================
