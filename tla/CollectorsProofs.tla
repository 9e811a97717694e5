--------------------------- MODULE CollectorsProofs ---------------------------
(***************************************************************************)
(* Proofs about the collectors, for any processes, threads, names, targets *)
(* and widths of a counter, and any number of passes, polls and failures.  *)
(*                                                                         *)
(* What the maps of the process watch hold under an id belongs to one      *)
(* process because a sample does (SampleInv), and because an instance is   *)
(* never younger than what is being read (ReadingInv and FaithfulInv).     *)
(* A difference of counters is a real one because they are compared first  *)
(* (BaselineInv), and failures are announced in time because the time of   *)
(* the last event is set whenever one is tried (ReportInv).                *)
(* A pass of the collector of /proc leaves nothing unread because a cached *)
(* name older than the last change of the thread is never used (NamesInv,  *)
(* ReadInv), and its baselines are young because the pass began by         *)
(* dropping the others (YoungInv).  The allowlists of the kernel programs  *)
(* are right by what is pending: an exec, an entry to visit or a refresh   *)
(* (PollInv, CurrentInv, CompleteInv), and the waits by adding up where    *)
(* they are (CountInv).                                                    *)
(***************************************************************************)
EXTENDS ProcessWatch, UsageCollectors, SchedDelay, EbpfSchedDelay, SumLemmas,
        FiniteSetTheorems, SequenceTheorems, WellFoundedInduction, TLAPS

(***************************************************************************)
(* The watch on the whitelisted processes.                                 *)
(***************************************************************************)
InstanceInv ==
  \A p \in Pids :
    /\ procs[p].start <= starts /\ instances[p].start <= starts
    /\ instances[p] # NoInstance =>
         instances[p].name \in sched_process_whitelist /\ instances[p].start # 0

\* The samples of a scan: one for an id, each of one process.
SampleInv ==
  /\ \A s \in scan.samples :
       /\ s.start = s.of /\ s.pid \notin scan.todo
       /\ s.name \in sched_process_whitelist /\ s.start <= starts
  /\ \A s, t \in scan.samples : s.pid = t.pid => s = t
  /\ pc # "idle" => now >= 1
  /\ pc = "record" /\ scan.complete => scan.todo = {}

\* What has been read of an entry; its id is not used again for long enough.
ReadingInv ==
  pc \in {"stat", "status"} =>
    /\ reading.pid \in scan.todo /\ reading.name \in sched_process_whitelist
    /\ reading.start <= starts
    /\ pc = "status" =>
         /\ reading.start # 0
         /\ Alive(reading.pid) => procs[reading.pid].start = reading.start

\* The monitor knows the process, which has not changed its name.
Known(p) ==
  /\ Alive(p) /\ ~procs[p].renamed
  /\ instances[p].start = procs[p].start

\* What is read of such a process is true.
FaithfulInv ==
  \A p \in Pids : Known(p) =>
    /\ \A s \in scan.samples :
         s.pid = p => s.start = procs[p].start /\ s.name = procs[p].name
    /\ pc \in {"stat", "status"} /\ reading.pid = p =>
         reading.name = procs[p].name

\* The scan meets it, unless it has been uncertain about it.
SeenInv ==
  \A p \in Pids :
    Known(p) /\ instances[p].name = procs[p].name /\ pc # "idle" =>
      \/ p \in scan.todo \cup scan.uncertain
      \/ \E s \in scan.samples : s.pid = p

\* The rule judges processes on the whitelist only.
ContextInv ==
  \A n \in Names, p \in Pids :
    contexts[<<n, p>>] # NoContext => n \in sched_process_whitelist

IInv ==
  /\ TypeOK /\ ContextInv /\ InstanceInv /\ SampleInv /\ ReadingInv
  /\ FaithfulInv /\ SeenInv
  /\ OneProcess /\ NoOrphans

---------------------------------------------------------------------------
(***************************************************************************)
(* The shape of the steps.                                                 *)
(***************************************************************************)
\* The names of programs, and those on the whitelist.
LEMMA NameFacts ==
  /\ \A n \in sched_process_whitelist : n \in Names /\ n # ""
  /\ \A n \in Names : n \in NamesOrNone
  /\ "" \in NamesOrNone
BY WatchAssumption DEF NamesOrNone

\* The bounds are natural numbers.
LEMMA Bounds ==
  /\ MaxStarts \in Nat /\ MaxExecs \in Nat /\ MaxTime \in Nat
  /\ 0 \in 0..MaxStarts /\ 0 \in 0..MaxExecs /\ 0 \in 0..MaxTime
BY WatchBoundsAssumption

\* A scan and what is being read, field by field.
LEMMA ScanFields ==
  ASSUME TypeOK
  PROVE  /\ scan = [todo |-> scan.todo, samples |-> scan.samples,
                    uncertain |-> scan.uncertain, complete |-> scan.complete]
         /\ scan.todo \subseteq Pids /\ scan.uncertain \subseteq Pids
         /\ scan.complete \in BOOLEAN
         /\ \A s \in scan.samples :
              /\ s \in [pid : Pids, name : Names, start : StartTimes,
                        of : StartTimes]
              /\ s.pid \in Pids /\ s.name \in Names
              /\ s.start \in StartTimes /\ s.of \in StartTimes
         /\ reading = [pid |-> reading.pid, name |-> reading.name,
                       start |-> reading.start]
         /\ starts \in Nat /\ now \in Nat /\ reading.start \in Nat
         /\ \A p \in Pids : /\ procs[p].start \in Nat
                            /\ instances[p].start \in Nat
                            /\ instances[p].name \in NamesOrNone
<1>1. /\ scan = [todo |-> scan.todo, samples |-> scan.samples,
                 uncertain |-> scan.uncertain, complete |-> scan.complete]
      /\ scan.todo \subseteq Pids /\ scan.uncertain \subseteq Pids
      /\ scan.complete \in BOOLEAN
      /\ scan.samples \subseteq [pid : Pids, name : Names, start : StartTimes,
                                 of : StartTimes]
  BY DEF TypeOK
<1>2. /\ reading = [pid |-> reading.pid, name |-> reading.name,
                    start |-> reading.start]
      /\ reading.start \in Nat
  BY WatchBoundsAssumption DEF TypeOK
<1>3. starts \in Nat /\ now \in Nat
  BY WatchBoundsAssumption DEF TypeOK
<1>4. \A p \in Pids : /\ procs[p].start \in Nat
                      /\ instances[p].start \in Nat
                      /\ instances[p].name \in NamesOrNone
  BY WatchBoundsAssumption DEF TypeOK
<1> QED BY <1>1, <1>2, <1>3, <1>4


\* The next entry is one that is still to come.
LEMMA EntryInTodo ==
  ASSUME TypeOK, scan.todo # {}
  PROVE  Entry \in scan.todo /\ Entry \in Pids
<1>1. scan.todo \subseteq Pids
  BY DEF TypeOK
<1>2. \E p \in scan.todo : \A q \in scan.todo : p <= q
  BY <1>1, WatchAssumption, Smallest
<1> QED BY <1>1, <1>2 DEF Entry

\* Something happens to a process.
WorldStep(p) ==
  BecomeZombie(p) \/ Exit(p) \/ \E n \in Names : Spawn(p, n) \/ Exec(p, n)

\* A process appears with a start time of its own, keeps its start time and
\* its name, or is another one from then on.
LEMMA WorldShape ==
  ASSUME TypeOK, NEW p \in Pids, WorldStep(p)
  PROVE  /\ UNCHANGED <<maps, now, pc, scan, reading>>
         /\ \A q \in Pids : q # p => procs'[q] = procs[q]
         /\ \/ procs'[p].start = 0 /\ starts' = starts
            \/ /\ procs'[p].start = starts + 1 /\ starts' = starts + 1
               /\ ~(pc = "status" /\ reading.pid = p)
            \/ /\ procs'[p].start = procs[p].start /\ starts' = starts
               /\ \/ procs'[p].renamed
                  \/ /\ procs'[p].renamed = procs[p].renamed
                     /\ procs'[p].name = procs[p].name
<1>1. procs[p] = [start |-> procs[p].start, name |-> procs[p].name,
                  renamed |-> procs[p].renamed, zombie |-> procs[p].zombie]
  BY DEF TypeOK
<1>2. procs \in [Pids -> [start : 0..MaxStarts, name : NamesOrNone,
                          renamed : BOOLEAN, zombie : BOOLEAN]]
  BY DEF TypeOK
<1>3. CASE BecomeZombie(p)
  BY <1>1, <1>2, <1>3 DEF BecomeZombie
<1>4. CASE Exit(p)
  BY <1>2, <1>4 DEF Exit, NoProcess
<1>5. ASSUME NEW n \in Names, Spawn(p, n)
      PROVE  /\ procs'[p].start = starts + 1
             /\ \A q \in Pids : q # p => procs'[q] = procs[q]
  BY <1>2, <1>5 DEF Spawn, NoProcess
<1>6. ASSUME NEW n \in Names, Exec(p, n)
      PROVE  /\ procs'[p].start = procs[p].start /\ procs'[p].renamed
             /\ \A q \in Pids : q # p => procs'[q] = procs[q]
  BY <1>1, <1>2, <1>6 DEF Exec
<1> QED
  BY <1>3, <1>4, <1>5, <1>6 DEF WorldStep, BecomeZombie, Exit, Spawn, Exec

---------------------------------------------------------------------------
(***************************************************************************)
(* Types.                                                                  *)
(***************************************************************************)
\* At first every variable has its type.
LEMMA InitTypeOK == Init => TypeOK
<1> SUFFICES ASSUME Init PROVE TypeOK
  OBVIOUS
<1>1. procs \in [Pids -> [start : 0..MaxStarts, name : NamesOrNone,
                          renamed : BOOLEAN, zombie : BOOLEAN]]
  BY Bounds, NameFacts DEF Init, NoProcess
<1>2. instances \in [Pids -> [name : NamesOrNone, start : 0..MaxStarts]]
  BY Bounds, NameFacts DEF Init, NoInstance
<1>3. contexts \in [Keys -> [of : SUBSET StartTimes, seen : 0..now]]
  <2>1. 0 \in 0..now
    BY Bounds DEF Init
  <2>2. NoContext \in [of : SUBSET StartTimes, seen : 0..now]
    BY <2>1 DEF NoContext
  <2> QED BY <2>2 DEF Init
<1>4. /\ scan \in [todo : SUBSET Pids,
                   samples : SUBSET [pid : Pids, name : Names,
                                     start : StartTimes, of : StartTimes],
                   uncertain : SUBSET Pids, complete : BOOLEAN]
      /\ reading \in [pid : Pids \cup {0}, name : NamesOrNone,
                      start : 0..MaxStarts]
  BY Bounds, NameFacts DEF Init, NoScan, NoReading
<1>5. history \in [Pids -> Seq([at : 1..now, of : StartTimes])]
  <2>1. << >> \in Seq([at : 1..now, of : StartTimes])
    BY EmptySeq
  <2> QED BY <2>1 DEF Init
<1>6. process_cpu_baselines \in [Pids -> 0..MaxStarts]
  BY Bounds DEF Init
<1>7. /\ starts \in 0..MaxStarts /\ execs \in 0..MaxExecs
      /\ now \in 0..MaxTime /\ vacant \subseteq Pids
      /\ pc \in {"idle", "scan", "stat", "status", "record"}
  BY Bounds DEF Init
<1> QED BY <1>1, <1>2, <1>3, <1>4, <1>5, <1>6, <1>7 DEF TypeOK

\* What happens to processes keeps the types,
LEMMA WorldTypeOK ==
  ASSUME TypeOK, NEW p \in Pids, WorldStep(p)
  PROVE  TypeOK'
<1> DEFINE ProcType == [start : 0..MaxStarts, name : NamesOrNone,
                        renamed : BOOLEAN, zombie : BOOLEAN]
<1>1. procs \in [Pids -> ProcType] /\ starts \in 0..MaxStarts
      /\ execs \in 0..MaxExecs /\ vacant \subseteq Pids
  BY DEF TypeOK
<1>2. procs[p] = [start |-> procs[p].start, name |-> procs[p].name,
                  renamed |-> procs[p].renamed, zombie |-> procs[p].zombie]
  BY DEF TypeOK
<1>3. /\ procs' \in [Pids -> ProcType] /\ starts' \in 0..MaxStarts
      /\ execs' \in 0..MaxExecs /\ vacant' \subseteq Pids
  <2>1. CASE BecomeZombie(p)
    BY <1>1, <1>2, <2>1 DEF BecomeZombie
  <2>2. CASE Exit(p)
    BY <1>1, <2>2, Bounds, NameFacts DEF Exit, NoProcess
  <2>3. ASSUME NEW n \in Names, Spawn(p, n)
        PROVE  /\ procs' \in [Pids -> ProcType] /\ starts' \in 0..MaxStarts
               /\ execs' \in 0..MaxExecs /\ vacant' \subseteq Pids
    <3>1. starts + 1 \in 0..MaxStarts
      BY <1>1, <2>3, Bounds DEF Spawn
    <3>2. [NoProcess EXCEPT !.start = starts + 1, !.name = n] \in ProcType
      BY <3>1, NameFacts DEF NoProcess
    <3> HIDE DEF ProcType
    <3> QED BY <1>1, <2>3, <3>1, <3>2 DEF Spawn
  <2>4. ASSUME NEW n \in Names, Exec(p, n)
        PROVE  /\ procs' \in [Pids -> ProcType] /\ starts' \in 0..MaxStarts
               /\ execs' \in 0..MaxExecs /\ vacant' \subseteq Pids
    <3>1. execs + 1 \in 0..MaxExecs
      BY <1>1, <2>4, Bounds DEF Exec
    <3>2. [procs[p] EXCEPT !.name = n, !.renamed = TRUE] \in ProcType
      BY <1>1, NameFacts
    <3>3. procs' = [procs EXCEPT ![p] =
                      [procs[p] EXCEPT !.name = n, !.renamed = TRUE]]
      BY <1>1, <2>4 DEF Exec
    <3> HIDE DEF ProcType
    <3> QED BY <1>1, <2>4, <3>1, <3>2, <3>3 DEF Exec
  <2> QED BY <2>1, <2>2, <2>3, <2>4 DEF WorldStep
<1> QED BY <1>3, WorldShape DEF TypeOK, maps

\* A step of the scan that leaves the maps alone.
ScanStep ==
  \/ BeginScan \/ SkipEntry \/ ReadComm \/ CommFails \/ ReadStat
  \/ ReadStatus \/ DetailsFail \/ \E complete \in BOOLEAN : ScanEnds(complete)

\* Every step of the scan keeps the types.
LEMMA ScanTypeOK ==
  ASSUME TypeOK, ReadingInv, ScanStep
  PROVE  TypeOK'
<1> DEFINE ScanType ==
             [todo : SUBSET Pids,
              samples : SUBSET [pid : Pids, name : Names, start : StartTimes,
                                of : StartTimes],
              uncertain : SUBSET Pids, complete : BOOLEAN]
           ReadingType == [pid : Pids \cup {0}, name : NamesOrNone,
                           start : 0..MaxStarts]
<1>0. scan \in ScanType /\ reading \in ReadingType /\ now \in 0..MaxTime
      /\ procs \in [Pids -> [start : 0..MaxStarts, name : NamesOrNone,
                             renamed : BOOLEAN, zombie : BOOLEAN]]
  BY DEF TypeOK
<1>1. CASE BeginScan
  <2>1. now' \in 0..MaxTime /\ now <= now'
    BY <1>0, <1>1, WatchBoundsAssumption DEF BeginScan
  <2>2. scan' \in ScanType
    BY <1>1 DEF BeginScan, NoScan
  <2>3. history' \in [Pids -> Seq([at : 1..now', of : StartTimes])]
    <3>1. [at : 1..now, of : StartTimes]
            \subseteq [at : 1..now', of : StartTimes]
      <4>1. \A t \in 1..now : t \in 1..now'
        BY <1>0, <2>1, WatchBoundsAssumption
      <4> QED BY <4>1
    <3>2. history' = history
      BY <1>1 DEF BeginScan, maps
    <3>3. \A p \in Pids : history[p] \in Seq([at : 1..now', of : StartTimes])
      <4>1. \A p \in Pids : history[p] \in Seq([at : 1..now, of : StartTimes])
        BY DEF TypeOK
      <4> QED BY <3>1, <4>1, SeqMonotonic
    <3> QED BY <3>2, <3>3 DEF TypeOK
  <2>4. contexts' \in [Keys -> [of : SUBSET StartTimes, seen : 0..now']]
    <3>1. \A c \in [of : SUBSET StartTimes, seen : 0..now] :
            c \in [of : SUBSET StartTimes, seen : 0..now']
      <4>1. \A t \in 0..now : t \in 0..now'
        BY <1>0, <2>1, WatchBoundsAssumption
      <4> QED BY <4>1
    <3> QED BY <1>1, <3>1 DEF BeginScan, maps, TypeOK
  <2> QED BY <1>1, <2>1, <2>2, <2>3, <2>4 DEF BeginScan, TypeOK, maps
<1>2. ASSUME ScanStep, ~BeginScan,
             pc' \in {"idle", "scan", "stat", "status", "record"},
             scan' \in ScanType, reading' \in ReadingType
      PROVE  TypeOK'
  BY <1>2
  DEF ScanStep, SkipEntry, ReadComm, CommFails, ReadStat, ReadStatus,
      DetailsFail, Uncertain, ScanEnds, TypeOK, world, maps
<1>3. CASE SkipEntry
  BY <1>0, <1>2, <1>3 DEF SkipEntry, ScanStep, TypeOK, BeginScan
<1>4. CASE ReadComm
  BY <1>0, <1>2, <1>4, EntryInTodo, Bounds, NameFacts
  DEF ReadComm, ScanStep, BeginScan, NoReading
<1>5. CASE CommFails
  BY <1>0, <1>2, <1>5, EntryInTodo, Bounds, NameFacts
  DEF CommFails, Uncertain, ScanStep, BeginScan, NoReading
<1>6. CASE ReadStat
  <2>1. reading.pid \in Pids
    BY <1>0, <1>6 DEF ReadStat, ReadingInv
  <2> QED BY <1>0, <1>2, <1>6, <2>1 DEF ReadStat, ScanStep, BeginScan
<1>7. CASE ReadStatus
  <2>1. /\ reading.pid \in Pids /\ reading.name \in Names
        /\ reading.start \in StartTimes
        /\ procs[reading.pid].start = reading.start
    <3>1. /\ reading.pid \in scan.todo /\ reading.start # 0
          /\ reading.name \in sched_process_whitelist
          /\ procs[reading.pid].start = reading.start
      BY <1>7 DEF ReadStatus, ReadingInv
    <3>2. reading.start \in 0..MaxStarts /\ scan.todo \subseteq Pids
      BY <1>0
    <3>3. reading.start \in 1..MaxStarts
      BY <3>1, <3>2, WatchBoundsAssumption
    <3> QED BY <3>1, <3>2, <3>3, NameFacts DEF StartTimes
  <2>2. [pid |-> reading.pid, name |-> reading.name, start |-> reading.start,
         of |-> procs[reading.pid].start]
          \in [pid : Pids, name : Names, start : StartTimes, of : StartTimes]
    BY <2>1
  <2>3. scan' \in ScanType
    BY <1>0, <1>7, <2>2 DEF ReadStatus
  <2>4. reading' \in ReadingType
    BY <1>7, Bounds, NameFacts DEF ReadStatus, NoReading
  <2>5. pc' = "scan"
    BY <1>7 DEF ReadStatus
  <2> HIDE DEF ScanType, ReadingType
  <2> QED BY <1>2, <1>7, <2>3, <2>4, <2>5 DEF ReadStatus, ScanStep, BeginScan
<1>8. CASE DetailsFail
  <2>1. reading.pid \in Pids
    BY <1>0, <1>8 DEF DetailsFail, ReadingInv
  <2> QED
    BY <1>0, <1>2, <1>8, <2>1, Bounds, NameFacts
    DEF DetailsFail, Uncertain, ScanStep, BeginScan, NoReading
<1>9. ASSUME NEW complete \in BOOLEAN, ScanEnds(complete) PROVE TypeOK'
  BY <1>0, <1>2, <1>9 DEF ScanEnds, ScanStep, BeginScan
<1> QED BY <1>1, <1>3, <1>4, <1>5, <1>6, <1>7, <1>8, <1>9 DEF ScanStep

\* The samples kept of an instance: never none, each of them one that was kept
\* before or the new one, and none from before if the instance has changed.
LEMMA ExtendedFacts ==
  ASSUME TypeOK, now >= 1, NEW s \in scan.samples
  PROVE  /\ Extended(s) \in Seq([at : 1..now, of : StartTimes])
         /\ Len(Extended(s)) >= 1 /\ Extended(s) # << >>
         /\ \A i \in 1..Len(Extended(s)) :
              \/ Extended(s)[i].of = s.of
              \/ /\ ~Changed(s)
                 /\ \E j \in 1..Len(history[s.pid]) :
                      Extended(s)[i].of = history[s.pid][j].of
<1> DEFINE Moment == [at : 1..now, of : StartTimes]
           kept == IF Changed(s) THEN << >> ELSE history[s.pid]
           e == [at |-> now, of |-> s.of]
           all == Append(kept, e)
           old == {i \in 2..Len(all) : now - all[i].at >= GrowthWindow}
           c == Cardinality(old)
<1>1. s.pid \in Pids /\ s.of \in StartTimes /\ now \in Nat
  BY ScanFields
<1>2. kept \in Seq(Moment)
  <2>1. history[s.pid] \in Seq(Moment)
    BY <1>1 DEF TypeOK
  <2> QED BY <2>1, EmptySeq
<1>3. e \in Moment
  <2>1. now \in 1..now
    BY <1>1
  <2> QED BY <1>1, <2>1
<1>4. /\ all \in Seq(Moment) /\ Len(all) = Len(kept) + 1
      /\ \A i \in 1..Len(kept) : all[i] = kept[i]
      /\ all[Len(kept) + 1] = e
  <2> HIDE DEF kept, e, Moment
  <2> QED BY <1>2, <1>3, AppendProperties
<1>5. Len(kept) \in Nat /\ Len(all) \in Nat
  BY <1>2, <1>4, LenProperties
<1>6. c \in Nat /\ c + 1 <= Len(all)
  <2>1. IsFiniteSet(2..Len(all)) /\ Cardinality(2..Len(all)) <= Len(kept)
    <3> HIDE DEF all, kept
    <3>1. Len(all) \in Int /\ 2 \in Int
      BY <1>5
    <3>2. /\ IsFiniteSet(2..Len(all))
          /\ Cardinality(2..Len(all)) =
               IF 2 > Len(all) THEN 0 ELSE Len(all) - 2 + 1
      BY <3>1, FS_Interval
    <3> QED BY <1>4, <1>5, <3>2
  <2>2. old \in SUBSET (2..Len(all))
    OBVIOUS
  <2> HIDE DEF old, all, kept
  <2>3. IsFiniteSet(old) /\ c <= Cardinality(2..Len(all))
    BY <2>1, <2>2, FS_Subset
  <2>4. c \in Nat /\ Cardinality(2..Len(all)) \in Nat
    BY <2>1, <2>3, FS_CardinalityType
  <2> HIDE DEF c
  <2> QED BY <1>4, <1>5, <2>1, <2>3, <2>4
<1>7. Extended(s) = SubSeq(all, c + 1, Len(all))
  BY DEF Extended
<1> HIDE DEF c, old
<1>8. \A i \in (c + 1)..Len(all) : all[i] \in Moment
  <2>1. \A i \in (c + 1)..Len(all) : i \in 1..Len(all)
    <3> HIDE DEF all, kept
    <3> QED BY <1>5, <1>6
  <2> HIDE DEF all, kept, Moment
  <2> QED BY <1>4, <2>1, ElementOfSeq
<1>9. /\ Extended(s) \in Seq(Moment)
      /\ Len(Extended(s)) = Len(all) - (c + 1) + 1
      /\ \A i \in 1..(Len(all) - (c + 1) + 1) :
           Extended(s)[i] = all[(c + 1) + i - 1]
  <2>1. c + 1 \in Int /\ Len(all) \in Int /\ c + 1 <= Len(all)
    <3> HIDE DEF all, kept
    <3> QED BY <1>5, <1>6
  <2> HIDE DEF all, Moment
  <2> QED BY <1>7, <1>8, <2>1, SubSeqProperties
<1>10. Len(Extended(s)) >= 1 /\ Len(Extended(s)) # 0
  <2> HIDE DEF all, kept
  <2> QED BY <1>5, <1>6, <1>9
<1>11. Extended(s) # << >>
  BY <1>10, EmptySeq
<1>12. ASSUME NEW i \in 1..Len(Extended(s))
       PROVE  \/ Extended(s)[i].of = s.of
              \/ /\ ~Changed(s)
                 /\ \E j \in 1..Len(history[s.pid]) :
                      Extended(s)[i].of = history[s.pid][j].of
  <2>1. PICK j \in 1..Len(all) : Extended(s)[i] = all[j]
    <3>1. (c + 1) + i - 1 \in 1..Len(all)
          /\ i \in 1..(Len(all) - (c + 1) + 1)
      <4> HIDE DEF all, kept
      <4> QED BY <1>5, <1>6, <1>9
    <3> HIDE DEF all, kept
    <3> QED BY <1>9, <3>1
  <2>2. j = Len(kept) + 1 \/ j \in 1..Len(kept)
    <3> HIDE DEF all, kept
    <3> QED BY <1>4, <1>5
  <2>3. CASE j = Len(kept) + 1
    <3>1. Extended(s)[i] = e
      <4> HIDE DEF all, kept, e
      <4> QED BY <1>4, <2>1, <2>3
    <3> QED BY <3>1
  <2>4. CASE j \in 1..Len(kept)
    <3>1. Extended(s)[i] = kept[j]
      <4> HIDE DEF all, kept
      <4> QED BY <1>4, <2>1, <2>4
    <3>2. ~Changed(s)
      BY <2>4, EmptySeq
    <3> QED BY <2>4, <3>1, <3>2
  <2> QED BY <2>2, <2>3, <2>4
<1> QED BY <1>9, <1>10, <1>11, <1>12

\* What the rule makes of a context: nothing is left of it, nothing happens to
\* it, or the sample is judged, with the context the name has not lost.
LEMMA JudgedFacts ==
  ASSUME NEW s, NEW h, NEW k
  PROVE  \/ Judged(s, h, k) = NoContext
         \/ Judged(s, h, k) = contexts[k] /\ k \notin Forgotten(s)
         \/ /\ k = <<s.name, s.pid>> /\ GrowthKnown(h)
            /\ \/ /\ k \notin Forgotten(s)
                  /\ Judged(s, h, k) = [of |-> contexts[k].of
                                                 \cup {h[1].of, s.of},
                                        seen |-> now]
               \/ Judged(s, h, k) = [of |-> NoContext.of \cup {h[1].of, s.of},
                                     seen |-> now]
BY DEF Judged

\* Recording a sample keeps the types,
LEMMA RecordTypeOK ==
  ASSUME TypeOK, now >= 1, NEW s \in scan.samples, Record(s)
  PROVE  TypeOK'
<1>1. /\ s.pid \in Pids /\ s.name \in Names /\ s.start \in StartTimes
      /\ s.of \in StartTimes /\ now \in Nat
  BY ScanFields
<1>2. s.start \in 0..MaxStarts /\ s.of \in 0..MaxStarts
      /\ s.name \in NamesOrNone
  <2>1. \A t \in 1..MaxStarts : t \in 0..MaxStarts
    BY WatchBoundsAssumption
  <2> QED BY <1>1, <2>1, NameFacts DEF StartTimes
<1>3. instances' \in [Pids -> [name : NamesOrNone, start : 0..MaxStarts]]
  BY <1>1, <1>2 DEF Record, TypeOK
<1>4. process_cpu_baselines' \in [Pids -> 0..MaxStarts]
  BY <1>1, <1>2 DEF Record, TypeOK
<1>5. history' \in [Pids -> Seq([at : 1..now', of : StartTimes])]
  <2> DEFINE Moments == Seq([at : 1..now, of : StartTimes])
  <2>1. history \in [Pids -> Moments] /\ now' = now
    BY DEF TypeOK, Record
  <2>2. Extended(s) \in Moments /\ << >> \in Moments
    BY ExtendedFacts, EmptySeq
  <2> HIDE DEF Moments
  <2>3. history' \in [Pids -> Moments]
    BY <1>1, <2>1, <2>2 DEF Record
  <2> QED BY <2>1, <2>3 DEF Moments
<1>6. contexts' \in [Keys -> [of : SUBSET StartTimes, seen : 0..now']]
  <2> DEFINE Context == [of : SUBSET StartTimes, seen : 0..now]
  <2>1. contexts \in [Keys -> Context]
    BY DEF TypeOK
  <2>2. now \in 0..now /\ 0 \in 0..now
    BY <1>1
  <2>3. NoContext \in Context
    BY <2>2 DEF NoContext
  <2>4. Extended(s)[1].of \in StartTimes
    <3>1. Extended(s) \in Seq([at : 1..now, of : StartTimes])
          /\ Len(Extended(s)) >= 1
      BY ExtendedFacts
    <3> HIDE DEF Context
    <3>2. Len(Extended(s)) \in Nat
      BY <3>1, LenProperties
    <3>3. 1 \in 1..Len(Extended(s))
      BY <3>1, <3>2
    <3>4. Extended(s)[1] \in [at : 1..now, of : StartTimes]
      BY <3>1, <3>3, ElementOfSeq
    <3> QED BY <3>4
  <2>5. ASSUME NEW k \in Keys PROVE Judged(s, Extended(s), k) \in Context
    <3>1. contexts[k] \in Context
      BY <2>1
    <3>2. contexts[k].of \subseteq StartTimes
          /\ NoContext.of \subseteq StartTimes
      BY <2>3, <3>1
    <3>3. /\ [of |-> contexts[k].of \cup {Extended(s)[1].of, s.of},
              seen |-> now] \in Context
          /\ [of |-> NoContext.of \cup {Extended(s)[1].of, s.of},
              seen |-> now] \in Context
      BY <1>1, <2>2, <2>4, <3>2
    <3> HIDE DEF Context
    <3> QED BY <2>3, <3>1, <3>3, JudgedFacts
  <2>6. contexts' = [k \in Keys |-> Judged(s, Extended(s), k)] /\ now' = now
    BY DEF Record
  <2> HIDE DEF Context
  <2>7. contexts' \in [Keys -> Context]
    BY <2>5, <2>6
  <2> QED BY <2>6, <2>7 DEF Context
<1>7. scan' \in [todo : SUBSET Pids,
                 samples : SUBSET [pid : Pids, name : Names,
                                   start : StartTimes, of : StartTimes],
                 uncertain : SUBSET Pids, complete : BOOLEAN]
  BY <1>1 DEF Record, TypeOK
<1> QED
  BY <1>3, <1>4, <1>5, <1>6, <1>7 DEF Record, TypeOK, world

\* and so does clearing away.
LEMMA SweepTypeOK ==
  ASSUME TypeOK, Sweep
  PROVE  TypeOK'
<1>1. /\ instances' \in [Pids -> [name : NamesOrNone, start : 0..MaxStarts]]
      /\ process_cpu_baselines' \in [Pids -> 0..MaxStarts]
  BY Bounds, NameFacts DEF Sweep, TypeOK, NoInstance
<1>2. history' \in [Pids -> Seq([at : 1..now', of : StartTimes])]
  <2> DEFINE Moments == Seq([at : 1..now, of : StartTimes])
  <2>1. history \in [Pids -> Moments] /\ now' = now
    BY DEF TypeOK, Sweep
  <2>2. << >> \in Moments
    BY EmptySeq
  <2> HIDE DEF Moments
  <2>3. history' \in [Pids -> Moments]
    BY <2>1, <2>2 DEF Sweep
  <2> QED BY <2>1, <2>3 DEF Moments
<1>3. contexts' \in [Keys -> [of : SUBSET StartTimes, seen : 0..now']]
  <2> DEFINE Context == [of : SUBSET StartTimes, seen : 0..now]
  <2>1. contexts \in [Keys -> Context] /\ now' = now
    BY DEF TypeOK, Sweep
  <2>2. NoContext \in Context
    <3>1. 0 \in 0..now
      BY ScanFields
    <3> QED BY <3>1 DEF NoContext
  <2> HIDE DEF Context
  <2>3. contexts' \in [Keys -> Context]
    BY <2>1, <2>2 DEF Sweep
  <2> QED BY <2>1, <2>3 DEF Context
<1>4. scan' \in [todo : SUBSET Pids,
                 samples : SUBSET [pid : Pids, name : Names,
                                   start : StartTimes, of : StartTimes],
                 uncertain : SUBSET Pids, complete : BOOLEAN]
  BY DEF Sweep, NoScan
<1> QED BY <1>1, <1>2, <1>3, <1>4 DEF Sweep, TypeOK

---------------------------------------------------------------------------
(***************************************************************************)
(* What a sample finds in the maps is of the process it was taken of.      *)
(***************************************************************************)
\* A sample is of a process on the whitelist, and one of its own id.
LEMMA SampleFacts ==
  ASSUME TypeOK, SampleInv, NEW s \in scan.samples
  PROVE  /\ s.pid \in Pids /\ s.name \in Names /\ s.name # ""
         /\ s.name \in sched_process_whitelist
         /\ s.start = s.of /\ s.start # 0 /\ s.start \in Nat
         /\ s.start <= starts
<1>1. s.pid \in Pids /\ s.name \in Names /\ s.start \in StartTimes
  BY ScanFields
<1>2. s.start # 0 /\ s.start \in Nat
  BY <1>1, WatchBoundsAssumption DEF StartTimes
<1> QED BY <1>1, <1>2, NameFacts DEF SampleInv

\* An instance on the whitelist is none other than it shows.
LEMMA InstanceFacts ==
  ASSUME TypeOK, InstanceInv, NEW p \in Pids
  PROVE  /\ instances[p] = [name |-> instances[p].name,
                            start |-> instances[p].start]
         /\ instances[p] # NoInstance <=> instances[p].start # 0
         /\ instances[p] # NoInstance <=> instances[p].name # ""
<1>1. instances[p] \in [name : NamesOrNone, start : 0..MaxStarts]
  BY DEF TypeOK
<1>2. instances[p] = [name |-> instances[p].name,
                      start |-> instances[p].start]
  BY <1>1
<1>3. /\ NoInstance.start = 0 /\ NoInstance.name = ""
      /\ instances[p] = NoInstance \/ instances[p] # NoInstance
  BY DEF NoInstance
<1>4. CASE instances[p] # NoInstance
  <2>1. instances[p].start # 0 /\ instances[p].name \in sched_process_whitelist
    BY <1>4 DEF InstanceInv
  <2>2. instances[p].name # ""
    BY <2>1, NameFacts
  <2> QED BY <1>2, <1>4, <2>1, <2>2
<1> QED BY <1>2, <1>3, <1>4

\* The history that is kept, and the contexts that are.
LEMMA Inherited ==
  ASSUME TypeOK, InstanceInv, ContextInv, SampleInv, OneProcess, NoOrphans,
         NEW s \in scan.samples
  PROVE  /\ ~Changed(s) => \A j \in 1..Len(history[s.pid]) :
                             history[s.pid][j].of = s.start
         /\ \A n \in Names :
              \/ contexts[<<n, s.pid>>] = NoContext
              \/ <<n, s.pid>> \in Forgotten(s)
              \/ /\ n = s.name /\ ~Changed(s)
                 /\ contexts[<<n, s.pid>>].of \subseteq {s.start}
<1>1. s.pid \in Pids
  BY SampleFacts
<1>2. ASSUME ~Changed(s), NEW j \in 1..Len(history[s.pid])
      PROVE  history[s.pid][j].of = s.start
  <2>1. history[s.pid] \in Seq([at : 1..now, of : StartTimes])
    BY <1>1 DEF TypeOK
  <2>2. j \in DOMAIN history[s.pid] /\ history[s.pid] # << >>
    BY <2>1, LenProperties, EmptySeq
  <2>3. instances[s.pid] # NoInstance
    BY <1>1, <2>2 DEF NoOrphans
  <2>4. instances[s.pid].start = s.start
    BY <1>2, <2>3 DEF Changed
  <2> QED BY <1>1, <2>2, <2>4 DEF OneProcess
<1>3. ASSUME NEW n \in Names, contexts[<<n, s.pid>>] # NoContext,
             <<n, s.pid>> \notin Forgotten(s)
      PROVE  /\ n = s.name /\ ~Changed(s)
             /\ contexts[<<n, s.pid>>].of \subseteq {s.start}
  <2>1. instances[s.pid].name = n /\ n # ""
    BY <1>1, <1>3, NameFacts DEF NoOrphans, ContextInv
  <2>2. instances[s.pid] # NoInstance
    BY <1>1, <2>1, InstanceFacts
  <2>3. ~Changed(s)
    BY <1>3, <2>1 DEF Forgotten
  <2>4. instances[s.pid].start = s.start /\ instances[s.pid].name = s.name
    BY <2>2, <2>3 DEF Changed
  <2> QED BY <1>1, <2>1, <2>3, <2>4 DEF OneProcess
<1> QED BY <1>2, <1>3

\* Recording a sample leaves the contexts of other ids to the same processes,
\* and those of its own id to its process.
LEMMA RecordContexts ==
  ASSUME TypeOK, InstanceInv, ContextInv, SampleInv, OneProcess, NoOrphans,
         now >= 1, NEW s \in scan.samples, Record(s),
         NEW n \in Names, NEW p \in Pids
  PROVE  \/ contexts'[<<n, p>>] = NoContext
         \/ p # s.pid /\ contexts'[<<n, p>>] = contexts[<<n, p>>]
         \/ /\ p = s.pid /\ n = s.name
            /\ contexts'[<<n, p>>].of \subseteq {s.start}
<1> DEFINE k == <<n, p>>
           h == Extended(s)
<1>1. k \in Keys /\ contexts'[k] = Judged(s, h, k)
  BY DEF Record, Keys
<1>2. s.pid \in Pids /\ s.start = s.of
  BY SampleFacts
<1>3. CASE Judged(s, h, k) = NoContext
  BY <1>1, <1>3
<1>4. CASE Judged(s, h, k) = contexts[k] /\ k \notin Forgotten(s)
  BY <1>1, <1>4, Inherited
<1>5. CASE k = <<s.name, s.pid>> /\ GrowthKnown(h)
  <2>1. h[1].of = s.start
    <3>1. /\ h \in Seq([at : 1..now, of : StartTimes]) /\ Len(h) >= 1
      BY ExtendedFacts
    <3> HIDE DEF h
    <3>2. 1 \in 1..Len(h)
      <4>1. Len(h) \in Nat
        BY <3>1, LenProperties
      <4> QED BY <3>1, <4>1
    <3> USE DEF h
    <3> QED BY <1>2, <3>2, ExtendedFacts, Inherited
  <2>2. p = s.pid /\ n = s.name
    BY <1>5
  <2>3. NoContext.of \subseteq {s.start}
    BY DEF NoContext
  <2>4. k \notin Forgotten(s) => \/ contexts[k].of \subseteq {s.start}
    BY <2>2, <2>3, Inherited
  <2> HIDE DEF h, k
  <2>5. \/ Judged(s, h, k) = NoContext
        \/ Judged(s, h, k) = contexts[k] /\ k \notin Forgotten(s)
        \/ /\ k \notin Forgotten(s)
           /\ Judged(s, h, k) = [of |-> contexts[k].of \cup {h[1].of, s.of},
                                 seen |-> now]
        \/ Judged(s, h, k) = [of |-> NoContext.of \cup {h[1].of, s.of},
                              seen |-> now]
    BY JudgedFacts
  <2>6. Judged(s, h, k) = NoContext \/ Judged(s, h, k).of \subseteq {s.start}
    BY <1>2, <2>1, <2>3, <2>4, <2>5
  <2> USE DEF k
  <2> QED BY <1>1, <2>2, <2>6
<1> HIDE DEF h, k
<1>6. \/ Judged(s, h, k) = NoContext
      \/ Judged(s, h, k) = contexts[k] /\ k \notin Forgotten(s)
      \/ k = <<s.name, s.pid>> /\ GrowthKnown(h)
  BY JudgedFacts
<1> QED BY <1>3, <1>4, <1>5, <1>6

\* Recording a sample leaves each id with the measures of one process,
LEMMA RecordMaps ==
  ASSUME IInv, pc # "idle", NEW s \in scan.samples, Record(s)
  PROVE  OneProcess' /\ NoOrphans' /\ ContextInv' /\ InstanceInv'
<1>1. /\ TypeOK /\ InstanceInv /\ ContextInv /\ SampleInv
      /\ OneProcess /\ NoOrphans /\ now >= 1
  BY DEF IInv, SampleInv
<1>2. /\ s.pid \in Pids /\ s.name \in Names /\ s.name # ""
      /\ s.name \in sched_process_whitelist
      /\ s.start = s.of /\ s.start # 0 /\ s.start <= starts
  BY <1>1, SampleFacts
<1>3. /\ instances'[s.pid] = [name |-> s.name, start |-> s.start]
      /\ process_cpu_baselines'[s.pid] = s.of
      /\ history'[s.pid] \in {Extended(s), << >>, history[s.pid]}
      /\ history'[s.pid] = history[s.pid] =>
           ~Changed(s) \/ history'[s.pid] \in {Extended(s), << >>}
      /\ \A p \in Pids : p # s.pid =>
           /\ instances'[p] = instances[p] /\ history'[p] = history[p]
           /\ process_cpu_baselines'[p] = process_cpu_baselines[p]
      /\ UNCHANGED <<procs, starts>>
  BY <1>1, <1>2 DEF Record, TypeOK, world
<1>4. instances'[s.pid].name = s.name /\ instances'[s.pid].start = s.start
  BY <1>3
<1>5. instances'[s.pid] # NoInstance
  <2>1. NoInstance.name = ""
    BY DEF NoInstance
  <2> QED BY <1>2, <1>4, <2>1
<1>6. \A i \in DOMAIN history'[s.pid] : history'[s.pid][i].of = s.start
  <2>1. ASSUME NEW i \in DOMAIN Extended(s)
        PROVE  Extended(s)[i].of = s.start
    <3>1. i \in 1..Len(Extended(s))
      BY <1>1, ExtendedFacts, LenProperties
    <3> QED BY <1>1, <1>2, <3>1, ExtendedFacts, Inherited
  <2>2. ASSUME ~Changed(s), NEW i \in DOMAIN history[s.pid]
        PROVE  history[s.pid][i].of = s.start
    <3>1. history[s.pid] \in Seq([at : 1..now, of : StartTimes])
      BY <1>1, <1>2 DEF TypeOK
    <3>2. i \in 1..Len(history[s.pid])
      BY <3>1, LenProperties
    <3> QED BY <1>1, <2>2, <3>2, Inherited
  <2>3. \A i \in DOMAIN << >> : FALSE
    OBVIOUS
  <2> QED BY <1>3, <2>1, <2>2, <2>3
<1>7. OneProcess'
  <2>1. ASSUME NEW p \in Pids
        PROVE  /\ process_cpu_baselines'[p] \in {0, instances'[p].start}
               /\ \A i \in DOMAIN history'[p] :
                    history'[p][i].of = instances'[p].start
    BY <1>1, <1>2, <1>3, <1>4, <1>6 DEF OneProcess
  <2>2. ASSUME NEW p \in Pids, NEW n \in Names
        PROVE  contexts'[<<n, p>>].of \subseteq {instances'[p].start}
    <3>1. NoContext.of = {}
      BY DEF NoContext
    <3>2. contexts[<<n, p>>].of \subseteq {instances[p].start}
      BY <1>1 DEF OneProcess
    <3> QED BY <1>1, <1>3, <1>4, <3>1, <3>2, RecordContexts
  <2> QED BY <2>1, <2>2 DEF OneProcess
<1>8. NoOrphans'
  <2>1. ASSUME NEW p \in Pids
        PROVE  process_cpu_baselines'[p] # 0 \/ history'[p] # <<>> =>
                 instances'[p] # NoInstance
    BY <1>1, <1>3, <1>5 DEF NoOrphans
  <2>2. ASSUME NEW p \in Pids, NEW n \in Names,
               contexts'[<<n, p>>] # NoContext
        PROVE  instances'[p].name = n
    BY <1>1, <1>3, <1>4, <2>2, RecordContexts DEF NoOrphans
  <2>3. NoInstance' = NoInstance /\ NoContext' = NoContext
    BY DEF NoInstance, NoContext
  <2> QED BY <2>1, <2>2, <2>3 DEF NoOrphans
<1>9. ContextInv'
  <2>1. NoContext' = NoContext
    BY DEF NoContext
  <2>2. ASSUME NEW n \in Names, NEW p \in Pids,
               contexts'[<<n, p>>] # NoContext
        PROVE  n \in sched_process_whitelist
    BY <1>1, <1>2, <2>2, RecordContexts DEF ContextInv
  <2> QED BY <2>1, <2>2 DEF ContextInv
<1>10. InstanceInv'
  <2>1. NoInstance' = NoInstance
    BY DEF NoInstance
  <2> QED BY <1>1, <1>2, <1>3, <1>4, <2>1 DEF InstanceInv
<1> QED BY <1>7, <1>8, <1>9, <1>10

\* and so does clearing away.
LEMMA SweepMaps ==
  ASSUME IInv, Sweep
  PROVE  OneProcess' /\ NoOrphans' /\ ContextInv' /\ InstanceInv'
<1>1. TypeOK /\ InstanceInv /\ ContextInv /\ OneProcess /\ NoOrphans
  BY DEF IInv
<1>2. NoInstance' = NoInstance /\ NoContext' = NoContext /\ NoContext.of = {}
      /\ NoInstance.start = 0 /\ NoInstance.name = ""
  BY DEF NoInstance, NoContext
<1>3. \A p \in Pids :
        \/ /\ instances'[p] = NoInstance /\ process_cpu_baselines'[p] = 0
           /\ history'[p] = << >> /\ p \in Gone
        \/ /\ instances'[p] = instances[p] /\ history'[p] = history[p]
           /\ process_cpu_baselines'[p] = process_cpu_baselines[p]
           /\ p \notin Gone
  BY DEF Sweep
<1>4. \A n \in Names, p \in Pids :
        /\ contexts'[<<n, p>>] \in {NoContext, contexts[<<n, p>>]}
        /\ p \in Gone /\ n = instances[p].name =>
             contexts'[<<n, p>>] = NoContext
  BY DEF Sweep, Keys
<1>5. \A n \in Names, p \in Pids :
        p \in Gone => contexts'[<<n, p>>] = NoContext
  BY <1>1, <1>4 DEF NoOrphans
<1>6. \A i \in DOMAIN << >> : FALSE
  OBVIOUS
<1>7. UNCHANGED <<procs, starts>>
  BY DEF Sweep
<1>8. OneProcess'
  BY <1>1, <1>2, <1>3, <1>4, <1>5, <1>6 DEF OneProcess
<1>9. NoOrphans'
  <2>1. ASSUME NEW p \in Pids,
               process_cpu_baselines'[p] # 0 \/ history'[p] # <<>>
        PROVE  instances'[p] # NoInstance
    BY <1>1, <1>3, <2>1 DEF NoOrphans
  <2>2. ASSUME NEW p \in Pids, NEW n \in Names,
               contexts'[<<n, p>>] # NoContext
        PROVE  instances'[p].name = n
    <3>1. p \notin Gone /\ contexts[<<n, p>>] # NoContext
      BY <1>4, <1>5, <2>2
    <3> QED BY <1>1, <1>3, <3>1 DEF NoOrphans
  <2> QED BY <1>2, <2>1, <2>2 DEF NoOrphans
<1>10. ContextInv'
  BY <1>1, <1>2, <1>4 DEF ContextInv
<1>11. InstanceInv'
  <2>1. ASSUME NEW p \in Pids
        PROVE  /\ instances'[p].start <= starts
               /\ instances'[p] # NoInstance =>
                    /\ instances'[p].name \in sched_process_whitelist
                    /\ instances'[p].start # 0
    <3>1. starts \in Nat
      BY <1>1, ScanFields
    <3>2. 0 <= starts
      BY <3>1
    <3> QED BY <1>1, <1>2, <1>3, <3>2 DEF InstanceInv
  <2> QED BY <1>1, <1>2, <1>7, <2>1 DEF InstanceInv
<1> QED BY <1>8, <1>9, <1>10, <1>11

---------------------------------------------------------------------------
(***************************************************************************)
(* What is read and sampled, step by step.                                 *)
(***************************************************************************)
\* What happens to processes makes nothing untrue that has been read.
LEMMA WorldKeeps ==
  ASSUME IInv, NEW p \in Pids, WorldStep(p)
  PROVE  IInv'
<1>1. /\ TypeOK /\ InstanceInv /\ ContextInv /\ SampleInv /\ ReadingInv
      /\ FaithfulInv /\ SeenInv /\ OneProcess /\ NoOrphans
  BY DEF IInv
<1>2. /\ UNCHANGED <<maps, now, pc, scan, reading>>
      /\ \A q \in Pids : q # p => procs'[q] = procs[q]
      /\ \/ procs'[p].start = 0 /\ starts' = starts
         \/ /\ procs'[p].start = starts + 1 /\ starts' = starts + 1
            /\ ~(pc = "status" /\ reading.pid = p)
         \/ /\ procs'[p].start = procs[p].start /\ starts' = starts
            /\ \/ procs'[p].renamed
               \/ /\ procs'[p].renamed = procs[p].renamed
                  /\ procs'[p].name = procs[p].name
  BY <1>1, WorldShape
<1>3. TypeOK'
  BY <1>1, WorldTypeOK
<1>4. /\ starts \in Nat /\ starts' \in Nat /\ starts <= starts'
      /\ \A q \in Pids : instances[q].start \in Nat /\ procs[q].start \in Nat
      /\ \A s \in scan.samples : s.start \in Nat
      /\ reading.start \in Nat
  <2>1. starts \in Nat /\ starts + 1 \in Nat /\ starts <= starts + 1
    BY <1>1, ScanFields
  <2>2. starts' \in Nat /\ starts <= starts'
    BY <1>2, <2>1
  <2> QED BY <1>1, <2>1, <2>2, ScanFields, SampleFacts
<1>5. UNCHANGED <<instances, process_cpu_baselines, history, contexts>>
  BY <1>2 DEF maps
<1>6. InstanceInv'
  <2>1. NoInstance' = NoInstance
    BY DEF NoInstance
  <2>2. ASSUME NEW q \in Pids
        PROVE  procs'[q].start <= starts' /\ instances[q].start <= starts'
    BY <1>1, <1>2, <1>4 DEF InstanceInv
  <2> QED BY <1>1, <1>5, <2>1, <2>2 DEF InstanceInv
<1>7. OneProcess' /\ NoOrphans' /\ ContextInv'
  BY <1>1, <1>5 DEF OneProcess, NoOrphans, ContextInv, NoInstance, NoContext
<1>8. SampleInv'
  <2>1. ASSUME NEW s \in scan.samples PROVE s.start <= starts'
    BY <1>1, <1>4 DEF SampleInv
  <2> QED BY <1>1, <1>2, <2>1 DEF SampleInv
<1>9. ReadingInv'
  <2>1. ASSUME pc \in {"stat", "status"} PROVE reading.start <= starts'
    BY <1>1, <1>4, <2>1 DEF ReadingInv
  <2>2. ASSUME pc = "status", procs'[reading.pid].start # 0
        PROVE  procs'[reading.pid].start = reading.start
    <3>1. reading.pid \in Pids
      BY <1>1, <2>2, ScanFields DEF ReadingInv
    <3>2. procs'[reading.pid].start = procs[reading.pid].start
      BY <1>2, <2>2, <3>1
    <3> QED BY <1>1, <2>2, <3>2 DEF ReadingInv, Alive
  <2> QED BY <1>1, <1>2, <2>1, <2>2 DEF ReadingInv, Alive
<1>10. ASSUME NEW q \in Pids, Known(q)'
       PROVE  /\ Known(q) /\ procs'[q].name = procs[q].name
              /\ procs'[q].start = procs[q].start
  <2>1. /\ procs'[q].start # 0 /\ ~procs'[q].renamed
        /\ instances[q].start = procs'[q].start
    BY <1>5, <1>10 DEF Known, Alive
  <2>2. instances[q].start # starts + 1
    <3>1. instances[q].start <= starts
      BY <1>1 DEF InstanceInv
    <3> QED BY <1>4, <3>1
  <2> QED BY <1>2, <2>1, <2>2 DEF Known, Alive
<1>11. FaithfulInv'
  BY <1>1, <1>2, <1>10 DEF FaithfulInv
<1>12. SeenInv'
  BY <1>1, <1>2, <1>5, <1>10 DEF SeenInv
<1> QED BY <1>3, <1>6, <1>7, <1>8, <1>9, <1>11, <1>12 DEF IInv

\* A step of the scan reads what is there.
LEMMA ScanKeeps ==
  ASSUME IInv, ScanStep
  PROVE  IInv'
<1>1. /\ TypeOK /\ InstanceInv /\ ContextInv /\ SampleInv /\ ReadingInv
      /\ FaithfulInv /\ SeenInv /\ OneProcess /\ NoOrphans
  BY DEF IInv
<1>2. TypeOK'
  BY <1>1, ScanTypeOK
<1>3. UNCHANGED <<procs, starts, instances, process_cpu_baselines, history,
                  contexts>>
  BY DEF ScanStep, BeginScan, SkipEntry, ReadComm, CommFails, ReadStat,
         ReadStatus, DetailsFail, Uncertain, ScanEnds, world, maps
<1>4. InstanceInv' /\ OneProcess' /\ NoOrphans' /\ ContextInv'
  BY <1>1, <1>3 DEF InstanceInv, OneProcess, NoOrphans, ContextInv,
                    NoInstance, NoContext
<1>5. \A p \in Pids : Known(p)' <=> Known(p)
  BY <1>3 DEF Known, Alive
<1>6. ASSUME SampleInv', ReadingInv', FaithfulInv', SeenInv' PROVE IInv'
  BY <1>1, <1>2, <1>4, <1>6 DEF IInv
<1>7. CASE BeginScan
  <2>1. /\ scan'.samples = {} /\ scan'.todo = Pids /\ pc' = "scan"
        /\ now' >= 1
    <3>1. now \in Nat /\ MaxTime \in Nat
      BY <1>1, ScanFields, WatchBoundsAssumption
    <3> QED BY <1>7, <3>1 DEF BeginScan, NoScan
  <2>2. SampleInv' /\ ReadingInv' /\ FaithfulInv' /\ SeenInv'
    BY <2>1 DEF SampleInv, ReadingInv, FaithfulInv, SeenInv
  <2> QED BY <1>6, <2>2
<1>8. CASE SkipEntry
  <2>1. Entry \in scan.todo /\ Entry \in Pids /\ pc = "scan"
    BY <1>1, <1>8, EntryInTodo DEF SkipEntry
  <2>2. /\ scan'.todo = scan.todo \ {Entry} /\ scan'.samples = scan.samples
        /\ scan'.uncertain = scan.uncertain
        /\ UNCHANGED <<pc, now, reading>>
    BY <1>1, <1>8, ScanFields DEF SkipEntry
  <2>3. SampleInv' /\ ReadingInv' /\ FaithfulInv'
    BY <1>1, <1>3, <1>5, <2>1, <2>2 DEF SampleInv, ReadingInv, FaithfulInv
  <2>4. ~(Known(Entry) /\ instances[Entry].name = procs[Entry].name)
    <3>1. Known(Entry) => instances[Entry] # NoInstance
      BY <1>1, <2>1, InstanceFacts DEF Known, Alive
    <3> QED BY <1>1, <1>8, <2>1, <3>1 DEF SkipEntry, InstanceInv, Known
  <2>5. SeenInv'
    BY <1>1, <1>3, <1>5, <2>2, <2>4 DEF SeenInv
  <2> QED BY <1>6, <2>3, <2>5
<1>9. CASE ReadComm
  <2>1. Entry \in scan.todo /\ Entry \in Pids /\ pc = "scan"
    BY <1>1, <1>9, EntryInTodo DEF ReadComm
  <2>2. /\ UNCHANGED <<scan, now>> /\ pc' = "stat"
        /\ reading'.pid = Entry /\ reading'.name = procs[Entry].name
        /\ reading'.start = 0 /\ reading'.name \in sched_process_whitelist
    BY <1>9 DEF ReadComm, NoReading
  <2>3. 0 <= starts
    BY <1>1, ScanFields
  <2>4. SampleInv' /\ ReadingInv' /\ SeenInv'
    BY <1>1, <1>3, <1>5, <2>1, <2>2, <2>3 DEF SampleInv, ReadingInv, SeenInv
  <2>5. FaithfulInv'
    BY <1>1, <1>3, <1>5, <2>2 DEF FaithfulInv
  <2> QED BY <1>6, <2>4, <2>5
<1>10. ASSUME NEW x \in scan.todo, Uncertain(x), pc # "idle" PROVE IInv'
  <2>1. /\ scan'.todo = scan.todo \ {x} /\ scan'.samples = scan.samples
        /\ scan'.uncertain = scan.uncertain \cup {x}
        /\ pc' = "scan" /\ now' = now
    BY <1>1, <1>10, ScanFields DEF Uncertain
  <2>2. SampleInv' /\ ReadingInv' /\ FaithfulInv' /\ SeenInv'
    BY <1>1, <1>3, <1>5, <1>10, <2>1
    DEF SampleInv, ReadingInv, FaithfulInv, SeenInv
  <2> QED BY <1>6, <2>2
<1>11. CASE CommFails
  <2>1. Entry \in scan.todo /\ Uncertain(Entry) /\ pc # "idle"
    BY <1>1, <1>11, EntryInTodo DEF CommFails
  <2> QED BY <1>10, <2>1
<1>12. CASE DetailsFail
  BY <1>1, <1>10, <1>12 DEF DetailsFail, ReadingInv
<1>13. CASE ReadStat
  <2>1. reading.pid \in scan.todo /\ reading.pid \in Pids /\ pc = "stat"
    BY <1>1, <1>13, ScanFields DEF ReadStat, ReadingInv
  <2>2. /\ UNCHANGED <<scan, now>> /\ pc' = "status"
        /\ reading'.pid = reading.pid /\ reading'.name = reading.name
        /\ reading'.start = procs[reading.pid].start
        /\ procs[reading.pid].start # 0
    BY <1>1, <1>13, ScanFields DEF ReadStat, Alive
  <2>3. procs[reading.pid].start <= starts
    BY <1>1, <2>1 DEF InstanceInv
  <2>4. ReadingInv'
    BY <1>1, <1>3, <2>1, <2>2, <2>3 DEF ReadingInv
  <2>5. SampleInv' /\ FaithfulInv' /\ SeenInv'
    BY <1>1, <1>3, <1>5, <2>1, <2>2 DEF SampleInv, FaithfulInv, SeenInv
  <2> QED BY <1>6, <2>4, <2>5
<1>14. CASE ReadStatus
  <2> DEFINE s == [pid |-> reading.pid, name |-> reading.name,
                   start |-> reading.start, of |-> procs[reading.pid].start]
  <2>1. /\ reading.pid \in scan.todo /\ reading.pid \in Pids
        /\ pc = "status" /\ reading.name \in sched_process_whitelist
        /\ reading.start = procs[reading.pid].start /\ reading.start # 0
        /\ reading.start <= starts
    BY <1>1, <1>14, ScanFields DEF ReadStatus, ReadingInv
  <2>2. /\ scan'.todo = scan.todo \ {reading.pid}
        /\ scan'.samples = scan.samples \cup {s}
        /\ scan'.uncertain = scan.uncertain /\ pc' = "scan" /\ now' = now
    BY <1>1, <1>14, ScanFields DEF ReadStatus
  <2>3. /\ s.pid = reading.pid /\ s.name = reading.name
        /\ s.start = reading.start /\ s.of = s.start
    BY <2>1
  <2> HIDE DEF s
  <2>4. \A t \in scan.samples : t.pid # s.pid
    BY <1>1, <2>1, <2>3 DEF SampleInv
  <2>5. SampleInv'
    <3>1. \A t \in scan'.samples : /\ t.start = t.of /\ t.pid \notin scan'.todo
                                   /\ t.name \in sched_process_whitelist
                                   /\ t.start <= starts
      BY <1>1, <2>1, <2>2, <2>3 DEF SampleInv
    <3>2. \A t, u \in scan'.samples : t.pid = u.pid => t = u
      BY <1>1, <2>2, <2>4 DEF SampleInv
    <3>3. now' >= 1 /\ pc' = "scan"
      BY <1>1, <2>1, <2>2 DEF SampleInv
    <3> QED BY <1>3, <3>1, <3>2, <3>3 DEF SampleInv
  <2>6. ReadingInv'
    BY <2>2 DEF ReadingInv
  <2>7. FaithfulInv'
    <3>1. ASSUME NEW p \in Pids, Known(p), NEW t \in scan'.samples, t.pid = p
          PROVE  t.start = procs[p].start /\ t.name = procs[p].name
      BY <1>1, <2>1, <2>2, <2>3, <3>1 DEF FaithfulInv
    <3> QED BY <1>3, <1>5, <2>2, <3>1 DEF FaithfulInv
  <2>8. SeenInv'
    <3>1. ASSUME NEW p \in Pids, Known(p), instances[p].name = procs[p].name
          PROVE  \/ p \in scan'.todo \cup scan'.uncertain
                 \/ \E t \in scan'.samples : t.pid = p
      BY <1>1, <2>1, <2>2, <2>3, <3>1 DEF SeenInv
    <3> QED BY <1>3, <1>5, <3>1 DEF SeenInv
  <2> QED BY <1>6, <2>5, <2>6, <2>7, <2>8
<1>15. ASSUME NEW complete \in BOOLEAN, ScanEnds(complete) PROVE IInv'
  <2>1. /\ scan'.todo = scan.todo /\ scan'.samples = scan.samples
        /\ scan'.uncertain = scan.uncertain /\ scan'.complete = complete
        /\ complete => scan.todo = {}
        /\ pc = "scan" /\ pc' = "record" /\ UNCHANGED <<now, reading>>
    BY <1>1, <1>15, ScanFields DEF ScanEnds
  <2>2. SampleInv' /\ ReadingInv' /\ FaithfulInv' /\ SeenInv'
    BY <1>1, <1>3, <1>5, <2>1
    DEF SampleInv, ReadingInv, FaithfulInv, SeenInv
  <2> QED BY <1>6, <2>2
<1> QED
  BY <1>7, <1>8, <1>9, <1>11, <1>12, <1>13, <1>14, <1>15 DEF ScanStep

\* Recording a sample and clearing away.
LEMMA RecordKeeps ==
  ASSUME IInv, NEW s \in scan.samples, Record(s)
  PROVE  IInv'
<1>1. /\ TypeOK /\ InstanceInv /\ ContextInv /\ SampleInv /\ ReadingInv
      /\ FaithfulInv /\ SeenInv /\ pc = "record" /\ now >= 1
  BY DEF IInv, Record, SampleInv
<1>2. s.pid \in Pids
  BY <1>1, SampleFacts
<1>3. /\ scan'.todo = scan.todo /\ scan'.samples = scan.samples \ {s}
      /\ scan'.uncertain = scan.uncertain \cup {s.pid}
      /\ scan'.complete = scan.complete
      /\ UNCHANGED <<pc, now, procs, starts>>
      /\ instances'[s.pid] = [name |-> s.name, start |-> s.start]
      /\ \A p \in Pids : p # s.pid => instances'[p] = instances[p]
  BY <1>1, <1>2, ScanFields DEF Record, world, TypeOK
<1>4. TypeOK'
  BY <1>1, RecordTypeOK
<1>5. OneProcess' /\ NoOrphans' /\ ContextInv' /\ InstanceInv'
  BY <1>1, RecordMaps
<1>6. SampleInv' /\ ReadingInv'
  BY <1>1, <1>3 DEF SampleInv, ReadingInv
<1>7. \A t \in scan'.samples : t \in scan.samples /\ t.pid # s.pid
  BY <1>1, <1>3 DEF SampleInv
<1>8. \A p \in Pids : p # s.pid /\ Known(p)' => Known(p)
  BY <1>3 DEF Known, Alive
<1>9. FaithfulInv'
  BY <1>1, <1>3, <1>7, <1>8 DEF FaithfulInv
<1>10. SeenInv'
  <2>1. ASSUME NEW p \in Pids, p # s.pid, Known(p)',
               instances'[p].name = procs[p].name
        PROVE  \/ p \in scan'.todo \cup scan'.uncertain
               \/ \E t \in scan'.samples : t.pid = p
    BY <1>1, <1>3, <1>8, <2>1 DEF SeenInv
  <2> QED BY <1>3, <2>1 DEF SeenInv
<1> QED BY <1>4, <1>5, <1>6, <1>9, <1>10 DEF IInv

\* The sweep at the end of a complete scan keeps the invariant.
LEMMA SweepKeeps ==
  ASSUME IInv, Sweep
  PROVE  IInv'
<1>1. TypeOK'
  BY SweepTypeOK DEF IInv
<1>2. OneProcess' /\ NoOrphans' /\ ContextInv' /\ InstanceInv'
  BY SweepMaps
<1>3. scan'.samples = {} /\ pc' = "idle"
  BY DEF Sweep, NoScan
<1>4. SampleInv' /\ ReadingInv' /\ FaithfulInv' /\ SeenInv'
  BY <1>3 DEF SampleInv, ReadingInv, FaithfulInv, SeenInv
<1> QED BY <1>1, <1>2, <1>4 DEF IInv

---------------------------------------------------------------------------
\* Initially nothing runs and nothing is known.
LEMMA InitIInv == Init => IInv
<1> SUFFICES ASSUME Init PROVE IInv
  OBVIOUS
<1>1. TypeOK
  BY InitTypeOK
<1>2. scan.samples = {} /\ pc = "idle"
  BY DEF Init, NoScan
<1>3. SampleInv /\ ReadingInv /\ FaithfulInv /\ SeenInv
  BY <1>2 DEF SampleInv, ReadingInv, FaithfulInv, SeenInv
<1>4. InstanceInv
  <2>1. \A p \in Pids : procs[p].start = 0 /\ instances[p] = NoInstance
                        /\ instances[p].start = 0
    BY DEF Init, NoProcess, NoInstance
  <2>2. starts = 0
    BY DEF Init
  <2> QED BY <2>1, <2>2 DEF InstanceInv
<1>5. OneProcess /\ NoOrphans /\ ContextInv
  <2>1. /\ \A p \in Pids : /\ process_cpu_baselines[p] = 0
                           /\ history[p] = << >>
        /\ \A n \in Names, p \in Pids : contexts[<<n, p>>] = NoContext
    BY DEF Init, Keys
  <2>2. NoContext.of = {} /\ \A i \in DOMAIN << >> : FALSE
    BY DEF NoContext
  <2> QED BY <2>1, <2>2 DEF OneProcess, NoOrphans, ContextInv
<1> QED BY <1>1, <1>3, <1>4, <1>5 DEF IInv

\* Every step keeps the invariant.
LEMMA NextIInv == IInv /\ [Next]_vars => IInv'
<1> SUFFICES ASSUME IInv, [Next]_vars PROVE IInv'
  OBVIOUS
<1>1. ASSUME NEW p \in Pids, WorldStep(p) PROVE IInv'
  BY <1>1, WorldKeeps
<1>2. CASE ScanStep
  BY <1>2, ScanKeeps
<1>3. ASSUME NEW s \in scan.samples, Record(s) PROVE IInv'
  BY <1>3, RecordKeeps
<1>4. CASE Sweep
  BY <1>4, SweepKeeps
<1>5. CASE UNCHANGED vars
  BY <1>5
  DEF vars, world, maps, IInv, TypeOK, InstanceInv, ContextInv, SampleInv,
      ReadingInv, FaithfulInv, SeenInv, Known, Alive, OneProcess, NoOrphans
<1> QED BY <1>1, <1>2, <1>3, <1>4, <1>5 DEF Next, WorldStep, ScanStep

\* The invariant holds in every reachable state.
THEOREM InductiveInvariant == Spec => []IInv
<1>1. Init => IInv
  BY InitIInv
<1>2. IInv /\ [Next]_vars => IInv'
  BY NextIInv
<1> QED BY <1>1, <1>2, PTL DEF Spec

\* Every variable keeps its type.
THEOREM TypeCorrect == Spec => []TypeOK
<1>1. IInv => TypeOK
  BY DEF IInv
<1> QED BY <1>1, InductiveInvariant, PTL

\* The CPU baseline, the memory samples and the rule contexts that
\* record_whitelisted_process_metrics keeps under a process id were all taken
\* of one process, whichever processes have had the id.
THEOREM OneProcessCorrect == Spec => []OneProcess
<1>1. IInv => OneProcess
  BY DEF IInv
<1> QED BY <1>1, InductiveInvariant, PTL

\* Nothing the monitor or its rule engine keeps under a process id outlives
\* the entry of process_instances_ it belongs to.
THEOREM NoOrphansCorrect == Spec => []NoOrphans
<1>1. IInv => NoOrphans
  BY DEF IInv
<1> QED BY <1>1, InductiveInvariant, PTL

\* A process that runs on under its name is never forgotten, whichever of its
\* files could not be read and whichever scans broke off.
THEOREM KeptCorrect == Spec => KeptWhileAlive
<1> DEFINE Kept ==
      \A p \in Pids :
        /\ instances[p] # NoInstance /\ instances[p].start = procs[p].start
        /\ instances[p].name = procs[p].name /\ ~procs[p].renamed
        => instances'[p] = instances[p]
             /\ (history[p] # <<>> => history'[p] # <<>>)
<1>1. ASSUME IInv, [Next]_vars, NEW p \in Pids,
             instances[p] # NoInstance, instances[p].start = procs[p].start,
             instances[p].name = procs[p].name, ~procs[p].renamed
      PROVE  /\ instances'[p] = instances[p]
             /\ history[p] # <<>> => history'[p] # <<>>
  <2>1. /\ TypeOK /\ InstanceInv /\ ContextInv /\ SampleInv /\ FaithfulInv
        /\ SeenInv
    BY <1>1 DEF IInv
  <2>2. Known(p)
    BY <1>1, <2>1 DEF Known, Alive, InstanceInv
  <2>3. ASSUME UNCHANGED maps
        PROVE  instances'[p] = instances[p] /\ history'[p] = history[p]
    BY <2>3 DEF maps
  <2>4. ASSUME NEW q \in Pids, WorldStep(q) PROVE UNCHANGED maps
    BY <2>1, <2>4, WorldShape
  <2>5. CASE ScanStep
    BY <2>3, <2>5
    DEF ScanStep, BeginScan, SkipEntry, ReadComm, CommFails, ReadStat,
        ReadStatus, DetailsFail, Uncertain, ScanEnds, maps
  <2>6. ASSUME NEW s \in scan.samples, Record(s)
        PROVE  /\ instances'[p] = instances[p]
               /\ history[p] # <<>> => history'[p] # <<>>
    <3>1. s.pid \in Pids /\ now >= 1
      BY <2>1, <2>6, SampleFacts DEF Record, SampleInv
    <3>2. CASE s.pid # p
      BY <2>1, <2>6, <3>1, <3>2 DEF Record, TypeOK
    <3>3. CASE s.pid = p
      <4>1. s.start = instances[p].start /\ s.name = instances[p].name
        BY <1>1, <2>1, <2>2, <3>3 DEF FaithfulInv
      <4>2. instances'[p] = [name |-> s.name, start |-> s.start]
        BY <2>1, <2>6, <3>3 DEF Record, TypeOK
      <4>3. instances[p] = [name |-> s.name, start |-> s.start]
        BY <2>1, <4>1, InstanceFacts
      <4>4. ~Changed(s)
        BY <3>3, <4>1 DEF Changed
      <4>5. history'[p] \in {Extended(s), history[p]}
        BY <2>1, <2>6, <3>3, <4>4 DEF Record, TypeOK
      <4> QED BY <2>1, <3>1, <4>2, <4>3, <4>5, ExtendedFacts
    <3> QED BY <3>2, <3>3
  <2>7. CASE Sweep
    <3>1. p \in scan.todo \cup scan.uncertain
      BY <1>1, <2>1, <2>2, <2>7 DEF Sweep, SeenInv
    <3>2. p \notin Gone
      BY <2>1, <2>7, <3>1 DEF Gone, Sweep, SampleInv
    <3> QED BY <2>7, <3>2 DEF Sweep
  <2>8. CASE UNCHANGED vars
    BY <2>3, <2>8 DEF vars
  <2> QED
    BY <1>1, <2>3, <2>4, <2>5, <2>6, <2>7, <2>8 DEF Next, WorldStep, ScanStep
<1>2. IInv /\ [Next]_vars => [Kept]_vars
  BY <1>1
<1> QED BY <1>2, InductiveInvariant, PTL DEF Spec, KeptWhileAlive

\* What a process has left that was gone before a complete scan began is gone
\* when the scan ends, unless the scan could not be certain of its id.
THEOREM ForgottenCorrect == Spec => GoneIsForgotten
<1> DEFINE AllGone ==
      pc' = "idle" /\ pc = "record" /\ scan.complete
       => \A p \in vacant \ scan.uncertain :
            /\ instances'[p] = NoInstance /\ history'[p] = <<>>
            /\ \A n \in Names : contexts'[<<n, p>>] = NoContext
<1>1. ASSUME IInv, Next, pc' = "idle", pc = "record", scan.complete,
             NEW p \in vacant \ scan.uncertain
      PROVE  /\ instances'[p] = NoInstance /\ history'[p] = <<>>
             /\ \A n \in Names : contexts'[<<n, p>>] = NoContext
  <2>1. TypeOK /\ InstanceInv /\ ContextInv /\ NoOrphans
    BY <1>1 DEF IInv
  <2>2. p \in Pids
    BY <2>1 DEF TypeOK
  <2>3. Sweep
    BY <1>1
    DEF Next, Spawn, Exec, BecomeZombie, Exit, BeginScan, SkipEntry, ReadComm,
        CommFails, ReadStat, ReadStatus, DetailsFail, Uncertain, ScanEnds,
        Record
  <2>4. CASE p \in Gone
    <3>1. instances'[p] = NoInstance /\ history'[p] = << >>
      BY <2>2, <2>3, <2>4 DEF Sweep
    <3>2. ASSUME NEW n \in Names PROVE contexts'[<<n, p>>] = NoContext
      <4>1. contexts[<<n, p>>] # NoContext => n = instances[p].name
        BY <2>1, <2>2 DEF NoOrphans
      <4>2. \/ contexts'[<<n, p>>] = NoContext
            \/ /\ contexts'[<<n, p>>] = contexts[<<n, p>>]
               /\ n # instances[p].name
        BY <2>2, <2>3, <2>4 DEF Sweep, Keys
      <4> QED BY <4>1, <4>2
    <3> QED BY <3>1, <3>2
  <2>5. CASE p \notin Gone
    <3>1. instances[p] = NoInstance
      BY <1>1, <2>2, <2>5 DEF Gone
    <3>2. instances'[p] = NoInstance /\ history'[p] = history[p]
      BY <2>2, <2>3, <2>5, <3>1 DEF Sweep
    <3>3. history[p] = << >>
      BY <2>1, <2>2, <3>1 DEF NoOrphans
    <3>4. ASSUME NEW n \in Names PROVE contexts'[<<n, p>>] = NoContext
      <4>1. contexts[<<n, p>>] # NoContext =>
              instances[p].name = n /\ n # ""
        BY <2>1, <2>2, NameFacts DEF NoOrphans, ContextInv
      <4>2. contexts[<<n, p>>] = NoContext
        BY <2>1, <2>2, <3>1, <4>1, InstanceFacts
      <4> QED BY <2>2, <2>3, <4>2 DEF Sweep, Keys
    <3> QED BY <3>2, <3>3, <3>4
  <2> QED BY <2>4, <2>5
<1>2. IInv /\ [Next]_vars => [AllGone]_vars
  BY <1>1
<1> QED BY <1>2, InductiveInvariant, PTL DEF Spec, GoneIsForgotten

(***************************************************************************)
(* The usage collectors.                                                   *)
(***************************************************************************)
Counters == 0..(Width - 1)

UsageTypeOK ==
  /\ kind \in Reporters /\ time \in Nat \ {0}
  /\ last_event \in [Reporters -> Nat]
  /\ failed \in [Reporters -> Nat] /\ tried \in [Reporters -> Nat]

\* A baseline holds what the counters held.
BaselineInv ==
  \A t \in Targets : baselines[t].whole \in Counters
                       /\ baselines[t].part \in Counters

\* The time of the last event is the one of the last event that was tried.
ReportInv ==
  /\ last_event = tried /\ close = {}
  /\ \A r \in Reporters :
       failed[r] # 0 => tried[r] # 0 /\ failed[r] - tried[r] < Interval

UsageIInv == UsageTypeOK /\ BaselineInv /\ ReportInv /\ DeltasReal

---------------------------------------------------------------------------
\* Unsigned subtraction of what is no greater is subtraction.
LEMMA MinusIsSubtraction ==
  ASSUME NEW a \in Counters, NEW b \in Counters, b <= a
  PROVE  Minus(a, b) = a - b
<1>1. a - b \in 0..(Width - 1)
  BY UsageAssumption DEF Counters
<1>2. \A x \in 0..(Width - 1) : x % Width = x
  BY UsageAssumption
<1> QED BY <1>1, <1>2 DEF Minus

\* What a comparable target has done since its baseline.
LEMMA ComparableDeltas ==
  ASSUME kind \in Reporters, NEW new, NEW old,
         new.whole \in Counters, new.part \in Counters,
         old.whole \in Counters, old.part \in Counters, Comparable(new, old)
  PROVE  /\ Minus(new.whole, old.whole) \in 1..new.whole
         /\ Minus(new.part, old.part) <= new.part
         /\ kind = "cpu_usage" =>
              Minus(new.part, old.part) <= Minus(new.whole, old.whole)
<1>1. /\ old.whole <= new.whole /\ old.part <= new.part
      /\ kind = "cpu_usage" =>
           /\ old.whole < new.whole
           /\ Minus(new.part, old.part) <= Minus(new.whole, old.whole)
      /\ kind # "cpu_usage" => Minus(new.whole, old.whole) # 0
  <2>1. \A x, y \in Counters : x > y => y <= x
    BY UsageAssumption DEF Counters
  <2> QED BY <2>1 DEF Comparable
<1>2. /\ Minus(new.whole, old.whole) = new.whole - old.whole
      /\ Minus(new.part, old.part) = new.part - old.part
  BY <1>1, MinusIsSubtraction
<1>3. new.whole - old.whole # 0
  BY <1>1, <1>2, UsageAssumption DEF Counters
<1>4. /\ new.whole - old.whole \in 1..new.whole
      /\ new.part - old.part <= new.part
  BY <1>1, <1>3, UsageAssumption DEF Counters
<1> QED BY <1>1, <1>2, <1>4

\* A pass returns samples of comparable targets and keeps baselines that fit.
LEMMA CollectKeeps ==
  ASSUME kind \in Reporters, BaselineInv, kind' = kind, NEW current,
         DOMAIN current \subseteq Targets,
         \A t \in DOMAIN current : /\ current[t].whole \in Counters
                                   /\ current[t].part \in Counters,
         Collect(current)
  PROVE  BaselineInv' /\ DeltasReal'
<1> DEFINE present == DOMAIN current
           dated == [t \in Targets |-> IF t \in present THEN time
                                      ELSE baseline_last_seen[t]]
           kept == {t \in Targets : baselines[t] # NoBaseline
                                      /\ ~Expired(t, dated)}
           ready == {t \in present \cap kept :
                       Comparable(current[t], baselines[t])}
<1>1. PICK done \in Reached(present, ready) :
        /\ baselines' = [t \in Targets |->
                           CASE t \in done -> current[t]
                             [] t \in kept \ done -> baselines[t]
                             [] OTHER -> NoBaseline]
        /\ baseline_last_seen' = [t \in Targets |->
                                    IF Expired(t, dated) THEN 0 ELSE dated[t]]
        /\ samples' =
             {[target |-> t, now |-> current[t],
               whole |-> Minus(current[t].whole, baselines[t].whole),
               part |-> Minus(current[t].part, baselines[t].part)] :
                t \in ready \cap done}
  BY Zenon DEF Collect
<1>2. done \subseteq present
  <2> HIDE DEF ready
  <2> QED BY DEF Reached
<1>3. NoBaseline.whole \in Counters /\ NoBaseline.part \in Counters
  BY UsageAssumption DEF NoBaseline, Counters
<1>4. BaselineInv'
  <2> HIDE DEF kept
  <2>1. ASSUME NEW t \in Targets
        PROVE  /\ baselines'[t].whole \in Counters
               /\ baselines'[t].part \in Counters
    <3>1. \/ t \in present /\ baselines'[t] = current[t]
          \/ baselines'[t] \in {baselines[t], NoBaseline}
      BY <1>1, <1>2
    <3> QED BY <1>3, <3>1 DEF BaselineInv
  <2> QED BY <2>1 DEF BaselineInv, Counters
<1>5. ASSUME NEW s \in samples'
      PROVE  /\ s.whole \in 1..s.now.whole /\ s.part <= s.now.part
             /\ kind = "cpu_usage" => s.part <= s.whole
  <2>1. PICK t \in ready :
          s = [target |-> t, now |-> current[t],
               whole |-> Minus(current[t].whole, baselines[t].whole),
               part |-> Minus(current[t].part, baselines[t].part)]
    <3> HIDE DEF ready
    <3> QED BY <1>1
  <2>2. /\ t \in present /\ t \in Targets
        /\ Comparable(current[t], baselines[t])
    OBVIOUS
  <2>3. /\ s.now = current[t]
        /\ s.whole = Minus(current[t].whole, baselines[t].whole)
        /\ s.part = Minus(current[t].part, baselines[t].part)
    BY <2>1
  <2> HIDE DEF ready
  <2>4. /\ Minus(current[t].whole, baselines[t].whole) \in 1..current[t].whole
        /\ Minus(current[t].part, baselines[t].part) <= current[t].part
        /\ kind = "cpu_usage" =>
             Minus(current[t].part, baselines[t].part)
               <= Minus(current[t].whole, baselines[t].whole)
    BY <2>2, ComparableDeltas DEF BaselineInv
  <2> QED BY <2>3, <2>4
<1>6. DeltasReal'
  BY <1>5 DEF DeltasReal
<1> QED BY <1>4, <1>6

\* An event is tried when it is due, and then it is the last one.
LEMMA FailureKeeps ==
  ASSUME UsageTypeOK, ReportInv, NEW r \in Reporters,
         publish_collector_failure(r), kind' = kind, time' = time
  PROVE  UsageTypeOK' /\ ReportInv'
<1>1. /\ last_event \in [Reporters -> Nat] /\ failed \in [Reporters -> Nat]
      /\ tried \in [Reporters -> Nat] /\ time \in Nat /\ time # 0
      /\ last_event = tried /\ close = {}
  BY DEF UsageTypeOK, ReportInv
<1>2. failed' = [failed EXCEPT ![r] = time]
  BY DEF publish_collector_failure, Failed
<1>3. CASE Due(r)
  <2>1. /\ last_event' = [last_event EXCEPT ![r] = time]
        /\ tried' = [tried EXCEPT ![r] = time]
    BY <1>3 DEF publish_collector_failure, Failed
  <2>2. tried[r] # 0 => ~(time - tried[r] < Interval)
    BY <1>1, <1>3, UsageAssumption DEF Due
  <2>3. close' = {}
    BY <1>1, <2>2 DEF publish_collector_failure, Failed
  <2>4. UsageTypeOK'
    BY <1>1, <1>2, <2>1 DEF UsageTypeOK
  <2>5. ASSUME NEW q \in Reporters, failed'[q] # 0
        PROVE  tried'[q] # 0 /\ failed'[q] - tried'[q] < Interval
    BY <1>1, <1>2, <2>1, <2>5, UsageAssumption DEF ReportInv
  <2> QED BY <1>1, <2>1, <2>3, <2>4, <2>5 DEF ReportInv
<1>4. CASE ~Due(r)
  <2>1. last_event' = last_event /\ tried' = tried /\ close' = close
    <3>1. tried' = [tried EXCEPT ![r] = tried[r]]
      BY <1>4 DEF publish_collector_failure, Failed
    <3> QED BY <1>1, <1>4, <3>1 DEF publish_collector_failure, Failed
  <2>2. tried[r] # 0 /\ time - tried[r] < Interval
    BY <1>1, <1>4, UsageAssumption DEF Due
  <2>3. UsageTypeOK'
    BY <1>1, <1>2, <2>1 DEF UsageTypeOK
  <2>4. ASSUME NEW q \in Reporters, failed'[q] # 0
        PROVE  tried'[q] # 0 /\ failed'[q] - tried'[q] < Interval
    BY <1>1, <1>2, <2>1, <2>2, <2>4 DEF ReportInv
  <2> QED BY <1>1, <2>1, <2>3, <2>4 DEF ReportInv
<1> QED BY <1>3, <1>4

---------------------------------------------------------------------------
\* Initially nothing has been read and nothing has failed.
LEMMA InitUsageIInv == UsageInit => UsageIInv
<1> SUFFICES ASSUME UsageInit PROVE UsageIInv
  OBVIOUS
<1>1. UsageTypeOK /\ ReportInv
  BY DEF UsageInit, UsageTypeOK, ReportInv
<1>2. BaselineInv
  BY UsageAssumption DEF UsageInit, BaselineInv, NoBaseline, Counters
<1>3. DeltasReal
  BY DEF UsageInit, DeltasReal
<1> QED BY <1>1, <1>2, <1>3 DEF UsageIInv

\* Every step keeps the invariant.
LEMMA NextUsageIInv == UsageIInv /\ [UsageNext]_usageVars => UsageIInv'
<1> SUFFICES ASSUME UsageIInv, [UsageNext]_usageVars PROVE UsageIInv'
  OBVIOUS
<1>1. UsageTypeOK /\ BaselineInv /\ ReportInv /\ DeltasReal
  BY DEF UsageIInv
<1>2. CASE CollectorPass
  <2>1. UNCHANGED <<kind, time, reports>>
    BY <1>2 DEF CollectorPass
  <2>2. UsageTypeOK' /\ ReportInv'
    BY <1>1, <2>1 DEF UsageTypeOK, ReportInv, reports
  <2>3. PICK present \in (SUBSET Targets) \ {{}} :
          \E counts \in [present -> [whole : 0..MaxCount, part : 0..MaxPart]] :
            Collect([t \in present |-> [whole |-> counts[t].whole,
                                        part |-> counts[t].part,
                                        at |-> time]])
    BY <1>2 DEF CollectorPass
  <2>4. PICK counts \in [present -> [whole : 0..MaxCount, part : 0..MaxPart]] :
          Collect([t \in present |-> [whole |-> counts[t].whole,
                                      part |-> counts[t].part, at |-> time]])
    BY <2>3
  <2> DEFINE current == [t \in present |-> [whole |-> counts[t].whole,
                                            part |-> counts[t].part,
                                            at |-> time]]
  <2>5. \A t \in present : /\ current[t].whole \in Counters
                           /\ current[t].part \in Counters
    <3>1. 0..MaxCount \subseteq Counters /\ 0..MaxPart \subseteq Counters
      BY UsageAssumption DEF Counters
    <3> QED BY <3>1
  <2>6. DOMAIN current = present /\ present \subseteq Targets
    OBVIOUS
  <2>7. Collect(current)
    BY <2>4
  <2> HIDE DEF current
  <2>8. BaselineInv' /\ DeltasReal'
    BY <1>1, <2>1, <2>5, <2>6, <2>7, CollectKeeps DEF UsageTypeOK
  <2> QED BY <2>2, <2>8 DEF UsageIInv
<1>3. ASSUME NEW r \in Reporters, CollectFails(r) PROVE UsageIInv'
  <2>1. /\ samples' = {} /\ UNCHANGED <<kind, time, baselines>>
        /\ publish_collector_failure(r)
    BY <1>3 DEF CollectFails
  <2>2. UsageTypeOK' /\ ReportInv'
    BY <1>1, <2>1, FailureKeeps
  <2>3. BaselineInv' /\ DeltasReal'
    BY <1>1, <2>1 DEF BaselineInv, Counters, DeltasReal
  <2> QED BY <2>2, <2>3 DEF UsageIInv
<1>4. CASE UsageTick
  <2>1. /\ time' = time + 1 /\ samples' = {}
        /\ UNCHANGED <<kind, baselines, reports>>
    BY <1>4 DEF UsageTick
  <2>2. UsageTypeOK' /\ ReportInv'
    BY <1>1, <2>1 DEF UsageTypeOK, ReportInv, reports
  <2>3. BaselineInv' /\ DeltasReal'
    BY <1>1, <2>1 DEF BaselineInv, Counters, DeltasReal
  <2> QED BY <2>2, <2>3 DEF UsageIInv
<1>5. CASE UNCHANGED usageVars
  BY <1>1, <1>5
  DEF usageVars, reports, UsageIInv, UsageTypeOK, BaselineInv, Counters,
      ReportInv, DeltasReal
<1> QED BY <1>2, <1>3, <1>4, <1>5 DEF UsageNext, Failures

\* The invariant holds in every reachable state.
THEOREM UsageInductiveInvariant == UsageSpec => []UsageIInv
<1>1. UsageInit => UsageIInv
  BY InitUsageIInv
<1>2. UsageIInv /\ [UsageNext]_usageVars => UsageIInv'
  BY NextUsageIInv
<1> QED BY <1>1, <1>2, PTL DEF UsageSpec

\* CpuUsageCollector and IoDelayCollector never report the difference of
\* counters that ran backwards or began again.
THEOREM DeltasCorrect == UsageSpec => []DeltasReal
<1>1. UsageIInv => DeltasReal
  BY DEF UsageIInv
<1> QED BY <1>1, UsageInductiveInvariant, PTL

\* publish_collector_failure tries an event for every collector that fails,
\* within an interval and not twice in one.
THEOREM FailureCorrect == UsageSpec => []FailureAnnounced
<1>1. UsageIInv => FailureAnnounced
  BY DEF UsageIInv, ReportInv, FailureAnnounced
<1> QED BY <1>1, UsageInductiveInvariant, PTL

(***************************************************************************)
(* The scheduler-delay collector of /proc.                                 *)
(***************************************************************************)
PassType ==
  [began : Nat, todo : SUBSET SchedPids, listed : SUBSET SchedPids,
   pid : SchedPids \cup {0}, samples : Nat, scanned : Nat,
   unread : SUBSET SchedPids]

SchedTypeOK ==
  /\ tasks \in [SchedPids -> [start : Nat, name : Programs \cup {""},
                              since : Nat]]
  /\ births \in Nat /\ sched_clock \in Nat \ {0}
  /\ process_names \in [SchedPids -> [comm : Programs \cup {""},
                                      refreshed_at : Nat, last_seen : Nat]]
  /\ thread_baselines \in [SchedPids -> [of : Nat, last_seen : Nat]]
  /\ at \in {"idle", "entries", "task"}
  /\ pass \in PassType
  /\ at = "task" => pass.pid \in pass.todo

\* A name is read of the thread that has it, and nothing is dated ahead.
NamesInv ==
  \A p \in SchedPids :
    /\ tasks[p].since <= sched_clock
    /\ process_names[p].refreshed_at <= sched_clock
    /\ Exists(p) /\ process_names[p].refreshed_at > tasks[p].since
         => process_names[p].comm = tasks[p].name

\* A pass leaves only baselines that were young when it began.
YoungInv ==
  /\ \A p \in SchedPids :
       thread_baselines[p].last_seen = 0 =>
         thread_baselines[p] = NoThreadBaseline
  /\ at # "idle" =>
       /\ pass.began \in 1..sched_clock
       /\ \A p \in SchedPids :
            thread_baselines[p] # NoThreadBaseline =>
              pass.began - thread_baselines[p].last_seen < SchedTtl

\* A thread that has had a watched name for a refresh when the pass begins.
Settling(p) ==
  /\ Exists(p) /\ should_scan_process(p, tasks[p].name)
  /\ tasks[p].since + SchedRefresh <= pass.began

\* What the pass has left behind, it has read.
ReadInv ==
  SchedRefresh # 0 /\ at # "idle" =>
    \A p \in SchedPids \ (pass.todo \cup pass.unread) :
      Settling(p) =>
        thread_baselines[p] = [of |-> tasks[p].start,
                               last_seen |-> pass.began]

SchedIInv == SchedTypeOK /\ NamesInv /\ YoungInv /\ ReadInv

\* The next entry is one of those that are left.
LEMMA NextEntryIsLeft ==
  ASSUME SchedTypeOK, pass.todo # {}
  PROVE  NextEntry \in pass.todo /\ NextEntry \in SchedPids
<1>1. pass.todo \subseteq SchedPids
  BY DEF SchedTypeOK, PassType
<1>2. \E p \in pass.todo : \A q \in pass.todo : p <= q
  BY <1>1, SchedAssumption, Smallest
<1> QED BY <1>1, <1>2 DEF NextEntry

\* A task as a record of its fields.
Task == [start : Nat, name : Programs \cup {""}, since : Nat]

\* The collector starts in the invariant.
LEMMA InitSchedIInv == SchedInit => SchedIInv
<1> SUFFICES ASSUME SchedInit PROVE SchedIInv
  OBVIOUS
<1>1. /\ tasks = [p \in SchedPids |-> NoTask] /\ births = 0
      /\ sched_clock = 1 /\ at = "idle" /\ pass = NoPass
      /\ process_names = [p \in SchedPids |-> NoName]
      /\ thread_baselines = [p \in SchedPids |-> NoThreadBaseline]
  BY DEF SchedInit
<1>2. SchedTypeOK
  <2>1. /\ NoTask \in [start : Nat, name : Programs \cup {""}, since : Nat]
        /\ NoName \in [comm : Programs \cup {""}, refreshed_at : Nat,
                       last_seen : Nat]
        /\ NoThreadBaseline \in [of : Nat, last_seen : Nat]
    BY DEF NoTask, NoName, NoThreadBaseline
  <2>2. NoPass \in PassType
    BY DEF NoPass, PassType
  <2>3. births \in Nat /\ sched_clock \in Nat \ {0}
    BY <1>1
  <2> QED BY <1>1, <2>1, <2>2, <2>3, Zenon DEF SchedTypeOK
<1>3. NamesInv
  <2>1. NoTask.since = 0 /\ NoTask.start = 0 /\ NoName.refreshed_at = 0
    BY DEF NoTask, NoName
  <2> QED BY <1>1, <2>1 DEF NamesInv, Exists
<1>4. YoungInv /\ ReadInv
  BY <1>1 DEF YoungInv, ReadInv
<1> QED BY <1>2, <1>3, <1>4 DEF SchedIInv

\* A step of the threads or the clock.
SchedWorldStep ==
  \/ \E p \in SchedPids, n \in Programs : StartThread(p, n) \/ ExecAs(p, n)
  \/ \E p \in SchedPids : EndThread(p)
  \/ SchedTick

\* What such a step does: a task is left alone, gone, or dated now.
LEMMA SchedWorldShape ==
  ASSUME SchedTypeOK, SchedWorldStep
  PROVE  /\ UNCHANGED <<process_names, thread_baselines, at, pass>>
         /\ sched_clock' \in Nat \ {0} /\ sched_clock <= sched_clock'
         /\ tasks' \in [SchedPids -> Task] /\ births' \in Nat
         /\ \A q \in SchedPids :
              \/ tasks'[q] = tasks[q]
              \/ tasks'[q].since = sched_clock
              \/ tasks'[q].start = 0 /\ tasks'[q].since = 0
<1>1. /\ tasks \in [SchedPids -> Task] /\ births \in Nat
      /\ sched_clock \in Nat \ {0}
  BY DEF SchedTypeOK, Task
<1> DEFINE Shape ==
             /\ UNCHANGED <<process_names, thread_baselines, at, pass>>
             /\ sched_clock' \in Nat \ {0} /\ sched_clock <= sched_clock'
             /\ tasks' \in [SchedPids -> Task] /\ births' \in Nat
             /\ \A q \in SchedPids :
                  \/ tasks'[q] = tasks[q]
                  \/ tasks'[q].since = sched_clock
                  \/ tasks'[q].start = 0 /\ tasks'[q].since = 0
<1>2. ASSUME NEW p \in SchedPids, NEW n \in Programs, StartThread(p, n)
      PROVE  Shape
  <2> DEFINE new == [start |-> births + 1, name |-> n, since |-> sched_clock]
  <2>0. births + 1 \in Nat /\ sched_clock \in Nat
    BY <1>1
  <2>1. new \in Task /\ new.since = sched_clock
    BY <2>0 DEF Task
  <2> HIDE DEF new
  <2>2. tasks' = [tasks EXCEPT ![p] = new]
    BY <1>2 DEF StartThread, new
  <2> QED BY <1>1, <1>2, <2>1, <2>2 DEF StartThread, schedMaps
<1>3. ASSUME NEW p \in SchedPids, NEW n \in Programs, ExecAs(p, n)
      PROVE  Shape
  <2> DEFINE new == [tasks[p] EXCEPT !.name = n, !.since = sched_clock]
  <2>1. new \in Task /\ new.since = sched_clock
    <3>1. tasks[p] \in Task /\ sched_clock \in Nat
      BY <1>1
    <3> QED BY <3>1 DEF Task
  <2>3. tasks' = [tasks EXCEPT ![p] = new]
    BY <1>3 DEF ExecAs
  <2> HIDE DEF new
  <2>4. births' = births /\ sched_clock' = sched_clock
        /\ UNCHANGED <<process_names, thread_baselines, at, pass>>
    BY <1>3 DEF ExecAs, schedMaps
  <2> QED BY <1>1, <2>1, <2>3, <2>4
<1>4. ASSUME NEW p \in SchedPids, EndThread(p)
      PROVE  Shape
  <2>1. NoTask \in Task /\ NoTask.start = 0 /\ NoTask.since = 0
    BY DEF NoTask, Task
  <2> QED BY <1>1, <1>4, <2>1 DEF EndThread, schedMaps
<1>5. CASE SchedTick
  BY <1>1, <1>5 DEF SchedTick, schedMaps, schedWorld
<1> QED BY <1>2, <1>3, <1>4, <1>5 DEF SchedWorldStep

\* Threads and the clock: who starts or gets a name now has not had it for a
\* refresh.
LEMMA SchedWorldKeeps ==
  ASSUME SchedIInv, SchedWorldStep
  PROVE  SchedIInv'
<1>1. /\ UNCHANGED <<process_names, thread_baselines, at, pass>>
      /\ sched_clock' \in Nat \ {0} /\ sched_clock <= sched_clock'
      /\ tasks' \in [SchedPids -> Task] /\ births' \in Nat
      /\ \A q \in SchedPids :
           \/ tasks'[q] = tasks[q]
           \/ tasks'[q].since = sched_clock
           \/ tasks'[q].start = 0 /\ tasks'[q].since = 0
  BY SchedWorldShape DEF SchedIInv
<1>2. SchedTypeOK /\ sched_clock \in Nat
  BY DEF SchedIInv, SchedTypeOK
<1>3. \A p \in SchedPids : /\ process_names[p].refreshed_at \in Nat
                           /\ tasks[p].since \in Nat
                           /\ tasks'[p].since \in Nat
  BY <1>1, <1>2 DEF SchedTypeOK, Task
<1>4. SchedTypeOK'
  BY <1>1, <1>2 DEF SchedTypeOK, Task
<1>5. NamesInv'
  <2> SUFFICES ASSUME NEW p \in SchedPids
      PROVE  /\ tasks'[p].since <= sched_clock'
             /\ process_names[p].refreshed_at <= sched_clock'
             /\ /\ tasks'[p].start # 0
                /\ process_names[p].refreshed_at > tasks'[p].since
                => process_names[p].comm = tasks'[p].name
    BY <1>1 DEF NamesInv, Exists
  <2>1. /\ tasks[p].since <= sched_clock
        /\ process_names[p].refreshed_at <= sched_clock
        /\ /\ tasks[p].start # 0
           /\ process_names[p].refreshed_at > tasks[p].since
           => process_names[p].comm = tasks[p].name
    BY DEF SchedIInv, NamesInv, Exists
  <2> QED BY <1>1, <1>2, <1>3, <2>1
<1>6. YoungInv'
  <2>1. \A b \in 1..sched_clock : b \in 1..sched_clock'
    BY <1>1, <1>2
  <2> QED BY <1>1, <2>1 DEF SchedIInv, YoungInv
<1>7. ReadInv'
  <2> SUFFICES ASSUME SchedRefresh # 0, at # "idle", NEW p \in SchedPids,
                      p \notin pass.todo \cup pass.unread, Settling(p)'
               PROVE  thread_baselines[p] = [of |-> tasks'[p].start,
                                             last_seen |-> pass.began]
    BY <1>1 DEF ReadInv
  <2>1. pass.began \in Nat /\ pass.began <= sched_clock
    BY <1>2 DEF SchedIInv, YoungInv
  <2>2. tasks'[p].start # 0 /\ tasks'[p].since + SchedRefresh <= pass.began
    BY <1>1 DEF Settling, Exists
  <2>3. tasks'[p] = tasks[p]
    BY <1>1, <1>2, <1>3, <2>1, <2>2, SchedAssumption
  <2>4. Settling(p)
    BY <1>1, <2>2, <2>3 DEF Settling, Exists, should_scan_process
  <2> QED BY <2>3, <2>4 DEF SchedIInv, ReadInv
<1> QED BY <1>4, <1>5, <1>6, <1>7 DEF SchedIInv

\* A step that goes on to the next entry, and may count a thread.
LEMMA LeaveShape ==
  ASSUME SchedTypeOK, NEW p, NEW unread \in SUBSET SchedPids,
         Leave(p, unread)
  PROVE  /\ at' = "entries" /\ pass' \in PassType
         /\ pass'.began = pass.began /\ pass'.todo = pass.todo \ {p}
         /\ pass'.unread = pass.unread \cup unread
         /\ pass'.samples = pass.samples
<1>1. pass \in PassType
  BY DEF SchedTypeOK
<1> QED BY <1>1 DEF Leave, PassType

\* A step inside a pass, at process p: the name of a process stays, is
\* forgotten or is read now, and the baseline of p may be replaced.
InPass(p) ==
  /\ at # "idle" /\ at' \in {"entries", "task"}
  /\ UNCHANGED <<limits, schedWorld, sched_clock>>
  /\ pass' \in PassType
  /\ at' = "task" => pass'.pid \in pass'.todo
  /\ pass'.began = pass.began /\ pass.unread \subseteq pass'.unread
  /\ pass.todo \ {p} \subseteq pass'.todo
  /\ process_names' \in [SchedPids -> [comm : Programs \cup {""},
                                       refreshed_at : Nat,
                                       last_seen : Nat]]
  /\ \A q \in SchedPids :
       \/ /\ process_names'[q].comm = process_names[q].comm
          /\ process_names'[q].refreshed_at = process_names[q].refreshed_at
       \/ process_names'[q].refreshed_at = 0
       \/ /\ process_names'[q].comm = tasks[q].name
          /\ process_names'[q].refreshed_at = sched_clock
  /\ \/ UNCHANGED thread_baselines
     \/ thread_baselines' = [thread_baselines EXCEPT ![p] =
          [of |-> tasks[p].start, last_seen |-> pass.began]]
  /\ SchedRefresh # 0 /\ p \notin pass'.todo \cup pass'.unread /\ Settling(p)
       => thread_baselines'[p] = [of |-> tasks[p].start,
                                  last_seen |-> pass.began]

\* What is known of the collector inside a pass.
LEMMA PassFacts ==
  ASSUME SchedIInv, at # "idle"
  PROVE  /\ sched_clock \in Nat /\ pass.began \in Nat
         /\ pass.began > 0 /\ pass.began <= sched_clock
         /\ \A q \in SchedPids : tasks[q] \in Task
<1>1. SchedTypeOK /\ YoungInv
  BY DEF SchedIInv
<1>2. sched_clock \in Nat /\ pass.began \in 1..sched_clock
  BY <1>1 DEF SchedTypeOK, YoungInv
<1>3. \A q \in SchedPids : tasks[q] \in Task
  BY <1>1 DEF SchedTypeOK, Task
<1> QED BY <1>2, <1>3

\* The names stay true.
LEMMA PassKeepsNames ==
  ASSUME SchedIInv, NEW p \in SchedPids, InPass(p)
  PROVE  NamesInv'
<1>1. sched_clock \in Nat /\ tasks' = tasks /\ sched_clock' = sched_clock
  BY PassFacts DEF InPass, schedWorld
<1> SUFFICES ASSUME NEW q \in SchedPids
    PROVE  /\ tasks[q].since <= sched_clock
           /\ process_names'[q].refreshed_at <= sched_clock
           /\ /\ tasks[q].start # 0
              /\ process_names'[q].refreshed_at > tasks[q].since
              => process_names'[q].comm = tasks[q].name
  BY <1>1 DEF NamesInv, Exists
<1>2. /\ tasks[q].since <= sched_clock
      /\ process_names[q].refreshed_at <= sched_clock
      /\ /\ tasks[q].start # 0
         /\ process_names[q].refreshed_at > tasks[q].since
         => process_names[q].comm = tasks[q].name
  BY DEF SchedIInv, NamesInv, Exists
<1>3. tasks[q].since \in Nat /\ process_names[q].refreshed_at \in Nat
  <2>1. tasks[q] \in Task
    BY PassFacts DEF InPass
  <2> QED BY <2>1 DEF Task, SchedIInv, SchedTypeOK
<1>4. \/ /\ process_names'[q].comm = process_names[q].comm
         /\ process_names'[q].refreshed_at = process_names[q].refreshed_at
      \/ process_names'[q].refreshed_at = 0
      \/ /\ process_names'[q].comm = tasks[q].name
         /\ process_names'[q].refreshed_at = sched_clock
  BY DEF InPass
<1> QED BY <1>1, <1>2, <1>3, <1>4

\* The baselines stay young, and what is left behind is read.
LEMMA PassKeepsBaselines ==
  ASSUME SchedIInv, NEW p \in SchedPids, InPass(p)
  PROVE  /\ thread_baselines' \in [SchedPids -> [of : Nat, last_seen : Nat]]
         /\ YoungInv' /\ ReadInv'
<1>1. /\ YoungInv /\ ReadInv /\ at # "idle"
      /\ tasks' = tasks /\ sched_clock' = sched_clock
      /\ pass'.began = pass.began
      /\ thread_baselines \in [SchedPids -> [of : Nat, last_seen : Nat]]
  BY DEF SchedIInv, SchedTypeOK, InPass, schedWorld
<1>2. /\ pass.began \in Nat /\ pass.began > 0 /\ sched_clock \in Nat
      /\ pass.began <= sched_clock /\ tasks[p] \in Task
  BY <1>1, PassFacts
<1> DEFINE new == [of |-> tasks[p].start, last_seen |-> pass.began]
<1>3. new \in [of : Nat, last_seen : Nat] /\ new.last_seen = pass.began
  BY <1>2 DEF Task
<1>4. \/ thread_baselines' = thread_baselines
      \/ thread_baselines' = [thread_baselines EXCEPT ![p] = new]
  BY DEF InPass
<1>5. SchedRefresh # 0 /\ p \notin pass'.todo \cup pass'.unread /\ Settling(p)
        => thread_baselines'[p] = new
  BY DEF InPass
<1> HIDE DEF new
<1>6. thread_baselines' \in [SchedPids -> [of : Nat, last_seen : Nat]]
  BY <1>1, <1>3, <1>4
<1>7. YoungInv'
  <2>1. \A q \in SchedPids :
          thread_baselines'[q] = thread_baselines[q]
          \/ thread_baselines'[q].last_seen = pass.began
    BY <1>1, <1>3, <1>4
  <2>2. pass.began - pass.began < SchedTtl
    <3>1. pass.began - pass.began = 0
      BY <1>2
    <3> QED BY <3>1, SchedAssumption
  <2>3. pass.began \in 1..sched_clock
    BY <1>2
  <2> QED BY <1>1, <1>2, <2>1, <2>2, <2>3 DEF YoungInv
<1>8. ReadInv'
  <2> SUFFICES ASSUME SchedRefresh # 0, NEW q \in SchedPids,
                      q \notin pass'.todo \cup pass'.unread, Settling(q)'
               PROVE  thread_baselines'[q] = [of |-> tasks[q].start,
                                              last_seen |-> pass.began]
    BY <1>1 DEF ReadInv
  <2>1. Settling(q)
    BY <1>1 DEF Settling, Exists, should_scan_process
  <2>2. CASE q = p
    BY <1>5, <2>1, <2>2 DEF new
  <2>3. CASE q # p
    <3>1. q \notin pass.todo \cup pass.unread
      BY <2>3 DEF InPass
    <3>2. thread_baselines[q] = [of |-> tasks[q].start,
                                 last_seen |-> pass.began]
      BY <1>1, <2>1, <3>1 DEF ReadInv
    <3> QED BY <1>1, <1>4, <2>3, <3>2
  <2> QED BY <2>2, <2>3
<1> QED BY <1>6, <1>7, <1>8

\* A step inside a pass keeps the invariant.
LEMMA PassKeeps ==
  ASSUME SchedIInv, NEW p \in SchedPids, InPass(p)
  PROVE  SchedIInv'
<1>1. NamesInv' /\ YoungInv' /\ ReadInv'
  BY PassKeepsNames, PassKeepsBaselines
<1>2. SchedTypeOK'
  <2>1. thread_baselines' \in [SchedPids -> [of : Nat, last_seen : Nat]]
    BY PassKeepsBaselines
  <2>2. UNCHANGED <<tasks, births, sched_clock>>
    BY DEF InPass, schedWorld
  <2>3. /\ at' \in {"idle", "entries", "task"} /\ pass' \in PassType
        /\ at' = "task" => pass'.pid \in pass'.todo
        /\ process_names' \in [SchedPids -> [comm : Programs \cup {""},
                                             refreshed_at : Nat,
                                             last_seen : Nat]]
    BY DEF InPass
  <2> QED BY <2>1, <2>2, <2>3 DEF SchedIInv, SchedTypeOK
<1> QED BY <1>1, <1>2 DEF SchedIInv

\* A step that goes on to the next entry and changes no map.
LEMMA InPassLeave ==
  ASSUME SchedIInv, at # "idle", NEW p \in SchedPids,
         NEW unread \in SUBSET SchedPids,
         Leave(p, unread), UNCHANGED <<limits, schedWorld, sched_clock>>,
         UNCHANGED schedMaps, SchedRefresh = 0 \/ p \in unread \/ ~Settling(p)
  PROVE  SchedIInv'
<1>1. SchedTypeOK
  BY DEF SchedIInv
<1>2. /\ at' = "entries" /\ pass' \in PassType
      /\ pass'.began = pass.began /\ pass'.todo = pass.todo \ {p}
      /\ pass'.unread = pass.unread \cup unread
  BY <1>1, LeaveShape
<1>3. UNCHANGED <<process_names, thread_baselines>>
  BY DEF schedMaps
<1>4. InPass(p)
  BY <1>1, <1>2, <1>3 DEF InPass, SchedTypeOK
<1> QED BY <1>4, PassKeeps

\* A pass begins.
LEMMA BeginKeeps ==
  ASSUME SchedIInv, NEW listed \in BOOLEAN, Begin(listed)
  PROVE  SchedIInv'
<1> DEFINE Kept(e, none) == IF Outdated(e) THEN none ELSE e
<1>1. /\ SchedTypeOK /\ NamesInv /\ YoungInv
      /\ tasks' = tasks /\ births' = births /\ sched_clock' = sched_clock
      /\ sched_clock \in Nat \ {0} /\ at = "idle"
      /\ process_names' =
           [q \in SchedPids |-> Kept(process_names[q], NoName)]
      /\ thread_baselines' =
           [q \in SchedPids |-> Kept(thread_baselines[q], NoThreadBaseline)]
  BY DEF SchedIInv, SchedTypeOK, Begin, schedWorld
<1>2. /\ process_names' \in [SchedPids -> [comm : Programs \cup {""},
                                           refreshed_at : Nat,
                                           last_seen : Nat]]
      /\ thread_baselines' \in [SchedPids -> [of : Nat, last_seen : Nat]]
  <2>1. /\ NoName \in [comm : Programs \cup {""}, refreshed_at : Nat,
                       last_seen : Nat]
        /\ NoThreadBaseline \in [of : Nat, last_seen : Nat]
    BY DEF NoName, NoThreadBaseline
  <2>2. /\ process_names \in [SchedPids -> [comm : Programs \cup {""},
                                            refreshed_at : Nat,
                                            last_seen : Nat]]
        /\ thread_baselines \in [SchedPids -> [of : Nat, last_seen : Nat]]
    BY <1>1 DEF SchedTypeOK
  <2> QED BY <1>1, <2>1, <2>2
<1>3. NamesInv'
  <2>1. \A q \in SchedPids :
          process_names'[q] = process_names[q] \/ process_names'[q] = NoName
    BY <1>1
  <2>2. NoName.refreshed_at = 0
    BY DEF NoName
  <2>3. \A q \in SchedPids : tasks[q].since \in Nat
    BY <1>1 DEF SchedTypeOK
  <2> QED BY <1>1, <2>1, <2>2, <2>3 DEF NamesInv, Exists
\* What is left of the baselines is younger than the TTL.
<1>4. \A q \in SchedPids :
        /\ thread_baselines'[q].last_seen = 0
             => thread_baselines'[q] = NoThreadBaseline
        /\ thread_baselines'[q] # NoThreadBaseline
             => sched_clock - thread_baselines'[q].last_seen < SchedTtl
  <2> TAKE q \in SchedPids
  <2>1. /\ thread_baselines[q].last_seen \in Nat
        /\ thread_baselines[q].last_seen = 0
             => thread_baselines[q] = NoThreadBaseline
    BY <1>1 DEF SchedTypeOK, YoungInv
  <2>2. CASE Outdated(thread_baselines[q])
    BY <1>1, <2>2
  <2>3. CASE ~Outdated(thread_baselines[q])
    <3>1. thread_baselines'[q] = thread_baselines[q]
      BY <1>1, <2>3
    <3> QED BY <1>1, <2>1, <2>3, <3>1, SchedAssumption DEF Outdated
  <2> QED BY <2>2, <2>3
<1>5. CASE listed
  <2>1. /\ at' = "entries" /\ pass' \in PassType
        /\ pass'.began = sched_clock /\ pass'.todo = SchedPids
    <3> DEFINE here == {q \in SchedPids : Exists(q)}
    <3>1. /\ at' = "entries"
          /\ pass' = [NoPass EXCEPT !.began = sched_clock, !.todo = SchedPids,
                              !.listed = here]
      BY <1>5 DEF Begin
    <3>2. here \in SUBSET SchedPids /\ sched_clock \in Nat
      BY <1>1
    <3>3. NoPass \in PassType
      BY DEF NoPass, PassType
    <3> HIDE DEF here
    <3> QED BY <3>1, <3>2, <3>3 DEF PassType
  <2>2. SchedTypeOK'
    BY <1>1, <1>2, <2>1 DEF SchedTypeOK, Task
  <2>3. YoungInv'
    <3>1. sched_clock \in 1..sched_clock
      BY <1>1
    <3> QED BY <1>1, <1>4, <2>1, <3>1 DEF YoungInv
  <2>4. ReadInv'
    BY <2>1 DEF ReadInv
  <2> QED BY <1>3, <2>2, <2>3, <2>4 DEF SchedIInv
<1>6. CASE ~listed
  <2>1. at' = "idle" /\ pass' = pass
    BY <1>1, <1>6 DEF Begin
  <2>2. SchedTypeOK'
    BY <1>1, <1>2, <2>1 DEF SchedTypeOK, Task
  <2>3. YoungInv' /\ ReadInv'
    BY <1>4, <2>1 DEF YoungInv, ReadInv
  <2> QED BY <1>3, <2>2, <2>3 DEF SchedIInv
<1> QED BY <1>5, <1>6

\* The end of a pass.
LEMMA PassEndKeeps ==
  ASSUME SchedIInv, at' = "idle", pass' = NoPass,
         UNCHANGED <<limits, schedWorld, sched_clock, schedMaps>>
  PROVE  SchedIInv'
<1>1. /\ UNCHANGED <<tasks, births, sched_clock, process_names>>
      /\ UNCHANGED thread_baselines
  BY DEF schedWorld, schedMaps
<1>2. NoPass \in PassType
  BY DEF NoPass, PassType
<1>3. SchedTypeOK'
  BY <1>1, <1>2 DEF SchedIInv, SchedTypeOK
<1>4. NamesInv'
  BY <1>1 DEF SchedIInv, NamesInv, Exists
<1>5. YoungInv' /\ ReadInv'
  BY <1>1 DEF SchedIInv, YoungInv, ReadInv
<1> QED BY <1>3, <1>4, <1>5 DEF SchedIInv

\* An entry that is passed over is of no process that is watched.
LEMMA PassOverKeeps ==
  ASSUME SchedIInv, PassOver
  PROVE  SchedIInv'
<1> DEFINE p == NextEntry
<1>1. p \in SchedPids
  BY NextEntryIsLeft DEF SchedIInv, PassOver, AtEntry
<1>2. ~Settling(p)
  BY DEF PassOver, Settling, should_scan_process
<1> QED BY <1>1, <1>2, InPassLeave DEF PassOver, AtEntry

\* A process that cannot be named, or whose threads cannot be listed.
LEMMA UnreadKeeps ==
  ASSUME SchedIInv, ProcessUnnamed \/ TasksUnlisted
  PROVE  SchedIInv'
<1>1. CASE ProcessUnnamed
  <2> DEFINE p == NextEntry
  <2>1. p \in SchedPids
    BY <1>1, NextEntryIsLeft DEF SchedIInv, ProcessUnnamed, AtEntry
  <2>2. Leave(p, {p})
    BY <1>1 DEF ProcessUnnamed
  <2>3. /\ at' = "entries" /\ pass' \in PassType
        /\ pass'.began = pass.began /\ pass'.todo = pass.todo \ {p}
        /\ pass'.unread = pass.unread \cup {p}
    BY <2>1, <2>2, LeaveShape DEF SchedIInv
  <2>4. /\ at # "idle" /\ UNCHANGED <<limits, schedWorld, sched_clock>>
        /\ process_names' = [process_names EXCEPT ![p] = NoName]
        /\ UNCHANGED thread_baselines
    BY <1>1 DEF ProcessUnnamed, AtEntry
  <2>5. /\ NoName \in [comm : Programs \cup {""}, refreshed_at : Nat,
                       last_seen : Nat]
        /\ NoName.refreshed_at = 0
    BY DEF NoName
  <2>6. process_names \in [SchedPids -> [comm : Programs \cup {""},
                                        refreshed_at : Nat,
                                        last_seen : Nat]]
    BY DEF SchedIInv, SchedTypeOK
  <2> HIDE DEF p
  <2>7. /\ process_names' \in [SchedPids -> [comm : Programs \cup {""},
                                             refreshed_at : Nat,
                                             last_seen : Nat]]
        /\ \A q \in SchedPids : process_names'[q] = process_names[q]
                               \/ process_names'[q].refreshed_at = 0
    BY <2>1, <2>4, <2>5, <2>6
  <2>8. InPass(p)
    BY <2>1, <2>3, <2>4, <2>7 DEF InPass
  <2> QED BY <2>1, <2>8, PassKeeps
<1>2. CASE TasksUnlisted
  <2>1. pass.pid \in SchedPids
    BY <1>2 DEF TasksUnlisted, SchedIInv, SchedTypeOK, PassType
  <2> QED BY <1>2, <2>1, InPassLeave DEF TasksUnlisted
<1> QED BY <1>1, <1>2

\* The type of a cached name.
CachedName == [comm : Programs \cup {""}, refreshed_at : Nat, last_seen : Nat]

\* What a lookup leaves in the cache.
LEMMA NamedShape ==
  ASSUME SchedTypeOK, NEW p \in SchedPids
  PROVE  LET entry == Named(process_names, p)
         IN  /\ entry \in CachedName
             /\ \/ /\ Hit(process_names[p])
                   /\ entry.comm = process_names[p].comm
                   /\ entry.refreshed_at = process_names[p].refreshed_at
                \/ /\ entry.comm = tasks[p].name
                   /\ entry.refreshed_at = sched_clock
<1>1. /\ process_names[p] \in CachedName /\ sched_clock \in Nat
      /\ tasks[p].name \in Programs \cup {""}
  BY DEF SchedTypeOK, CachedName
<1>2. CASE Hit(process_names[p])
  <2> DEFINE e == [process_names[p] EXCEPT !.last_seen = sched_clock]
  <2>1. /\ e \in CachedName /\ e.comm = process_names[p].comm
        /\ e.refreshed_at = process_names[p].refreshed_at
    BY <1>1 DEF CachedName
  <2>2. Named(process_names, p) = e
    BY <1>2 DEF Named
  <2> HIDE DEF e
  <2> QED BY <1>2, <2>1, <2>2
<1>3. CASE ~Hit(process_names[p])
  <2> DEFINE e == [comm |-> tasks[p].name, refreshed_at |-> sched_clock,
                   last_seen |-> sched_clock]
  <2>1. /\ e \in CachedName /\ e.comm = tasks[p].name
        /\ e.refreshed_at = sched_clock
    BY <1>1 DEF CachedName
  <2>2. Named(process_names, p) = e
    BY <1>3 DEF Named, Comm
  <2> HIDE DEF e
  <2> QED BY <2>1, <2>2
<1> QED BY <1>2, <1>3

\* No cached name hides a process whose name is old enough.
LEMMA NamedIsTrue ==
  ASSUME SchedIInv, at # "idle", NEW p \in SchedPids, Settling(p)
  PROVE  Named(process_names, p).comm = tasks[p].name
<1> DEFINE entry == Named(process_names, p)
<1>1. \/ /\ Hit(process_names[p])
         /\ entry.comm = process_names[p].comm
      \/ entry.comm = tasks[p].name
  BY NamedShape DEF SchedIInv
<1>2. ASSUME Hit(process_names[p])
      PROVE  process_names[p].comm = tasks[p].name
  <2>1. /\ sched_clock \in Nat /\ pass.began \in Nat
        /\ pass.began <= sched_clock /\ tasks[p].since \in Nat
    BY PassFacts DEF Task
  <2>2. process_names[p].refreshed_at \in Nat
    BY DEF SchedIInv, SchedTypeOK
  <2>3. sched_clock - process_names[p].refreshed_at < SchedRefresh
    BY <1>2 DEF Hit
  <2>4. tasks[p].since + SchedRefresh <= pass.began /\ Exists(p)
    BY DEF Settling
  <2>5. process_names[p].refreshed_at > tasks[p].since
    BY <2>1, <2>2, <2>3, <2>4, SchedAssumption
  <2> QED BY <2>4, <2>5 DEF SchedIInv, NamesInv
<1> QED BY <1>1, <1>2

\* The name of a process is looked up.
LEMMA NameProcessKeeps ==
  ASSUME SchedIInv, NameProcess
  PROVE  SchedIInv'
<1> DEFINE p == NextEntry
           entry == Named(process_names, p)
<1>1. p \in SchedPids /\ p \in pass.todo
  BY NextEntryIsLeft DEF SchedIInv, NameProcess, AtEntry
<1>2. /\ at = "entries" /\ UNCHANGED <<limits, schedWorld, sched_clock>>
      /\ UNCHANGED thread_baselines
      /\ process_names' = [process_names EXCEPT ![p] = entry]
      /\ IF should_scan_process(p, entry.comm)
         THEN at' = "task" /\ pass' = [pass EXCEPT !.pid = p]
         ELSE Leave(p, {})
  BY DEF NameProcess, AtEntry
<1>3. /\ SchedTypeOK /\ pass \in PassType
      /\ process_names \in [SchedPids -> CachedName]
  BY DEF SchedIInv, SchedTypeOK, CachedName
<1>4. /\ entry \in CachedName
      /\ \/ /\ entry.comm = process_names[p].comm
            /\ entry.refreshed_at = process_names[p].refreshed_at
         \/ /\ entry.comm = tasks[p].name
            /\ entry.refreshed_at = sched_clock
  BY <1>1, <1>3, NamedShape
<1>5. Settling(p) => should_scan_process(p, entry.comm)
  <2> SUFFICES ASSUME Settling(p)
               PROVE  should_scan_process(p, entry.comm)
    OBVIOUS
  <2>1. entry.comm = tasks[p].name
    BY <1>1, <1>2, NamedIsTrue
  <2> QED BY <2>1 DEF Settling
<1>6. /\ at' \in {"entries", "task"} /\ pass' \in PassType
      /\ at' = "task" => pass'.pid \in pass'.todo
      /\ pass'.began = pass.began /\ pass.unread \subseteq pass'.unread
      /\ pass.todo \ {p} \subseteq pass'.todo
      /\ Settling(p) => p \in pass'.todo
  <2>1. CASE should_scan_process(p, entry.comm)
    <3>1. at' = "task" /\ pass' = [pass EXCEPT !.pid = p]
      BY <1>2, <2>1
    <3> HIDE DEF p
    <3> QED BY <1>1, <1>3, <3>1 DEF PassType
  <2>2. CASE ~should_scan_process(p, entry.comm)
    <3>1. Leave(p, {}) /\ ~Settling(p)
      BY <1>2, <1>5, <2>2
    <3> QED BY <1>3, <3>1, LeaveShape
  <2> QED BY <2>1, <2>2
<1> HIDE DEF p, entry
<1>7. /\ process_names' \in [SchedPids -> CachedName]
      /\ \A q \in SchedPids :
           process_names'[q] = IF q = p THEN entry ELSE process_names[q]
  BY <1>1, <1>2, <1>3, <1>4
<1>8. InPass(p)
  BY <1>1, <1>2, <1>4, <1>6, <1>7 DEF InPass, CachedName
<1> QED BY <1>1, <1>8, PassKeeps

\* A thread that cannot be read.
LEMMA SchedUnreadKeeps ==
  ASSUME SchedIInv, SchedUnread
  PROVE  SchedIInv'
<1> DEFINE p == pass.pid
<1>1. /\ p \in SchedPids /\ pass \in PassType /\ at = "task"
      /\ UNCHANGED <<limits, schedWorld, sched_clock>>
      /\ UNCHANGED <<process_names, thread_baselines>>
      /\ process_names \in [SchedPids -> CachedName]
  BY DEF SchedIInv, SchedTypeOK, SchedUnread, AtThread, PassType, schedMaps,
         CachedName
<1>2. /\ at' = "entries"
      /\ pass' = [pass EXCEPT !.todo = @ \ {p}, !.pid = 0,
                              !.scanned = @ + 1, !.unread = @ \cup {p}]
  BY DEF SchedUnread
<1> HIDE DEF p
<1>3. /\ pass' \in PassType /\ pass'.began = pass.began
      /\ pass'.todo = pass.todo \ {p} /\ pass'.unread = pass.unread \cup {p}
  <2>1. /\ pass.todo \ {p} \in SUBSET SchedPids
        /\ pass.unread \cup {p} \in SUBSET SchedPids
        /\ pass.scanned + 1 \in Nat
    BY <1>1 DEF PassType
  <2> QED BY <1>1, <1>2, <2>1 DEF PassType
<1>4. InPass(p)
  BY <1>1, <1>2, <1>3 DEF InPass, CachedName
<1> QED BY <1>1, <1>4, PassKeeps

\* A thread that is read.
LEMMA ReadSchedKeeps ==
  ASSUME SchedIInv, NEW lower \in BOOLEAN, ReadSched(lower)
  PROVE  SchedIInv'
<1> DEFINE p == pass.pid
           more == IF thread_baselines[p] = NoThreadBaseline \/ lower
                   THEN pass.samples ELSE pass.samples + 1
<1>1. /\ p \in SchedPids /\ pass \in PassType /\ at = "task"
      /\ UNCHANGED <<limits, schedWorld, sched_clock, process_names>>
      /\ process_names \in [SchedPids -> CachedName]
      /\ thread_baselines \in [SchedPids -> [of : Nat, last_seen : Nat]]
  BY DEF SchedIInv, SchedTypeOK, ReadSched, AtThread, PassType, CachedName
<1>2. /\ at' = "entries"
      /\ pass' = [pass EXCEPT !.todo = @ \ {p}, !.pid = 0,
                              !.scanned = @ + 1, !.samples = more]
      /\ thread_baselines' = [thread_baselines EXCEPT ![p] =
           [of |-> tasks[p].start, last_seen |-> pass.began]]
  BY DEF ReadSched
<1>3. more \in Nat
  BY <1>1 DEF PassType
<1> HIDE DEF p, more
<1>4. /\ pass' \in PassType /\ pass'.began = pass.began
      /\ pass'.todo = pass.todo \ {p} /\ pass'.unread = pass.unread
  <2>1. /\ pass.todo \ {p} \in SUBSET SchedPids
        /\ pass.scanned + 1 \in Nat
    BY <1>1 DEF PassType
  <2> QED BY <1>1, <1>2, <1>3, <2>1 DEF PassType
<1>5. thread_baselines'[p] = [of |-> tasks[p].start,
                              last_seen |-> pass.began]
  BY <1>1, <1>2
<1>6. InPass(p)
  BY <1>1, <1>2, <1>4, <1>5 DEF InPass, CachedName
<1> QED BY <1>1, <1>6, PassKeeps

\* The invariant is inductive.
LEMMA NextSchedIInv ==
  ASSUME SchedIInv, [SchedNext]_schedVars
  PROVE  SchedIInv'
<1>1. CASE SchedWorldStep
  BY <1>1, SchedWorldKeeps
<1>2. CASE UNCHANGED schedVars
  <2>1. UNCHANGED <<tasks, births, sched_clock, process_names,
                    thread_baselines, at, pass>>
    BY <1>2 DEF schedVars, schedWorld, schedMaps
  <2>2. SchedTypeOK' /\ NamesInv'
    BY <2>1 DEF SchedIInv, SchedTypeOK, NamesInv, Exists
  <2>3. YoungInv' /\ ReadInv'
    BY <2>1 DEF SchedIInv, YoungInv, ReadInv, Settling, Exists,
                should_scan_process
  <2> QED BY <2>2, <2>3 DEF SchedIInv
<1>3. ASSUME NEW listed \in BOOLEAN, Begin(listed)
      PROVE  SchedIInv'
  BY <1>3, BeginKeeps
<1>4. CASE CutShort \/ Finish
  BY <1>4, PassEndKeeps DEF CutShort, Finish
<1>5. ASSUME NEW lower \in BOOLEAN, ReadSched(lower)
      PROVE  SchedIInv'
  BY <1>5, ReadSchedKeeps
<1>6. SchedWorldStep \/ (SchedNext /\ ~SchedWorldStep) \/ UNCHANGED schedVars
  OBVIOUS
<1> QED BY <1>1, <1>2, <1>3, <1>4, <1>5, <1>6, PassOverKeeps,
           NameProcessKeeps, UnreadKeeps, SchedUnreadKeeps
        DEF SchedNext, SchedWorldStep

\* The invariant holds in every state.
THEOREM SchedIInvHolds == SchedSpec => []SchedIInv
  BY InitSchedIInv, NextSchedIInv, PTL DEF SchedSpec

\* Only a thread that is read adds a sample.
LEMMA SamplesAreRead ==
  ASSUME SchedIInv, SchedNext, pass'.samples > pass.samples
  PROVE  \E lower \in BOOLEAN : ReadSched(lower)
<1> SUFFICES ASSUME \A lower \in BOOLEAN : ~ReadSched(lower)
             PROVE  FALSE
  OBVIOUS
<1>1. pass \in PassType /\ pass.samples \in Nat
  BY DEF SchedIInv, SchedTypeOK, PassType
<1>2. pass'.samples # pass.samples /\ pass'.samples # 0
  <2>1. \A m \in Nat : m > pass.samples => m # 0 /\ m # pass.samples
    BY <1>1
  <2>2. ~(pass.samples > pass.samples) /\ ~(0 > pass.samples)
    BY <1>1
  <2> QED BY <2>2
<1>3. NoPass \in PassType /\ NoPass.samples = 0
  BY DEF NoPass, PassType
<1>4. ~SchedWorldStep
  BY <1>2 DEF SchedWorldStep, StartThread, ExecAs, EndThread, SchedTick
<1>5. ASSUME NEW listed \in BOOLEAN, Begin(listed)
      PROVE  FALSE
  BY <1>2, <1>3, <1>5 DEF Begin, PassType
<1>6. \A p : \A unread : ~Leave(p, unread)
  BY <1>1, <1>2 DEF Leave, PassType
<1>7. ~NameProcess
  <2>1. ASSUME pass' = [pass EXCEPT !.pid = NextEntry]
        PROVE  FALSE
    BY <1>1, <1>2, <2>1 DEF PassType
  <2> QED BY <1>6, <2>1 DEF NameProcess
<1>8. ~SchedUnread
  BY <1>1, <1>2 DEF SchedUnread, PassType
<1>9. ~PassOver /\ ~ProcessUnnamed /\ ~TasksUnlisted
  BY <1>6 DEF PassOver, ProcessUnnamed, TasksUnlisted
<1>10. ~CutShort /\ ~Finish
  BY <1>2, <1>3 DEF CutShort, Finish
<1> QED BY <1>4, <1>5, <1>7, <1>8, <1>9, <1>10
        DEF SchedNext, SchedWorldStep

\* Theorem: a sample covers less than the TTL.
THEOREM SampleWindowCorrect == SchedSpec => SampleWindow
<1>1. ASSUME SchedIInv, SchedNext, pass'.samples > pass.samples
      PROVE  pass.began - thread_baselines[pass.pid].last_seen < SchedTtl
  <2>1. PICK lower \in BOOLEAN : ReadSched(lower)
    BY <1>1, SamplesAreRead
  <2> DEFINE p == pass.pid
             more == IF thread_baselines[p] = NoThreadBaseline \/ lower
                     THEN pass.samples ELSE pass.samples + 1
  <2>2. /\ p \in SchedPids /\ at # "idle" /\ pass \in PassType
        /\ pass' = [pass EXCEPT !.todo = @ \ {p}, !.pid = 0,
                                !.scanned = @ + 1, !.samples = more]
    BY <1>1, <2>1 DEF SchedIInv, SchedTypeOK, ReadSched, AtThread, PassType
  <2>3. pass'.samples = more /\ ~(pass.samples > pass.samples)
    BY <2>2 DEF PassType
  <2>4. thread_baselines[p] # NoThreadBaseline
    BY <1>1, <2>3
  <2> QED BY <1>1, <2>2, <2>4 DEF SchedIInv, YoungInv
<1>2. [SchedNext]_schedVars /\ SchedIInv
        => [pass'.samples > pass.samples
              => pass.began - thread_baselines[pass.pid].last_seen
                   < SchedTtl]_schedVars
  BY <1>1
<1> QED BY <1>2, SchedIInvHolds, PTL DEF SchedSpec, SampleWindow

\* Theorem: no cached name hides a watched thread from a pass.
THEOREM WatchedIsReadCorrect ==
  ASSUME SchedRefresh # 0
  PROVE  SchedSpec => WatchedIsRead
<1> DEFINE Read ==
      \A p \in SchedPids \ pass.unread :
        /\ Exists(p) /\ should_scan_process(p, tasks[p].name)
        /\ tasks[p].since + SchedRefresh <= pass.began
        => thread_baselines[p] = [of |-> tasks[p].start,
                                  last_seen |-> pass.began]
<1>1. ASSUME SchedIInv, SchedNext, at = "entries", at' = "idle"
      PROVE  Read
  <2>1. pass.todo = {}
    <3>1. Finish
      BY <1>1 DEF SchedNext, StartThread, ExecAs, EndThread, SchedTick, Begin,
                  PassOver, NameProcess, ProcessUnnamed, TasksUnlisted,
                  CutShort, ReadSched, SchedUnread, Leave
    <3> QED BY <3>1 DEF Finish
  <2> QED BY <1>1, <2>1 DEF SchedIInv, ReadInv, Settling
<1>2. [SchedNext]_schedVars /\ SchedIInv
        => [at = "entries" /\ at' = "idle" => Read]_schedVars
  BY <1>1
<1> QED BY <1>2, SchedIInvHolds, PTL DEF SchedSpec, WatchedIsRead

(***************************************************************************)
(* Counts that are added up.                                               *)
(***************************************************************************)
Weight(r) == [i \in DOMAIN r |-> r[i].count]

Sample == [tid : Threads, count : Nat]

Aggregate == [count : Nat, last : Nat]

\* The waits in the ring and in the aggregates.
InRing == SumOver(Weight(ring), DOMAIN ring)
InAggregates == SumOver(Weight(aggregates), DOMAIN aggregates)

\* A fold that adds up a field is a sum.
LEMMA CountsAreSum ==
  ASSUME NEW r
  PROVE  FoldFunction(LAMBDA e, sum : e.count + sum, 0, r)
           = SumOver(Weight(r), DOMAIN r)
<1> DEFINE S == DOMAIN r
           w == Weight(r)
           P(f) == f = [s \in SUBSET S |->
                          IF s = {} THEN 0
                          ELSE r[Pick(s)].count + f[s \ {Pick(s)}]]
           Q(f) == f = [s \in SUBSET S |-> Summed(f, w, s)]
<1>1. FoldFunction(LAMBDA e, sum : e.count + sum, 0, r)
        = (CHOOSE f : P(f))[S]
  BY DEF FoldFunction, FoldFunctionOnSet, MapThenFoldSet, Pick
<1>2. SumOver(w, S) = (CHOOSE f : Q(f))[S]
  BY DEF SumOver, MapThenSumSet, MapThenFoldSet, Summed, Pick
<1>3. ASSUME NEW f
      PROVE  P(f) <=> Q(f)
  <2>1. ASSUME NEW s \in SUBSET S
        PROVE  (IF s = {} THEN 0 ELSE r[Pick(s)].count + f[s \ {Pick(s)}])
                 = Summed(f, w, s)
    <3>1. CASE s = {}
      BY <3>1 DEF Summed
    <3>2. CASE s # {}
      <4>1. Pick(s) \in s
        BY <3>2 DEF Pick
      <4>2. w[Pick(s)] = r[Pick(s)].count
        BY <4>1 DEF Weight
      <4> QED BY <3>2, <4>2 DEF Summed
    <3> QED BY <3>1, <3>2
  <2> QED BY <2>1
<1> HIDE DEF P, Q
<1>4. (CHOOSE f : P(f)) = (CHOOSE f : Q(f))
  BY <1>3, Zenon
<1> QED BY <1>1, <1>2, <1>4

\* A sum over a function of which one value changes.
LEMMA CountsChange ==
  ASSUME NEW S, IsFiniteSet(S), NEW r, NEW q, DOMAIN r = S, DOMAIN q = S,
         \A x \in S : r[x].count \in Nat /\ q[x].count \in Nat,
         NEW t \in S, \A x \in S \ {t} : q[x] = r[x]
  PROVE  \E rest \in Nat :
           /\ SumOver(Weight(r), S) = r[t].count + rest
           /\ SumOver(Weight(q), S) = q[t].count + rest
<1> DEFINE v == Weight(r)
           w == Weight(q)
<1>1. \A x \in S : v[x] = r[x].count /\ w[x] = q[x].count
  BY DEF Weight
<1> HIDE DEF v, w
<1>2. \A x \in S : v[x] \in Nat /\ w[x] \in Nat
  BY <1>1
<1>3. /\ SumOver(v, S) = v[t] + SumOver(v, S \ {t})
      /\ SumOver(w, S) = w[t] + SumOver(w, S \ {t})
  BY <1>2, SumInsert
<1>4. IsFiniteSet(S \ {t})
  BY FS_Subset
<1>5. SumOver(v, S \ {t}) \in Nat
  BY <1>2, <1>4, SumInsert
<1>6. \A x \in S \ {t} : w[x] = v[x] /\ v[x] \in Nat
  BY <1>1, <1>2
<1>7. SumOver(w, S \ {t}) = SumOver(v, S \ {t})
  BY <1>4, <1>6, SumSame
<1> QED BY <1>1, <1>3, <1>5, <1>7 DEF v, w

\* A sum over a sequence is that of the first and of the others.
LEMMA CountsShift ==
  ASSUME NEW v, NEW w, NEW n \in Nat,
         \A i \in 1..(n + 1) : w[i] \in Nat,
         \A i \in 1..n : v[i] = w[i + 1]
  PROVE  SumOver(w, 1..(n + 1)) = w[1] + SumOver(v, 1..n)
<1> DEFINE P == {k \in Nat : k <= n =>
                   /\ SumOver(v, 1..k) \in Nat
                   /\ SumOver(w, 1..(k + 1)) = w[1] + SumOver(v, 1..k)}
<1>1. 0 \in P
  <2>1. 1..0 = {} /\ 1..(0 + 1) = {} \cup {1} /\ 1 \notin {}
    OBVIOUS
  <2>2. w[1] \in Nat
    OBVIOUS
  <2>3. SumOver(v, {}) = 0 /\ SumOver(w, {}) = 0
    BY FS_EmptySet, SumStep
  <2>4. SumOver(w, {} \cup {1}) = w[1] + SumOver(w, {})
    BY <2>1, <2>2, FS_EmptySet, SumAdd
  <2> QED BY <2>1, <2>2, <2>3, <2>4
<1>2. ASSUME NEW k \in Nat, k \in P
      PROVE  k + 1 \in P
  <2> SUFFICES ASSUME k + 1 <= n
               PROVE  /\ SumOver(v, 1..(k + 1)) \in Nat
                      /\ SumOver(w, 1..(k + 2))
                           = w[1] + SumOver(v, 1..(k + 1))
    OBVIOUS
  <2>1. /\ SumOver(v, 1..k) \in Nat
        /\ SumOver(w, 1..(k + 1)) = w[1] + SumOver(v, 1..k)
    BY <1>2
  <2>2. /\ 1..(k + 1) = 1..k \cup {k + 1} /\ k + 1 \notin 1..k
        /\ 1..(k + 2) = 1..(k + 1) \cup {k + 2} /\ k + 2 \notin 1..(k + 1)
    OBVIOUS
  <2>3. /\ IsFiniteSet(1..k) /\ IsFiniteSet(1..(k + 1))
    BY FS_Interval
  <2>4. /\ \A i \in 1..k \cup {k + 1} : v[i] \in Nat
        /\ \A i \in 1..(k + 1) \cup {k + 2} : w[i] \in Nat
        /\ v[k + 1] = w[k + 2]
    <3>1. \A i \in 1..(k + 1) : i \in 1..n /\ i + 1 \in 1..(n + 1)
      OBVIOUS
    <3>2. \A i \in 1..(k + 2) : i \in 1..(n + 1)
      OBVIOUS
    <3>3. (k + 1) + 1 = k + 2 /\ k + 1 \in 1..(k + 1)
      OBVIOUS
    <3> QED BY <2>2, <3>1, <3>2, <3>3
  <2>5. SumOver(v, 1..k \cup {k + 1}) = v[k + 1] + SumOver(v, 1..k)
    BY <2>2, <2>3, <2>4, SumAdd
  <2>6. SumOver(w, 1..(k + 1) \cup {k + 2})
          = w[k + 2] + SumOver(w, 1..(k + 1))
    BY <2>2, <2>3, <2>4, SumAdd
  <2>7. v[k + 1] \in Nat /\ w[1] \in Nat
    BY <2>4
  <2>8. SumOver(v, 1..(k + 1)) = v[k + 1] + SumOver(v, 1..k)
    BY <2>2, <2>5
  <2>9. SumOver(w, 1..(k + 2))
          = v[k + 1] + (w[1] + SumOver(v, 1..k))
    BY <2>1, <2>2, <2>4, <2>6
  <2> QED BY <2>1, <2>7, <2>8, <2>9
<1> HIDE DEF P
<1>3. n \in P
  BY <1>1, <1>2, NumbersFrom0
<1> QED BY <1>3 DEF P

\* A record at the end of the ring.
LEMMA CountsAppend ==
  ASSUME NEW r \in Seq(Sample), NEW e \in Sample
  PROVE  LET q == Append(r, e)
         IN  SumOver(Weight(q), DOMAIN q)
               = e.count + SumOver(Weight(r), DOMAIN r)
<1> DEFINE q == Append(r, e)
           n == Len(r)
           v == Weight(r)
           w == Weight(q)
<1>1. /\ n \in Nat /\ DOMAIN r = 1..n /\ DOMAIN q = 1..(n + 1)
      /\ \A i \in 1..n : q[i] = r[i] /\ r[i] \in Sample
      /\ q[n + 1] = e
  OBVIOUS
<1>2. /\ \A i \in 1..n : w[i] = v[i] /\ v[i] \in Nat
      /\ w[n + 1] = e.count /\ e.count \in Nat
  BY <1>1 DEF Weight, Sample
<1> HIDE DEF v, w, q, n
<1>3. 1..(n + 1) = 1..n \cup {n + 1} /\ n + 1 \notin 1..n
  BY <1>1
<1>4. IsFiniteSet(1..n)
  BY <1>1, FS_Interval
<1>5. SumOver(w, 1..n) = SumOver(v, 1..n)
  BY <1>2, <1>4, SumSame
<1>6. \A i \in 1..n \cup {n + 1} : w[i] \in Nat
  BY <1>2
<1>7. SumOver(w, 1..n \cup {n + 1}) = w[n + 1] + SumOver(w, 1..n)
  BY <1>3, <1>4, <1>6, SumAdd
<1> QED BY <1>1, <1>2, <1>3, <1>5, <1>7 DEF v, w, q

\* The record at the head of the ring.
LEMMA CountsTail ==
  ASSUME NEW r \in Seq(Sample), r # <<>>
  PROVE  SumOver(Weight(r), DOMAIN r)
           = Head(r).count + SumOver(Weight(Tail(r)), DOMAIN Tail(r))
<1> DEFINE q == Tail(r)
           n == Len(r) - 1
           v == Weight(q)
           w == Weight(r)
<1>1. /\ n \in Nat /\ DOMAIN r = 1..(n + 1) /\ DOMAIN q = 1..n
      /\ \A i \in 1..(n + 1) : r[i] \in Sample
      /\ \A i \in 1..n : q[i] = r[i + 1] /\ i + 1 \in 1..(n + 1)
      /\ Head(r) = r[1] /\ 1 \in 1..(n + 1)
  OBVIOUS
<1>2. /\ \A i \in 1..(n + 1) : w[i] \in Nat
      /\ \A i \in 1..n : v[i] = w[i + 1]
      /\ w[1] = Head(r).count
  BY <1>1 DEF Weight, Sample
<1> HIDE DEF v, w, q, n
<1>3. SumOver(w, 1..(n + 1)) = w[1] + SumOver(v, 1..n)
  BY <1>1, <1>2, CountsShift
<1> QED BY <1>1, <1>2, <1>3 DEF v, w, q

\* The ring holds a number of waits.
LEMMA CountsNat ==
  ASSUME NEW r, IsFiniteSet(DOMAIN r), \A i \in DOMAIN r : r[i].count \in Nat
  PROVE  SumOver(Weight(r), DOMAIN r) \in Nat
<1>1. \A i \in DOMAIN r : Weight(r)[i] \in Nat
  BY DEF Weight
<1> QED BY <1>1, SumInsert

(***************************************************************************)
(* The eBPF scheduler-delay collector.                                     *)
(***************************************************************************)
Counts == [ringbuf_drops : Nat, exec_seen : Nat, stale_hits : Nat,
           aggregate_drops : Nat]

PollType == [now : Nat, counters : Counts, pending : Nat]

MemoryType == [refresh : Nat, exec : Nat, total : Nat]

ProgramType ==
  [name : Programs \cup {""}, by : {"fork", "exec", "rename"}]

EbpfTypeOK ==
  /\ program \in [Processes -> ProgramType]
  /\ kernel_clock \in Nat /\ upc \in {"idle", "scan", "drain"}
  /\ pid_allowlist \subseteq Processes /\ found \in Processes \cup {0}
  /\ aggregates \in [Threads -> Aggregate]
  /\ ring \in Seq(Sample)
  /\ counters \in Counts /\ poll \in PollType /\ memory \in MemoryType
  /\ measured \in Nat /\ delivered \in Nat /\ discarded \in Nat
  /\ unannounced \in [Processes -> Nat] /\ blind_at \in [Processes -> Nat]
  /\ watched_at \in [Processes -> Nat] /\ settled \subseteq Processes

Filtering == settings.pid_filter \/ settings.tid_filter

\* The refresh that is in force began less than a refresh before the poll.
PollInv ==
  /\ memory.refresh <= kernel_clock
  /\ memory.exec <= counters.exec_seen
  /\ found # 0 => upc = "scan"
  /\ pid_allowlist # {} => settings.pid_filter
  /\ upc # "idle" => memory.refresh <= poll.now
  /\ upc # "idle" /\ Filtering /\ EbpfRefresh # 0
       => poll.now < memory.refresh + EbpfRefresh

\* An exec the next poll will notice.
ExecPending(p) == counters.exec_seen > memory.exec /\ p \notin settled

\* A process that is on the allowlist or about to be entered.
Listed(p) == p \in pid_allowlist \/ (found = p /\ settings.pid_filter)

\* What is listed was watched since the refresh, and an exec that ended that
\* is pending.
CurrentInv ==
  \A p \in Processes :
    /\ Watched(p) => watched_at[p] = kernel_clock
    /\ Listed(p) => watched_at[p] >= memory.refresh
    /\ Listed(p) /\ settings.lifecycle /\ program[p].by = "exec"
         => Watched(p) \/ ExecPending(p)

\* What is watched is listed, yet to be visited, or known to be missed.
CompleteInv ==
  settings.pid_filter /\ settings.lifecycle =>
    \A p \in Processes :
      Watched(p) =>
        \/ p \in pid_allowlist
        \/ upc = "scan" /\ (found = p \/ p \in todo)
        \/ unannounced[p] >= memory.refresh
        \/ blind_at[p] >= memory.refresh
        \/ ExecPending(p)

Drops == counters.ringbuf_drops + counters.aggregate_drops

\* Where the measured waits are: delivered, beyond a batch, in the ring, in
\* an aggregate, or lost.
Balance(lost) ==
  /\ measured = delivered + discarded + InRing + InAggregates + lost
  /\ lost >= Drops
  /\ Drops = 0 \/ ~settings.aggregate => lost = Drops

CountInv ==
  /\ \E lost \in Nat : Balance(lost)
  /\ reported = memory.total
  /\ upc = "idle" => memory.total = Total(poll.counters)

EbpfIInv == EbpfTypeOK /\ PollInv /\ CurrentInv /\ CompleteInv /\ CountInv

\* The collector starts in the invariant.
LEMMA InitEbpfIInv == EbpfInit => EbpfIInv
<1> SUFFICES ASSUME EbpfInit PROVE EbpfIInv
  OBVIOUS
<1> DEFINE poll0 == [now |-> 0, counters |-> NoCounters, pending |-> 0]
           memory0 == [refresh |-> 0, exec |-> 0, total |-> 0]
<1>1. /\ NoProgram \in ProgramType /\ NoAggregate \in Aggregate
      /\ NoCounters \in Counts /\ memory0 \in MemoryType
      /\ Total(NoCounters) = 0 /\ NoCounters.exec_seen = 0
      /\ NoCounters.ringbuf_drops = 0 /\ NoCounters.aggregate_drops = 0
      /\ NoAggregate.count = 0
  BY DEF NoProgram, ProgramType, NoAggregate, Aggregate, NoCounters, Counts,
         MemoryType, Total
<1>2. poll0 \in PollType /\ poll0.now = 0 /\ poll0.counters = NoCounters
  BY <1>1 DEF PollType
<1>3. memory0.refresh = 0 /\ memory0.exec = 0 /\ memory0.total = 0
  OBVIOUS
<1>4. /\ program = [p \in Processes |-> NoProgram] /\ live = {}
      /\ kernel_clock = EbpfRefresh /\ pid_allowlist = {}
      /\ aggregates = [t \in Threads |-> NoAggregate] /\ ring = <<>>
      /\ counters = NoCounters /\ upc = "idle" /\ found = 0
      /\ poll = poll0 /\ memory = memory0
      /\ reported = 0 /\ measured = 0 /\ delivered = 0 /\ discarded = 0
      /\ blind_at = [p \in Processes |-> 0] /\ settled = {}
      /\ unannounced = [p \in Processes |-> 0]
      /\ watched_at = [p \in Processes |-> 0]
  BY DEF EbpfInit
<1> HIDE DEF poll0, memory0
<1>5. EbpfTypeOK
  <2>1. program \in [Processes -> ProgramType]
    BY <1>1, <1>4
  <2>2. aggregates \in [Threads -> Aggregate] /\ ring \in Seq(Sample)
    BY <1>1, <1>4
  <2>3. /\ unannounced \in [Processes -> Nat]
        /\ watched_at \in [Processes -> Nat] /\ blind_at \in [Processes -> Nat]
    BY <1>4
  <2>4. kernel_clock \in Nat /\ upc \in {"idle", "scan", "drain"}
    BY <1>4, EbpfAssumption
  <2> QED BY <1>1, <1>2, <1>4, <2>1, <2>2, <2>3, <2>4 DEF EbpfTypeOK
<1>6. PollInv
  BY <1>1, <1>3, <1>4, EbpfAssumption DEF PollInv
<1>7. CurrentInv /\ CompleteInv
  <2>1. \A p \in Processes : ~Watched(p) /\ p # 0
    <3>1. \A p \in Processes : p # 0
      BY EbpfAssumption DEF Processes
    <3> QED BY <1>4, <3>1 DEF Watched, InProc
  <2> QED BY <1>4, <2>1 DEF CurrentInv, CompleteInv, Listed
<1>8. CountInv
  <2>1. InRing = 0
    <3>1. DOMAIN ring = {}
      BY <1>4
    <3> QED BY <3>1, FS_EmptySet, SumStep DEF InRing
  <2>2. InAggregates = 0
    <3>1. DOMAIN aggregates = Threads
      BY <1>4
    <3>2. \A t \in Threads : Weight(aggregates)[t] = 0
      BY <1>1, <1>4 DEF Weight
    <3> QED BY <3>1, <3>2, EbpfAssumption, SumZero DEF InAggregates
  <2>3. Drops = 0
    BY <1>1, <1>4 DEF Drops
  <2>4. Balance(0)
    BY <1>4, <2>1, <2>2, <2>3 DEF Balance
  <2>5. memory.total = 0 /\ Total(poll.counters) = 0
    BY <1>1, <1>2, <1>3, <1>4
  <2> QED BY <1>4, <2>4, <2>5 DEF CountInv
<1> QED BY <1>5, <1>6, <1>7, <1>8 DEF EbpfIInv

\* A step of the processes or the clock.
ProgramStep ==
  \/ \E p \in Processes, n \in Programs :
       Fork(p, n) \/ ExecProgram(p, n) \/ Rename(p, n)
  \/ \E p \in Processes : Reap(p)
  \/ \E t \in Threads : ExitThread(t)
  \/ EbpfTick

\* What such a step changes, at large.
ProgramFrame ==
  /\ UNCHANGED <<settings, ring, aggregates, measured, user, blind_at>>
  /\ kernel_clock' \in Nat /\ kernel_clock' >= kernel_clock
  /\ program' \in [Processes -> ProgramType]
  /\ pid_allowlist' \subseteq pid_allowlist /\ settled' \subseteq settled
  /\ counters' \in Counts /\ counters'.exec_seen >= counters.exec_seen
  /\ counters'.ringbuf_drops = counters.ringbuf_drops
  /\ counters'.aggregate_drops = counters.aggregate_drops
  /\ unannounced' \in [Processes -> Nat]
  /\ watched_at' = [p \in Processes |->
                      IF Watched(p) \/ Watched(p)' THEN kernel_clock'
                      ELSE watched_at[p]]

\* And for a process: it is left alone, changed without an exec, reaped, or
\* execs.
ProgramChange(p) ==
  \/ /\ program'[p] = program[p] /\ unannounced'[p] = unannounced[p]
     /\ p \in pid_allowlist => p \in pid_allowlist'
  \/ /\ unannounced'[p] = kernel_clock
     /\ program'[p].by # "exec" \/ program'[p] = program[p]
  \/ program'[p] = NoProgram
  \/ /\ settings.lifecycle => counters'.exec_seen = counters.exec_seen + 1
     /\ p \notin settled'

\* What a step makes of a process is watched as the name it leaves says.
LEMMA WatchedShape ==
  ASSUME NEW p \in Processes
  PROVE  /\ program'[p] = program[p] => (Watched(p)' <=> Watched(p))
         /\ program'[p] = NoProgram
              => ~Watched(p)' /\ program'[p].by # "exec"
<1>1. program'[p] = program[p] => (Watched(p)' <=> Watched(p))
  BY DEF Watched, InProc
<1>2. program'[p] = NoProgram => ~Watched(p)'
  BY DEF Watched, InProc, NoProgram
<1>3. NoProgram.by # "exec"
  BY DEF NoProgram
<1> QED BY <1>1, <1>2, <1>3

\* A fork, or a new name, changes one process.
LEMMA RenameShape ==
  ASSUME EbpfTypeOK, NEW p \in Processes, NEW n \in Programs,
         Fork(p, n) \/ Rename(p, n)
  PROVE  ProgramFrame /\ \A q \in Processes : ProgramChange(q)
<1> DEFINE new == program'[p]
<1>1. /\ program \in [Processes -> ProgramType] /\ kernel_clock \in Nat
      /\ unannounced \in [Processes -> Nat] /\ counters \in Counts
      /\ counters.exec_seen \in Nat
  BY DEF EbpfTypeOK, Counts
<1>2. PICK by \in {"fork", "rename"} :
        program' = [program EXCEPT ![p] = [name |-> n, by |-> by]]
  BY DEF Fork, Rename
<1>3. new \in ProgramType /\ new.by # "exec"
  BY <1>1, <1>2 DEF ProgramType
<1>4. /\ settled' = settled \ {p}
      /\ unannounced' = [unannounced EXCEPT ![p] = kernel_clock]
      /\ NoteWatched(kernel_clock)
      /\ UNCHANGED <<settings, kernel_clock, kernel, user, blind_at>>
  BY DEF Fork, Rename
<1>5. program' = [program EXCEPT ![p] = new]
  BY <1>1, <1>2
<1> HIDE DEF new
<1>6. UNCHANGED <<pid_allowlist, ring, aggregates, counters, measured>>
  BY <1>4 DEF kernel
<1>7. ProgramFrame
  BY <1>1, <1>3, <1>4, <1>5, <1>6 DEF ProgramFrame, NoteWatched
<1>8. ASSUME NEW q \in Processes
      PROVE  ProgramChange(q)
  <2>1. CASE q = p
    BY <1>1, <1>3, <1>4, <2>1 DEF ProgramChange, new
  <2>2. CASE q # p
    BY <1>1, <1>4, <1>5, <1>6, <2>2 DEF ProgramChange
  <2> QED BY <2>1, <2>2
<1> QED BY <1>7, <1>8

\* A zombie that is reaped leaves no entry.
LEMMA ReapShape ==
  ASSUME EbpfTypeOK, NEW p \in Processes, Reap(p)
  PROVE  ProgramFrame /\ \A q \in Processes : ProgramChange(q)
<1>1. /\ program \in [Processes -> ProgramType] /\ kernel_clock \in Nat
      /\ unannounced \in [Processes -> Nat] /\ counters \in Counts
      /\ counters.exec_seen \in Nat
  BY DEF EbpfTypeOK, Counts
<1>2. NoProgram \in ProgramType
  BY DEF NoProgram, ProgramType
<1>3. /\ program' = [program EXCEPT ![p] = NoProgram]
      /\ settled' = settled \ {p} /\ NoteWatched(kernel_clock)
      /\ UNCHANGED <<settings, kernel_clock, kernel, user, unannounced,
                     blind_at>>
  BY DEF Reap
<1>4. UNCHANGED <<pid_allowlist, ring, aggregates, counters, measured>>
  BY <1>3 DEF kernel
<1>5. ProgramFrame
  BY <1>1, <1>2, <1>3, <1>4 DEF ProgramFrame, NoteWatched
<1>6. ASSUME NEW q \in Processes
      PROVE  ProgramChange(q)
  BY <1>1, <1>3, <1>4 DEF ProgramChange
<1> QED BY <1>5, <1>6

\* An exec is counted, if the tracepoint is there, and unsettles.
LEMMA ExecShape ==
  ASSUME EbpfTypeOK, NEW p \in Processes, NEW n \in Programs,
         ExecProgram(p, n)
  PROVE  ProgramFrame /\ \A q \in Processes : ProgramChange(q)
<1> DEFINE new == [name |-> n, by |-> "exec"]
           seen2 == IF settings.lifecycle THEN counters.exec_seen + 1
                    ELSE counters.exec_seen
<1>1. new \in ProgramType
  BY DEF ProgramType
<1>2. /\ program \in [Processes -> ProgramType] /\ kernel_clock \in Nat
      /\ unannounced \in [Processes -> Nat] /\ counters \in Counts
      /\ counters.exec_seen \in Nat
  BY DEF EbpfTypeOK, Counts
<1>3. /\ program' = [program EXCEPT ![p] = new]
      /\ counters' = [counters EXCEPT !.exec_seen = seen2]
      /\ settled' = settled \ {p} /\ NoteWatched(kernel_clock)
      /\ UNCHANGED <<settings, live, kernel_clock, pid_allowlist, ring,
                     aggregates, measured, user, unannounced, blind_at>>
  BY DEF ExecProgram
<1>4. seen2 \in Nat /\ seen2 >= counters.exec_seen
  BY <1>2
<1> HIDE DEF new
<1>5. /\ counters' \in Counts /\ counters'.exec_seen = seen2
      /\ counters'.ringbuf_drops = counters.ringbuf_drops
      /\ counters'.aggregate_drops = counters.aggregate_drops
  BY <1>2, <1>3, <1>4 DEF Counts
<1>6. ProgramFrame
  BY <1>1, <1>2, <1>3, <1>4, <1>5 DEF ProgramFrame, NoteWatched
<1>7. ASSUME NEW q \in Processes
      PROVE  ProgramChange(q)
  <2>1. CASE q = p
    BY <1>3, <1>5, <2>1 DEF ProgramChange
  <2>2. CASE q # p
    <3>1. program'[q] = program[q]
      BY <1>2, <1>3, <2>2
    <3> QED BY <1>3, <3>1 DEF ProgramChange
  <2> QED BY <2>1, <2>2
<1> QED BY <1>6, <1>7

\* A thread that exits takes the allowlist entry of its process with it.
LEMMA ExitShape ==
  ASSUME EbpfTypeOK, NEW t \in Threads, ExitThread(t)
  PROVE  ProgramFrame /\ \A q \in Processes : ProgramChange(q)
<1> DEFINE p == Process[t]
<1>1. p \in Processes
  BY DEF Processes
<1>2. /\ program \in [Processes -> ProgramType] /\ kernel_clock \in Nat
      /\ unannounced \in [Processes -> Nat] /\ counters \in Counts
      /\ counters.exec_seen \in Nat
  BY DEF EbpfTypeOK, Counts
<1>3. /\ \/ pid_allowlist' = pid_allowlist
         \/ pid_allowlist' = pid_allowlist \ {p}
      /\ unannounced' = [unannounced EXCEPT ![p] = kernel_clock]
      /\ NoteWatched(kernel_clock)
      /\ UNCHANGED <<settings, program, kernel_clock, aggregates, ring,
                     counters, measured, user, settled, blind_at>>
  BY DEF ExitThread
<1> HIDE DEF p
<1>4. ProgramFrame
  BY <1>1, <1>2, <1>3 DEF ProgramFrame, NoteWatched
<1>5. ASSUME NEW q \in Processes
      PROVE  ProgramChange(q)
  BY <1>1, <1>2, <1>3 DEF ProgramChange
<1> QED BY <1>4, <1>5

\* The clock changes no process.
LEMMA EbpfTickShape ==
  ASSUME EbpfTypeOK, EbpfTick
  PROVE  ProgramFrame /\ \A q \in Processes : ProgramChange(q)
<1>1. /\ program \in [Processes -> ProgramType] /\ kernel_clock \in Nat
      /\ unannounced \in [Processes -> Nat] /\ counters \in Counts
      /\ counters.exec_seen \in Nat
  BY DEF EbpfTypeOK, Counts
<1>2. /\ kernel_clock' = kernel_clock + 1 /\ NoteWatched(kernel_clock + 1)
      /\ UNCHANGED <<settings, program, live, pid_allowlist, ring, aggregates,
                     counters, measured, user, settled, unannounced, blind_at>>
  BY DEF EbpfTick, ebpfWorld, kernel
<1>3. ProgramFrame
  BY <1>1, <1>2 DEF ProgramFrame, NoteWatched
<1>4. ASSUME NEW q \in Processes
      PROVE  ProgramChange(q)
  BY <1>2 DEF ProgramChange
<1> QED BY <1>3, <1>4

\* A step that neither measures nor delivers.
LEMMA CountFrame ==
  ASSUME CountInv, memory'.total = memory.total, Drops' = Drops,
         UNCHANGED <<settings, ring, aggregates, measured, delivered,
                     discarded, reported>>,
         upc' = "idle" => upc = "idle" /\ poll'.counters = poll.counters
  PROVE  CountInv'
<1>1. PICK lost \in Nat : Balance(lost)
  BY DEF CountInv
<1>2. InRing' = InRing /\ InAggregates' = InAggregates
  BY DEF InRing, InAggregates, Weight
<1>3. Balance(lost)'
  BY <1>1, <1>2 DEF Balance
<1>4. reported' = memory'.total
  BY DEF CountInv
<1>5. upc' = "idle" => memory'.total = Total(poll'.counters)
  BY DEF CountInv, Total
<1>6. Total(poll.counters)' = Total(poll'.counters)
  BY DEF Total
<1> QED BY <1>3, <1>4, <1>5, <1>6 DEF CountInv

\* A step of the processes or the clock keeps the invariant.
LEMMA ProgramStepKeeps ==
  ASSUME EbpfIInv, ProgramStep
  PROVE  EbpfIInv'
<1>1. ProgramFrame /\ \A q \in Processes : ProgramChange(q)
  BY RenameShape, ReapShape, ExecShape, ExitShape, EbpfTickShape
     DEF EbpfIInv, ProgramStep
<1>2. /\ UNCHANGED <<settings, ring, aggregates, measured, blind_at>>
      /\ UNCHANGED <<upc, todo, found, poll, memory, reported, delivered,
                     discarded>>
      /\ kernel_clock' \in Nat /\ kernel_clock' >= kernel_clock
      /\ program' \in [Processes -> ProgramType]
      /\ pid_allowlist' \subseteq pid_allowlist
      /\ settled' \subseteq settled
      /\ counters' \in Counts /\ counters'.exec_seen >= counters.exec_seen
      /\ unannounced' \in [Processes -> Nat]
  BY <1>1 DEF ProgramFrame, user
<1>3. \A q \in Processes :
        watched_at'[q] = IF Watched(q) \/ Watched(q)' THEN kernel_clock'
                         ELSE watched_at[q]
  BY <1>1 DEF ProgramFrame
<1>4. EbpfTypeOK
  BY DEF EbpfIInv
<1>5. /\ memory.refresh \in Nat /\ memory.exec \in Nat /\ kernel_clock \in Nat
      /\ counters.exec_seen \in Nat /\ counters'.exec_seen \in Nat
  BY <1>2, <1>4 DEF EbpfTypeOK, MemoryType, Counts
<1>6. EbpfTypeOK'
  <2>1. watched_at' \in [Processes -> Nat]
    BY <1>1, <1>2, <1>4 DEF EbpfTypeOK, ProgramFrame
  <2> QED BY <1>2, <1>4, <2>1 DEF EbpfTypeOK
<1>7. PollInv'
  <2>1. /\ memory.refresh <= kernel_clock /\ memory.exec <= counters.exec_seen
        /\ found # 0 => upc = "scan"
        /\ pid_allowlist # {} => settings.pid_filter
        /\ upc # "idle" => memory.refresh <= poll.now
        /\ upc # "idle" /\ Filtering /\ EbpfRefresh # 0
             => poll.now < memory.refresh + EbpfRefresh
    BY DEF EbpfIInv, PollInv
  <2>2. memory.refresh <= kernel_clock' /\ memory.exec <= counters'.exec_seen
    BY <1>2, <1>5, <2>1
  <2> QED BY <1>2, <2>1, <2>2 DEF PollInv, Filtering
<1>8. ASSUME NEW q \in Processes, ExecPending(q)
      PROVE  ExecPending(q)'
  BY <1>2, <1>5, <1>8 DEF ExecPending
<1>9. ASSUME NEW q \in Processes, q \notin settled',
             counters'.exec_seen = counters.exec_seen + 1
      PROVE  ExecPending(q)'
  <2>1. memory.exec <= counters.exec_seen
    BY DEF EbpfIInv, PollInv
  <2> QED BY <1>2, <1>5, <1>9, <2>1 DEF ExecPending
<1>10. CurrentInv'
  <2> SUFFICES ASSUME NEW q \in Processes
      PROVE  /\ Watched(q)' => watched_at'[q] = kernel_clock'
             /\ Listed(q)' => watched_at'[q] >= memory.refresh
             /\ Listed(q)' /\ settings.lifecycle /\ program'[q].by = "exec"
                  => Watched(q)' \/ ExecPending(q)'
    BY <1>2 DEF CurrentInv
  <2>1. Listed(q)' => Listed(q)
    BY <1>2 DEF Listed
  <2>2. Listed(q)' => watched_at'[q] >= memory.refresh
    <3>1. Listed(q)' => watched_at[q] >= memory.refresh
      BY <2>1 DEF EbpfIInv, CurrentInv
    <3>2. kernel_clock' >= memory.refresh
      BY <1>2, <1>5 DEF EbpfIInv, PollInv
    <3> QED BY <1>3, <3>1, <3>2
  <2>3. ASSUME Listed(q)', settings.lifecycle, program'[q].by = "exec"
        PROVE  Watched(q)' \/ ExecPending(q)'
    <3>1. program[q].by = "exec" => Watched(q) \/ ExecPending(q)
      BY <2>1, <2>3 DEF EbpfIInv, CurrentInv
    <3> QED BY <1>1, <1>8, <1>9, <2>3, <3>1, WatchedShape DEF ProgramChange
  <2> QED BY <1>3, <2>2, <2>3
<1>11. CompleteInv'
  <2> SUFFICES ASSUME settings.pid_filter, settings.lifecycle,
                      NEW q \in Processes, Watched(q)'
      PROVE  \/ q \in pid_allowlist'
             \/ upc = "scan" /\ (found = q \/ q \in todo)
             \/ unannounced'[q] >= memory.refresh
             \/ blind_at[q] >= memory.refresh
             \/ ExecPending(q)'
    BY <1>2 DEF CompleteInv
  <2>1. Watched(q) => \/ q \in pid_allowlist
                      \/ upc = "scan" /\ (found = q \/ q \in todo)
                      \/ unannounced[q] >= memory.refresh
                      \/ blind_at[q] >= memory.refresh
                      \/ ExecPending(q)
    BY DEF EbpfIInv, CompleteInv
  <2>2. kernel_clock >= memory.refresh
    BY <1>5 DEF EbpfIInv, PollInv
  <2> QED BY <1>1, <1>8, <1>9, <2>1, <2>2, WatchedShape DEF ProgramChange
<1>12. CountInv'
  <2>1. Drops' = Drops
    BY <1>1 DEF ProgramFrame, Drops
  <2> QED BY <1>2, <2>1, CountFrame DEF EbpfIInv
<1> QED BY <1>6, <1>7, <1>10, <1>11, <1>12 DEF EbpfIInv

\* A step that leaves the allowlists and what they depend on alone.
LEMMA AllowFrame ==
  ASSUME EbpfIInv,
         UNCHANGED <<settings, program, live, kernel_clock, pid_allowlist, upc,
                     todo, found, poll, memory, seen>>,
         counters'.exec_seen = counters.exec_seen
  PROVE  PollInv' /\ CurrentInv' /\ CompleteInv'
<1>1. UNCHANGED <<settled, unannounced, watched_at, blind_at>>
  BY DEF seen
<1>2. \A p \in Processes : /\ Watched(p)' <=> Watched(p)
                           /\ ExecPending(p)' <=> ExecPending(p)
                           /\ Listed(p)' <=> Listed(p)
  BY <1>1 DEF Watched, InProc, ExecPending, Listed
<1>3. PollInv'
  BY DEF EbpfIInv, PollInv, Filtering
<1>4. CurrentInv'
  BY <1>1, <1>2 DEF EbpfIInv, CurrentInv
<1>5. CompleteInv'
  BY <1>1, <1>2 DEF EbpfIInv, CompleteInv
<1> QED BY <1>3, <1>4, <1>5

\* A thread that is switched out waits, and nothing else happens.
LEMMA SwitchOutKeeps ==
  ASSUME EbpfIInv, NEW t \in Threads, SwitchOut(t)
  PROVE  EbpfIInv'
<1>1. /\ UNCHANGED <<settings, program, live, kernel_clock, pid_allowlist, upc,
                     todo, found, poll, memory, seen, counters>>
      /\ UNCHANGED <<ring, aggregates, measured, delivered, discarded,
                     reported>>
  BY DEF SwitchOut, ebpfWorld, user
<1>2. PollInv' /\ CurrentInv' /\ CompleteInv'
  BY <1>1, AllowFrame
<1>3. Drops' = Drops
  BY <1>1 DEF Drops
<1>4. CountInv'
  BY <1>1, <1>3, CountFrame DEF EbpfIInv
<1>5. EbpfTypeOK'
  BY <1>1 DEF EbpfIInv, EbpfTypeOK, seen
<1> QED BY <1>2, <1>4, <1>5 DEF EbpfIInv

\* What the counters of drops are.
LEMMA DropsNat ==
  ASSUME EbpfTypeOK
  PROVE  /\ Drops \in Nat /\ counters.ringbuf_drops \in Nat
         /\ counters.aggregate_drops \in Nat /\ counters.stale_hits \in Nat
<1> QED BY DEF EbpfTypeOK, Counts, Drops

\* What the ring holds is a number.
LEMMA RingNat ==
  ASSUME NEW r \in Seq(Sample)
  PROVE  SumOver(Weight(r), DOMAIN r) \in Nat
<1>1. Len(r) \in Nat /\ DOMAIN r = 1..Len(r)
  OBVIOUS
<1>2. \A i \in 1..Len(r) : r[i] \in Sample
  OBVIOUS
<1>3. IsFiniteSet(DOMAIN r)
  BY <1>1, FS_Interval
<1>4. \A i \in DOMAIN r : r[i].count \in Nat
  BY <1>1, <1>2 DEF Sample
<1> QED BY <1>3, <1>4, CountsNat

\* So is what the aggregates hold.
LEMMA AggregatesNat ==
  ASSUME NEW r \in [Threads -> Aggregate]
  PROVE  SumOver(Weight(r), DOMAIN r) \in Nat
<1>1. DOMAIN r = Threads /\ \A t \in Threads : r[t].count \in Nat
  BY DEF Aggregate
<1>2. IsFiniteSet(DOMAIN r)
  BY <1>1, EbpfAssumption
<1> QED BY <1>1, <1>2, CountsNat

\* What the ring and the aggregates of the collector hold.
LEMMA HeldNat ==
  ASSUME EbpfTypeOK
  PROVE  InRing \in Nat /\ InAggregates \in Nat
<1> QED BY RingNat, AggregatesNat DEF EbpfTypeOK, InRing, InAggregates

\* A record goes into the ring, or is dropped and counted.
LEMMA EmitShape ==
  ASSUME EbpfTypeOK, NEW t \in Threads, NEW n \in Nat, emit_event(t, n)
  PROVE  /\ ring' \in Seq(Sample) /\ counters' \in Counts
         /\ counters'.exec_seen = counters.exec_seen
         /\ \/ InRing' = InRing + n /\ Drops' = Drops
            \/ InRing' = InRing /\ Drops' = Drops + 1
<1> DEFINE e == [tid |-> t, count |-> n]
<1>1. e \in Sample /\ e.count = n
  BY DEF Sample
<1>2. ring \in Seq(Sample) /\ counters \in Counts
  BY DEF EbpfTypeOK
<1>3. CASE Len(ring) < RingSize
  <2>1. ring' = Append(ring, e) /\ counters' = counters
    BY <1>3 DEF emit_event
  <2> HIDE DEF e
  <2>2. InRing' = e.count + InRing
    BY <1>1, <1>2, <2>1, CountsAppend DEF InRing
  <2>3. ring' \in Seq(Sample) /\ Drops' = Drops
    BY <1>1, <1>2, <2>1 DEF Drops
  <2>4. InRing \in Nat
    BY HeldNat
  <2> QED BY <1>1, <1>2, <2>1, <2>2, <2>3, <2>4
<1>4. CASE ~(Len(ring) < RingSize)
  <2>1. /\ counters' = [counters EXCEPT
                          !.ringbuf_drops = counters.ringbuf_drops + 1]
        /\ ring' = ring
    BY <1>4 DEF emit_event
  <2>2. /\ counters' \in Counts
        /\ counters'.exec_seen = counters.exec_seen
        /\ counters'.ringbuf_drops = counters.ringbuf_drops + 1
        /\ counters'.aggregate_drops = counters.aggregate_drops
    BY <1>2, <2>1 DEF Counts
  <2>3. Drops' = Drops + 1
    BY <2>2, DropsNat DEF Drops
  <2>4. InRing' = InRing
    BY <2>1 DEF InRing, Weight
  <2> QED BY <1>2, <2>1, <2>2, <2>3, <2>4
<1> QED BY <1>3, <1>4

\* A wait that is measured is held or lost, and a loss is counted.
WaitKept ==
  /\ ring' \in Seq(Sample) /\ counters' \in Counts
  /\ counters'.exec_seen = counters.exec_seen
  /\ aggregates' \in [Threads -> Aggregate]
  /\ \E gone \in Nat, d \in {0, 1} :
       /\ InRing + InAggregates + 1 = InRing' + InAggregates' + gone
       /\ Drops' = Drops + d /\ gone >= d
       /\ d = 0 \/ ~settings.aggregate => gone = d

\* The aggregates after a change of one of them.
LEMMA AggregateChange ==
  ASSUME EbpfTypeOK, NEW t \in Threads, NEW new \in Aggregate,
         aggregates' = [aggregates EXCEPT ![t] = new]
  PROVE  /\ aggregates' \in [Threads -> Aggregate]
         /\ \E rest \in Nat :
              /\ InAggregates = aggregates[t].count + rest
              /\ InAggregates' = new.count + rest
<1>1. aggregates \in [Threads -> Aggregate]
  BY DEF EbpfTypeOK
<1>2. /\ aggregates' \in [Threads -> Aggregate] /\ aggregates'[t] = new
      /\ \A x \in Threads \ {t} : aggregates'[x] = aggregates[x]
  BY <1>1
<1> DEFINE q == aggregates'
<1>3. /\ DOMAIN aggregates = Threads /\ DOMAIN q = Threads
      /\ \A x \in Threads : /\ aggregates[x].count \in Nat
                            /\ q[x].count \in Nat
  BY <1>1, <1>2 DEF Aggregate
<1>4. /\ q[t] = new /\ \A x \in Threads \ {t} : q[x] = aggregates[x]
  BY <1>2
<1>5. InAggregates' = SumOver(Weight(q), Threads)
  BY <1>3 DEF InAggregates, Weight
<1> HIDE DEF q
<1>6. \E rest \in Nat :
        /\ SumOver(Weight(aggregates), Threads) = aggregates[t].count + rest
        /\ SumOver(Weight(q), Threads) = q[t].count + rest
  <2>1. IsFiniteSet(Threads)
    BY EbpfAssumption
  <2> QED BY <1>3, <1>4, <2>1, CountsChange
<1> QED BY <1>2, <1>3, <1>4, <1>5, <1>6 DEF InAggregates

\* Every way a measured wait can go.
LEMMA WaitIsKept ==
  ASSUME EbpfTypeOK, NEW t \in Threads, aggregate_or_emit(t)
  PROVE  WaitKept
<1>1. /\ InRing \in Nat /\ InAggregates \in Nat /\ Drops \in Nat
      /\ ring \in Seq(Sample) /\ counters \in Counts
      /\ aggregates \in [Threads -> Aggregate] /\ kernel_clock \in Nat
      /\ aggregates[t] \in Aggregate /\ aggregates[t].count \in Nat
  BY HeldNat, DropsNat DEF EbpfTypeOK, Aggregate
<1>2. CASE ~settings.aggregate
  <2>1. emit_event(t, 1) /\ aggregates' = aggregates
    BY <1>2 DEF aggregate_or_emit
  <2>2. InAggregates' = InAggregates
    BY <2>1 DEF InAggregates, Weight
  <2>3. /\ ring' \in Seq(Sample) /\ counters' \in Counts
        /\ counters'.exec_seen = counters.exec_seen
        /\ \/ InRing' = InRing + 1 /\ Drops' = Drops
           \/ InRing' = InRing /\ Drops' = Drops + 1
    BY <2>1, EmitShape
  <2>4. \E gone \in Nat, d \in {0, 1} :
          /\ InRing + InAggregates + 1 = InRing' + InAggregates' + gone
          /\ Drops' = Drops + d /\ gone = d
    <3>1. CASE InRing' = InRing + 1 /\ Drops' = Drops
      <4> WITNESS 0 \in Nat, 0 \in {0, 1}
      <4> QED BY <1>1, <2>2, <3>1
    <3>2. CASE InRing' = InRing /\ Drops' = Drops + 1
      <4> WITNESS 1 \in Nat, 1 \in {0, 1}
      <4> QED BY <1>1, <2>2, <3>2
    <3> QED BY <2>3, <3>1, <3>2
  <2> QED BY <1>1, <2>1, <2>3, <2>4 DEF WaitKept
<1>3. CASE settings.aggregate /\ t \notin Aggregated
  <2>1. aggregates[t].count = 0
    BY <1>1, <1>3 DEF Aggregated
  <2>2. ring' = ring /\ InRing' = InRing
    BY <1>3 DEF aggregate_or_emit, InRing, Weight
  <2>3. CASE Cardinality(Aggregated) < AggregateSize
    <3> DEFINE new == [count |-> 1, last |-> kernel_clock]
    <3>1. new \in Aggregate /\ new.count = 1
      BY <1>1 DEF Aggregate
    <3>2. /\ aggregates' = [aggregates EXCEPT ![t] = new]
          /\ counters' = counters
      BY <1>3, <2>3 DEF aggregate_or_emit
    <3> HIDE DEF new
    <3>3. /\ aggregates' \in [Threads -> Aggregate]
          /\ InAggregates' = InAggregates + 1
      <4>1. PICK rest \in Nat : InAggregates = aggregates[t].count + rest
                                /\ InAggregates' = new.count + rest
        BY <3>1, <3>2, AggregateChange
      <4>2. aggregates' \in [Threads -> Aggregate]
        BY <3>1, <3>2, AggregateChange
      <4> QED BY <1>1, <2>1, <3>1, <4>1, <4>2
    <3>4. Drops' = Drops
      BY <3>2 DEF Drops
    <3>5. \E gone \in Nat, d \in {0, 1} :
            /\ InRing + InAggregates + 1 = InRing' + InAggregates' + gone
            /\ Drops' = Drops + d /\ gone = d
      <4> WITNESS 0 \in Nat, 0 \in {0, 1}
      <4> QED BY <1>1, <2>2, <3>3, <3>4
    <3> QED BY <1>1, <2>2, <3>2, <3>3, <3>5 DEF WaitKept
  <2>4. CASE ~(Cardinality(Aggregated) < AggregateSize)
    <3>1. /\ counters' = [counters EXCEPT
                            !.aggregate_drops = counters.aggregate_drops + 1]
          /\ aggregates' = aggregates
      BY <1>3, <2>4 DEF aggregate_or_emit
    <3>2. /\ counters' \in Counts
          /\ counters'.exec_seen = counters.exec_seen
          /\ counters'.ringbuf_drops = counters.ringbuf_drops
          /\ counters'.aggregate_drops = counters.aggregate_drops + 1
      BY <1>1, <3>1 DEF Counts
    <3>3. Drops' = Drops + 1
      BY <3>2, DropsNat DEF Drops
    <3>4. InAggregates' = InAggregates
      BY <3>1 DEF InAggregates, Weight
    <3>5. \E gone \in Nat, d \in {0, 1} :
            /\ InRing + InAggregates + 1 = InRing' + InAggregates' + gone
            /\ Drops' = Drops + d /\ gone = d
      <4> WITNESS 1 \in Nat, 1 \in {0, 1}
      <4> QED BY <1>1, <2>2, <3>3, <3>4
    <3> QED BY <1>1, <2>2, <3>1, <3>2, <3>5 DEF WaitKept
  <2> QED BY <2>3, <2>4
<1>4. CASE /\ settings.aggregate /\ t \in Aggregated
           /\ kernel_clock - aggregates[t].last < EbpfWindow
  <2> DEFINE new == [aggregates[t] EXCEPT !.count = @ + 1]
  <2>1. new \in Aggregate /\ new.count = aggregates[t].count + 1
    BY <1>1 DEF Aggregate
  <2>2. /\ aggregates' = [aggregates EXCEPT ![t] = new]
        /\ ring' = ring /\ counters' = counters
    BY <1>4 DEF aggregate_or_emit
  <2> HIDE DEF new
  <2>3. /\ aggregates' \in [Threads -> Aggregate]
        /\ InAggregates' = InAggregates + 1
    <3>1. PICK rest \in Nat : InAggregates = aggregates[t].count + rest
                              /\ InAggregates' = new.count + rest
      BY <2>1, <2>2, AggregateChange
    <3>2. aggregates' \in [Threads -> Aggregate]
      BY <2>1, <2>2, AggregateChange
    <3> QED BY <1>1, <2>1, <3>1, <3>2
  <2>4. Drops' = Drops /\ InRing' = InRing
    BY <2>2 DEF Drops, InRing, Weight
  <2>5. \E gone \in Nat, d \in {0, 1} :
          /\ InRing + InAggregates + 1 = InRing' + InAggregates' + gone
          /\ Drops' = Drops + d /\ gone = d
    <3> WITNESS 0 \in Nat, 0 \in {0, 1}
    <3> QED BY <1>1, <2>3, <2>4
  <2> QED BY <1>1, <2>2, <2>3, <2>5 DEF WaitKept
<1>5. CASE /\ settings.aggregate /\ t \in Aggregated
           /\ ~(kernel_clock - aggregates[t].last < EbpfWindow)
  <2> DEFINE n == aggregates[t].count + 1
  <2>1. NoAggregate \in Aggregate /\ NoAggregate.count = 0
    BY DEF NoAggregate, Aggregate
  <2>2. emit_event(t, n) /\ n \in Nat
    BY <1>1, <1>5 DEF aggregate_or_emit
  <2>3. aggregates' = [aggregates EXCEPT ![t] = NoAggregate]
    BY <1>5 DEF aggregate_or_emit
  <2>4. PICK rest \in Nat : InAggregates = aggregates[t].count + rest
                            /\ InAggregates' = 0 + rest
    BY <2>1, <2>3, AggregateChange
  <2>5. aggregates' \in [Threads -> Aggregate]
    BY <2>1, <2>3, AggregateChange
  <2>6. /\ ring' \in Seq(Sample) /\ counters' \in Counts
        /\ counters'.exec_seen = counters.exec_seen
        /\ \/ InRing' = InRing + n /\ Drops' = Drops
           \/ InRing' = InRing /\ Drops' = Drops + 1
    BY <2>2, EmitShape
  <2>7. \E gone \in Nat, d \in {0, 1} :
          /\ InRing + InAggregates + 1 = InRing' + InAggregates' + gone
          /\ Drops' = Drops + d /\ gone >= d /\ (d = 0 => gone = d)
    <3>1. CASE InRing' = InRing + n /\ Drops' = Drops
      <4> WITNESS 0 \in Nat, 0 \in {0, 1}
      <4> QED BY <1>1, <2>4, <3>1
    <3>2. CASE InRing' = InRing /\ Drops' = Drops + 1
      <4>1. /\ InRing + InAggregates + 1 = InRing' + InAggregates' + n
            /\ n >= 1 /\ 1 # 0
        BY <1>1, <2>4, <3>2
      <4> QED BY <2>2, <3>2, <4>1
    <3> QED BY <2>6, <3>1, <3>2
  <2> QED BY <1>5, <2>5, <2>6, <2>7 DEF WaitKept
<1> QED BY <1>2, <1>3, <1>4, <1>5 DEF aggregate_or_emit

\* A wait that ends is too short, filtered, or measured and kept.
LEMMA SwitchInKeeps ==
  ASSUME EbpfIInv, NEW t \in Threads, NEW long \in BOOLEAN, SwitchIn(t, long)
  PROVE  EbpfIInv'
<1>1. EbpfTypeOK /\ CountInv
  BY DEF EbpfIInv
<1>2. /\ UNCHANGED <<settings, program, live, kernel_clock, pid_allowlist, upc,
                     todo, found, poll, memory, seen>>
      /\ UNCHANGED <<delivered, discarded, reported>>
  BY DEF SwitchIn, ebpfWorld, user
<1>3. UNCHANGED <<settled, unannounced, watched_at, blind_at>>
  BY <1>2 DEF seen
<1>4. CASE ~long \/ ~Allowed(t)
  <2>1. UNCHANGED <<aggregates, ring, measured>>
    BY <1>4 DEF SwitchIn
  <2>2. \/ counters' = counters
        \/ counters' = [counters EXCEPT !.stale_hits = counters.stale_hits + 1]
    BY <1>4 DEF SwitchIn
  <2>3. /\ counters' \in Counts
        /\ counters'.exec_seen = counters.exec_seen
        /\ counters'.ringbuf_drops = counters.ringbuf_drops
        /\ counters'.aggregate_drops = counters.aggregate_drops
    BY <1>1, <2>2 DEF EbpfTypeOK, Counts
  <2>4. Drops' = Drops
    BY <2>3 DEF Drops
  <2>5. CountInv'
    BY <1>1, <1>2, <2>1, <2>4, CountFrame
  <2>6. PollInv' /\ CurrentInv' /\ CompleteInv'
    BY <1>2, <2>3, AllowFrame
  <2>7. EbpfTypeOK'
    BY <1>1, <1>2, <1>3, <2>1, <2>3 DEF EbpfTypeOK
  <2> QED BY <2>5, <2>6, <2>7 DEF EbpfIInv
<1>5. CASE long /\ Allowed(t)
  <2>1. measured' = measured + 1 /\ aggregate_or_emit(t)
    BY <1>5 DEF SwitchIn
  <2>2. WaitKept
    BY <1>1, <2>1, WaitIsKept
  <2>3. /\ ring' \in Seq(Sample) /\ counters' \in Counts
        /\ counters'.exec_seen = counters.exec_seen
        /\ aggregates' \in [Threads -> Aggregate]
    BY <2>2 DEF WaitKept
  <2>4. PollInv' /\ CurrentInv' /\ CompleteInv'
    BY <1>2, <2>3, AllowFrame
  <2>5. EbpfTypeOK'
    <3>1. measured' \in Nat
      BY <1>1, <2>1 DEF EbpfTypeOK
    <3> QED BY <1>1, <1>2, <1>3, <2>3, <3>1 DEF EbpfTypeOK
  <2>6. CountInv'
    <3>1. PICK lost \in Nat : Balance(lost)
      BY <1>1 DEF CountInv
    <3>2. PICK gone \in Nat, d \in {0, 1} :
            /\ InRing + InAggregates + 1 = InRing' + InAggregates' + gone
            /\ Drops' = Drops + d /\ gone >= d
            /\ d = 0 \/ ~settings.aggregate => gone = d
      BY <2>2 DEF WaitKept
    <3>3. /\ InRing \in Nat /\ InAggregates \in Nat /\ Drops \in Nat
          /\ delivered \in Nat /\ discarded \in Nat /\ measured \in Nat
      BY <1>1, HeldNat, DropsNat DEF EbpfTypeOK
    <3>a. PICK r \in Nat, a \in Nat : r = InRing' /\ a = InAggregates'
      BY <2>3, RingNat, AggregatesNat DEF InRing, InAggregates
    <3>4. measured' = delivered + discarded + InRing' + InAggregates'
                        + (lost + gone)
      <4>1. measured = delivered + discarded + InRing + InAggregates + lost
        BY <3>1 DEF Balance
      <4>2. InRing + InAggregates + 1 = r + a + gone
        BY <3>2, <3>a
      <4>3. measured + 1 = delivered + discarded + r + a + (lost + gone)
        BY <3>3, <4>1, <4>2
      <4> QED BY <2>1, <3>a, <4>3
    <3>5. lost + gone >= Drops'
      BY <3>1, <3>2, <3>3 DEF Balance
    <3>6. Drops' = 0 \/ ~settings.aggregate => lost + gone = Drops'
      BY <3>1, <3>2, <3>3 DEF Balance
    <3>7. lost + gone \in Nat
      OBVIOUS
    <3>8. \E l \in Nat : Balance(l)'
      <4>1. Balance(lost + gone)'
        BY <1>2, <3>4, <3>5, <3>6 DEF Balance
      <4> QED BY <3>7, <4>1
    <3> QED BY <1>1, <1>2, <3>8 DEF CountInv, Total
  <2> QED BY <2>4, <2>5, <2>6 DEF EbpfIInv
<1> QED BY <1>4, <1>5

\* A poll begins, and with it a refresh if one is due.
LEMMA BeginPollKeeps ==
  ASSUME EbpfIInv, NEW opened \in BOOLEAN, BeginPoll(opened)
  PROVE  EbpfIInv'
<1> DEFINE poll2 == [now |-> kernel_clock, counters |-> counters,
                     pending |-> 0]
           refresh2 == IF RefreshDue THEN kernel_clock ELSE memory.refresh
<1>1. /\ EbpfTypeOK /\ PollInv /\ CountInv
      /\ kernel_clock \in Nat /\ counters \in Counts /\ memory \in MemoryType
      /\ counters.exec_seen \in Nat /\ memory.refresh \in Nat
      /\ memory.exec \in Nat
  BY DEF EbpfIInv, EbpfTypeOK, Counts, MemoryType
<1>2. /\ upc = "idle" /\ poll' = poll2
      /\ memory' = [memory EXCEPT !.exec = counters.exec_seen,
                                  !.refresh = refresh2]
      /\ pid_allowlist' = IF RefreshDue THEN {} ELSE pid_allowlist
      /\ upc' = IF RefreshDue /\ opened THEN "scan" ELSE "drain"
      /\ todo' = IF RefreshDue /\ opened THEN Processes ELSE {}
      /\ blind_at' = IF RefreshDue /\ ~opened
                     THEN [p \in Processes |-> kernel_clock] ELSE blind_at
      /\ settled' \subseteq Processes
      /\ UNCHANGED <<settings, program, live, kernel_clock, aggregates, ring,
                     counters, measured, found, reported, delivered, discarded,
                     unannounced, watched_at>>
  BY DEF BeginPoll, Cleared, ebpfWorld
<1>3. refresh2 \in Nat /\ refresh2 <= kernel_clock
  BY <1>1 DEF PollInv
<1>4. poll' \in PollType /\ poll'.now = kernel_clock
  <2>1. poll2 \in PollType /\ poll2.now = kernel_clock
    BY <1>1 DEF PollType
  <2> HIDE DEF poll2
  <2> QED BY <1>2, <2>1
<1> HIDE DEF poll2, refresh2
<1>5. /\ memory' \in MemoryType /\ memory'.refresh = refresh2
      /\ memory'.exec = counters.exec_seen /\ memory'.total = memory.total
  BY <1>1, <1>2, <1>3 DEF MemoryType
<1>6. found = 0
  BY <1>1, <1>2 DEF PollInv
<1>7. EbpfTypeOK'
  BY <1>1, <1>2, <1>4, <1>5 DEF EbpfTypeOK
\* Without a refresh no exec was pending, and the one in force is young.
<1>8. ASSUME ~RefreshDue
      PROVE  /\ refresh2 = memory.refresh
             /\ Filtering => /\ counters.exec_seen = memory.exec
                             /\ EbpfRefresh # 0 =>
                                  kernel_clock < memory.refresh + EbpfRefresh
  <2>1. /\ refresh2 = memory.refresh
        /\ Filtering => /\ ~(kernel_clock - memory.refresh >= EbpfRefresh)
                        /\ ~(counters.exec_seen > memory.exec)
    BY <1>8 DEF refresh2, RefreshDue, Filtering
  <2>2. memory.exec <= counters.exec_seen
    BY <1>1 DEF PollInv
  <2> QED BY <1>1, <2>1, <2>2, EbpfAssumption
<1>9. RefreshDue => refresh2 = kernel_clock
  BY DEF refresh2
<1>10. PollInv'
  <2>1. pid_allowlist' # {} => settings.pid_filter
    BY <1>1, <1>2 DEF PollInv
  <2>2. Filtering /\ EbpfRefresh # 0 => kernel_clock < refresh2 + EbpfRefresh
    BY <1>1, <1>8, <1>9, EbpfAssumption
  <2>3. counters.exec_seen <= counters.exec_seen
    BY <1>1
  <2> QED BY <1>2, <1>3, <1>4, <1>5, <1>6, <2>1, <2>2, <2>3
          DEF PollInv, Filtering
<1>11. ASSUME NEW p \in Processes
       PROVE  /\ Watched(p)' <=> Watched(p)
              /\ Listed(p)' <=> ~RefreshDue /\ p \in pid_allowlist
  <2>1. p # 0
    BY EbpfAssumption DEF Processes
  <2> QED BY <1>2, <1>6, <2>1 DEF Watched, InProc, Listed
<1>12. CurrentInv'
  <2> SUFFICES ASSUME NEW p \in Processes
      PROVE  /\ Watched(p)' => watched_at[p] = kernel_clock
             /\ Listed(p)' => watched_at[p] >= refresh2
             /\ Listed(p)' /\ settings.lifecycle /\ program[p].by = "exec"
                  => Watched(p)' \/ ExecPending(p)'
    BY <1>2, <1>5 DEF CurrentInv
  <2>1. Watched(p) => watched_at[p] = kernel_clock
    BY DEF EbpfIInv, CurrentInv
  <2>2. Listed(p)' => Listed(p) /\ Filtering /\ ~RefreshDue
    BY <1>1, <1>2, <1>11 DEF Listed, PollInv, Filtering
  <2>3. ~RefreshDue /\ Filtering => ~ExecPending(p)
    <3>1. ~(counters.exec_seen > counters.exec_seen)
      BY <1>1
    <3> QED BY <1>8, <3>1 DEF ExecPending
  <2>4. /\ Listed(p) => watched_at[p] >= memory.refresh
        /\ Listed(p) /\ settings.lifecycle /\ program[p].by = "exec"
             => Watched(p) \/ ExecPending(p)
    BY DEF EbpfIInv, CurrentInv
  <2> QED BY <1>8, <1>11, <2>1, <2>2, <2>3, <2>4
<1>13. CompleteInv'
  <2> SUFFICES ASSUME settings.pid_filter, settings.lifecycle,
                      NEW p \in Processes, Watched(p)'
      PROVE  \/ p \in pid_allowlist'
             \/ upc' = "scan" /\ (found' = p \/ p \in todo')
             \/ unannounced[p] >= refresh2
             \/ blind_at'[p] >= refresh2
    BY <1>2, <1>5 DEF CompleteInv
  <2>1. CASE RefreshDue
    <3>1. kernel_clock >= refresh2
      BY <1>1, <1>3
    <3> QED BY <1>2, <2>1, <3>1
  <2>2. CASE ~RefreshDue
    <3>1. \/ p \in pid_allowlist
          \/ unannounced[p] >= memory.refresh
          \/ blind_at[p] >= memory.refresh
          \/ ExecPending(p)
      BY <1>2, <1>11 DEF EbpfIInv, CompleteInv
    <3>2. ~ExecPending(p)
      <4>1. ~(counters.exec_seen > counters.exec_seen)
        BY <1>1
      <4> QED BY <1>8, <2>2, <4>1 DEF ExecPending, Filtering
    <3> QED BY <1>2, <1>8, <2>2, <3>1, <3>2
  <2> QED BY <2>1, <2>2
<1>14. CountInv'
  <2>1. Drops' = Drops
    BY <1>2 DEF Drops
  <2> QED BY <1>1, <1>2, <1>5, <2>1, CountFrame
<1> QED BY <1>7, <1>10, <1>12, <1>13, <1>14 DEF EbpfIInv

\* A step of the scan leaves what is counted alone; what it fails to see of a
\* process is noted.
LEMMA ScanFrame ==
  ASSUME EbpfIInv, upc' # "idle",
         \/ UNCHANGED blind_at
         \/ upc # "idle" /\ \E q \in Processes : Overlook(q),
         UNCHANGED <<settings, program, kernel_clock, aggregates, ring,
                     counters, measured, poll, memory, reported, delivered,
                     discarded, settled, unannounced, watched_at>>
  PROVE  /\ CountInv' /\ blind_at' \in [Processes -> Nat]
         /\ \A p \in Processes : /\ Watched(p)' <=> Watched(p)
                                 /\ ExecPending(p)' <=> ExecPending(p)
                                 /\ blind_at[p] >= memory.refresh
                                      => blind_at'[p] >= memory.refresh
<1>1. /\ poll.now \in Nat /\ blind_at \in [Processes -> Nat]
      /\ upc # "idle" => memory.refresh <= poll.now
      /\ memory.refresh \in Nat
  BY DEF EbpfIInv, EbpfTypeOK, PollType, MemoryType, PollInv
<1>2. Drops' = Drops
  BY DEF Drops
<1>3. CountInv'
  BY <1>2, CountFrame DEF EbpfIInv
<1>4. /\ blind_at' \in [Processes -> Nat]
      /\ \A p \in Processes : blind_at[p] >= memory.refresh
                               => blind_at'[p] >= memory.refresh
  BY <1>1 DEF Overlook
<1> QED BY <1>3, <1>4 DEF Watched, InProc, ExecPending

\* A name is read: what is found is watched now.
LEMMA ReadNameKeeps ==
  ASSUME EbpfIInv, NEW q \in Processes, NEW known \in BOOLEAN,
         ReadName(q, known)
  PROVE  EbpfIInv'
<1>1. /\ upc = "scan" /\ found = 0 /\ q \in todo /\ todo' = todo \ {q}
      /\ found' = IF InProc(q) /\ (settings.pid_filter => known /\ Watched(q))
                  THEN q ELSE 0
      /\ IF InProc(q) /\ ~known THEN Overlook(q) ELSE UNCHANGED blind_at
      /\ UNCHANGED <<settings, program, kernel_clock, aggregates, ring,
                     counters, measured, poll, memory, reported, delivered,
                     discarded, settled, unannounced, watched_at, upc,
                     pid_allowlist>>
  BY DEF ReadName, ebpfWorld, kernel
<1>2. /\ CountInv' /\ blind_at' \in [Processes -> Nat]
      /\ \A p \in Processes : /\ Watched(p)' <=> Watched(p)
                              /\ ExecPending(p)' <=> ExecPending(p)
                              /\ blind_at[p] >= memory.refresh
                                   => blind_at'[p] >= memory.refresh
  BY <1>1, ScanFrame
<1>3. EbpfTypeOK'
  BY <1>1, <1>2 DEF EbpfIInv, EbpfTypeOK
<1>4. PollInv'
  BY <1>1 DEF EbpfIInv, PollInv, Filtering
<1>5. CurrentInv'
  <2> SUFFICES ASSUME NEW p \in Processes
      PROVE  /\ Watched(p) => watched_at[p] = kernel_clock
             /\ Listed(p)' => watched_at[p] >= memory.refresh
             /\ Listed(p)' /\ settings.lifecycle /\ program[p].by = "exec"
                  => Watched(p) \/ ExecPending(p)
    BY <1>1, <1>2 DEF CurrentInv
  <2>1. Listed(p)' => Listed(p) \/ Watched(p)
    BY <1>1, EbpfAssumption DEF Listed, Processes
  <2>2. kernel_clock >= memory.refresh
    BY DEF EbpfIInv, EbpfTypeOK, MemoryType, PollInv
  <2> QED BY <2>1, <2>2 DEF EbpfIInv, CurrentInv
<1>6. CompleteInv'
  <2> SUFFICES ASSUME settings.pid_filter, settings.lifecycle,
                      NEW p \in Processes, Watched(p)
      PROVE  \/ p \in pid_allowlist
             \/ found' = p \/ p \in todo'
             \/ unannounced[p] >= memory.refresh
             \/ blind_at'[p] >= memory.refresh
             \/ ExecPending(p)
    BY <1>1, <1>2 DEF CompleteInv
  <2>1. p # 0
    BY EbpfAssumption DEF Processes
  <2>2. CASE p = q /\ ~known
    <3>1. InProc(q)
      BY <2>2 DEF Watched
    <3>2. /\ poll.now >= memory.refresh /\ blind_at \in [Processes -> Nat]
          /\ poll.now \in Nat /\ memory.refresh \in Nat
      BY <1>1 DEF EbpfIInv, EbpfTypeOK, PollType, MemoryType, PollInv
    <3> QED BY <1>1, <2>2, <3>1, <3>2 DEF Overlook
  <2>3. CASE ~(p = q /\ ~known)
    <3>1. found' = p \/ p \in todo' \/ p \notin todo
      BY <1>1, <2>3 DEF Watched
    <3> QED BY <1>1, <1>2, <2>1, <3>1 DEF EbpfIInv, CompleteInv
  <2> QED BY <2>2, <2>3
<1> QED BY <1>2, <1>3, <1>4, <1>5, <1>6 DEF EbpfIInv

\* What is found is entered, or noted as overlooked.
LEMMA EnterKeeps ==
  ASSUME EbpfIInv, NEW stored \in BOOLEAN, Enter(stored)
  PROVE  EbpfIInv'
<1>1. /\ found # 0 /\ found' = 0
      /\ pid_allowlist' = IF settings.pid_filter /\ stored
                          THEN pid_allowlist \cup {found} ELSE pid_allowlist
      /\ IF stored THEN UNCHANGED blind_at ELSE Overlook(found)
      /\ UNCHANGED <<settings, program, kernel_clock, aggregates, ring,
                     counters, measured, poll, memory, reported, delivered,
                     discarded, settled, unannounced, watched_at, upc, todo>>
  BY DEF Enter, ebpfWorld
<1>2. upc = "scan" /\ found \in Processes
  BY <1>1 DEF EbpfIInv, EbpfTypeOK, PollInv
<1>3. /\ CountInv' /\ blind_at' \in [Processes -> Nat]
      /\ \A p \in Processes : /\ Watched(p)' <=> Watched(p)
                              /\ ExecPending(p)' <=> ExecPending(p)
                              /\ blind_at[p] >= memory.refresh
                                   => blind_at'[p] >= memory.refresh
  BY <1>1, <1>2, ScanFrame
<1>4. EbpfTypeOK'
  BY <1>1, <1>2, <1>3 DEF EbpfIInv, EbpfTypeOK
<1>5. PollInv'
  BY <1>1 DEF EbpfIInv, PollInv, Filtering
<1>6. \A p \in Processes : Listed(p)' => Listed(p)
  BY <1>1, EbpfAssumption DEF Listed, Processes
<1>7. CurrentInv'
  BY <1>1, <1>3, <1>6 DEF EbpfIInv, CurrentInv
<1>8. CompleteInv'
  <2> SUFFICES ASSUME settings.pid_filter, settings.lifecycle,
                      NEW p \in Processes, Watched(p)
      PROVE  \/ p \in pid_allowlist'
             \/ p \in todo
             \/ unannounced[p] >= memory.refresh
             \/ blind_at'[p] >= memory.refresh
             \/ ExecPending(p)
    BY <1>1, <1>2, <1>3 DEF CompleteInv
  <2>1. CASE found = p /\ ~stored
    <3>1. /\ poll.now >= memory.refresh /\ blind_at \in [Processes -> Nat]
          /\ poll.now \in Nat /\ memory.refresh \in Nat
      BY <1>2 DEF EbpfIInv, EbpfTypeOK, PollType, MemoryType, PollInv
    <3> QED BY <1>1, <2>1, <3>1 DEF Overlook
  <2>2. CASE ~(found = p /\ ~stored)
    BY <1>1, <1>3, <2>2 DEF EbpfIInv, CompleteInv
  <2> QED BY <2>1, <2>2
<1> QED BY <1>3, <1>4, <1>5, <1>7, <1>8 DEF EbpfIInv

\* The allowlist of threads is no part of the invariant.
LEMMA ReadTaskKeeps ==
  ASSUME EbpfIInv, NEW t \in Threads, NEW entered \in BOOLEAN,
         ReadTask(t, entered)
  PROVE  EbpfIInv'
<1>1. /\ UNCHANGED <<settings, program, live, kernel_clock, pid_allowlist, upc,
                     todo, found, poll, memory, seen, counters>>
      /\ UNCHANGED <<ring, aggregates, measured, delivered, discarded,
                     reported>>
  BY DEF ReadTask, ebpfWorld
<1>2. PollInv' /\ CurrentInv' /\ CompleteInv'
  BY <1>1, AllowFrame
<1>3. Drops' = Drops
  BY <1>1 DEF Drops
<1>4. CountInv'
  BY <1>1, <1>3, CountFrame DEF EbpfIInv
<1>5. EbpfTypeOK'
  BY <1>1 DEF EbpfIInv, EbpfTypeOK, seen
<1> QED BY <1>2, <1>4, <1>5 DEF EbpfIInv

\* The scan ends with nothing left to visit.
LEMMA EndScanKeeps ==
  ASSUME EbpfIInv, EndScan
  PROVE  EbpfIInv'
<1>1. /\ upc = "scan" /\ upc' = "drain" /\ todo = {} /\ found = 0
      /\ UNCHANGED <<settings, program, live, kernel_clock, aggregates, ring,
                     counters, measured, poll, memory, reported, delivered,
                     discarded, seen, todo, found, pid_allowlist>>
  BY DEF EndScan, ebpfWorld, kernel
<1>a. UNCHANGED <<settled, unannounced, watched_at, blind_at>>
  BY <1>1 DEF seen
<1>2. /\ CountInv'
      /\ \A p \in Processes : /\ Watched(p)' <=> Watched(p)
                              /\ ExecPending(p)' <=> ExecPending(p)
  BY <1>1, <1>a, ScanFrame
<1>3. EbpfTypeOK'
  BY <1>1, <1>a DEF EbpfIInv, EbpfTypeOK
<1>4. PollInv'
  BY <1>1 DEF EbpfIInv, PollInv, Filtering
<1>5. \A p \in Processes : Listed(p)' <=> Listed(p)
  BY <1>1 DEF Listed
<1>6. CurrentInv'
  BY <1>1, <1>2, <1>a, <1>5 DEF EbpfIInv, CurrentInv
<1>7. CompleteInv'
  <2>1. \A p \in Processes : p # 0
    BY EbpfAssumption DEF Processes
  <2> QED BY <1>1, <1>2, <1>a, <2>1 DEF EbpfIInv, CompleteInv
<1> QED BY <1>2, <1>3, <1>4, <1>6, <1>7 DEF EbpfIInv

\* A record is delivered, or consumed beyond the batch.
LEMMA HandleEventKeeps ==
  ASSUME EbpfIInv, HandleEvent
  PROVE  EbpfIInv'
<1> DEFINE n == Head(ring).count
           more == [poll EXCEPT !.pending = @ + 1]
<1>1. /\ EbpfTypeOK /\ CountInv /\ ring \in Seq(Sample) /\ poll \in PollType
      /\ delivered \in Nat /\ discarded \in Nat /\ measured \in Nat
      /\ InRing \in Nat /\ InAggregates \in Nat
  BY HeldNat DEF EbpfIInv, EbpfTypeOK
<1>2. /\ upc = "drain" /\ ring # <<>> /\ ring' = Tail(ring)
      /\ \/ poll' = more /\ delivered' = delivered + n
            /\ discarded' = discarded
         \/ poll' = poll /\ delivered' = delivered
            /\ discarded' = discarded + n
      /\ UNCHANGED <<settings, program, live, kernel_clock, pid_allowlist,
                     aggregates, counters, measured, upc, todo, found, memory,
                     reported, seen>>
  BY DEF HandleEvent, ebpfWorld
<1>3. UNCHANGED <<settled, unannounced, watched_at, blind_at>>
  BY <1>2 DEF seen
<1>4. /\ more \in PollType /\ more.now = poll.now
      /\ more.counters = poll.counters
  BY <1>1 DEF PollType
<1>5. n \in Nat /\ ring' \in Seq(Sample)
  <2>1. Head(ring) \in Sample
    BY <1>1, <1>2
  <2> QED BY <1>1, <1>2, <2>1 DEF Sample
<1> HIDE DEF n, more
<1>6. InRing = n + InRing' /\ InRing' \in Nat
  BY <1>1, <1>2, <1>5, CountsTail, RingNat DEF InRing, n
<1>7. /\ poll' \in PollType /\ poll'.now = poll.now
      /\ poll'.counters = poll.counters
      /\ delivered' \in Nat /\ discarded' \in Nat
      /\ delivered' + discarded' = delivered + discarded + n
  BY <1>1, <1>2, <1>4, <1>5
<1>8. EbpfTypeOK'
  BY <1>1, <1>2, <1>3, <1>5, <1>7 DEF EbpfTypeOK
<1>9. \A p \in Processes : /\ Watched(p)' <=> Watched(p)
                           /\ ExecPending(p)' <=> ExecPending(p)
                           /\ Listed(p)' <=> Listed(p)
  BY <1>2, <1>3 DEF Watched, InProc, ExecPending, Listed
<1>10. PollInv'
  BY <1>2, <1>7 DEF EbpfIInv, PollInv, Filtering
<1>11. CurrentInv'
  BY <1>2, <1>3, <1>9 DEF EbpfIInv, CurrentInv
<1>12. CompleteInv'
  BY <1>2, <1>3, <1>9 DEF EbpfIInv, CompleteInv
<1>13. CountInv'
  <2>1. PICK lost \in Nat : Balance(lost)
    BY <1>1 DEF CountInv
  <2>2. Drops' = Drops /\ InAggregates' = InAggregates
    BY <1>2 DEF Drops, InAggregates, Weight
  <2>3. measured' = delivered' + discarded' + InRing' + InAggregates' + lost
    <3>1. measured = delivered + discarded + InRing + InAggregates + lost
      BY <2>1 DEF Balance
    <3>2. PICK r \in Nat : r = InRing' /\ InRing = n + r
      BY <1>6
    <3>3. PICK b \in Nat, c \in Nat :
            /\ b = delivered' /\ c = discarded'
            /\ b + c = delivered + discarded + n
      BY <1>7
    <3>4. measured = b + c + r + InAggregates + lost
      <4>1. /\ delivered \in Nat /\ discarded \in Nat /\ n \in Nat
            /\ InAggregates \in Nat
        BY <1>1, <1>5
      <4>2. delivered + discarded + InRing = b + c + r
        <5>1. InRing = n + r /\ b + c = delivered + discarded + n
          BY <3>2, <3>3
        <5> QED BY <4>1, <5>1
      <4> QED BY <3>1, <4>1, <4>2
    <3> QED BY <1>2, <2>2, <3>2, <3>3, <3>4
  <2>4. Balance(lost)'
    BY <1>2, <2>1, <2>2, <2>3 DEF Balance
  <2> QED BY <1>1, <1>2, <2>4 DEF CountInv
<1> QED BY <1>8, <1>10, <1>11, <1>12, <1>13 DEF EbpfIInv

\* The failures counted when the poll began are reported.
LEMMA EndPollKeeps ==
  ASSUME EbpfIInv, EndPoll
  PROVE  EbpfIInv'
<1> DEFINE total == Total(poll.counters)
<1>1. /\ EbpfTypeOK /\ CountInv /\ memory \in MemoryType
      /\ poll.counters \in Counts
  BY DEF EbpfIInv, EbpfTypeOK, PollType
<1>2. total \in Nat
  BY <1>1 DEF Total, Counts
<1>3. /\ upc = "drain" /\ upc' = "idle"
      /\ reported' = reported + (total - memory.total)
      /\ memory' = [memory EXCEPT !.total = total]
      /\ UNCHANGED <<settings, program, live, kernel_clock, pid_allowlist,
                     aggregates, ring, counters, measured, todo, found, poll,
                     delivered, discarded, seen>>
  BY DEF EndPoll, ebpfWorld, kernel
<1>4. UNCHANGED <<settled, unannounced, watched_at, blind_at>>
  BY <1>3 DEF seen
<1> HIDE DEF total
<1>5. /\ memory' \in MemoryType /\ memory'.refresh = memory.refresh
      /\ memory'.exec = memory.exec /\ memory'.total = total
  BY <1>1, <1>2, <1>3 DEF MemoryType
<1>6. EbpfTypeOK'
  BY <1>1, <1>3, <1>4, <1>5 DEF EbpfTypeOK
<1>7. \A p \in Processes : /\ Watched(p)' <=> Watched(p)
                           /\ ExecPending(p)' <=> ExecPending(p)
                           /\ Listed(p)' <=> Listed(p)
  BY <1>3, <1>4, <1>5 DEF Watched, InProc, ExecPending, Listed
<1>8. PollInv'
  BY <1>3, <1>5 DEF EbpfIInv, PollInv, Filtering
<1>9. CurrentInv'
  BY <1>3, <1>4, <1>5, <1>7 DEF EbpfIInv, CurrentInv
<1>10. CompleteInv'
  BY <1>3, <1>4, <1>5, <1>7 DEF EbpfIInv, CompleteInv
<1>11. CountInv'
  <2>1. \E lost \in Nat : Balance(lost)'
    BY <1>1, <1>3 DEF CountInv, Balance, Drops, InRing, InAggregates, Weight
  <2>2. reported' = memory'.total
    <3>1. reported = memory.total /\ memory.total \in Nat
      BY <1>1 DEF CountInv, MemoryType
    <3> QED BY <1>2, <1>3, <1>5, <3>1
  <2>3. memory'.total = Total(poll.counters)'
    BY <1>3, <1>5 DEF total, Total
  <2> QED BY <2>1, <2>2, <2>3 DEF CountInv
<1> QED BY <1>6, <1>8, <1>9, <1>10, <1>11 DEF EbpfIInv

\* The invariant is inductive.
LEMMA NextEbpfIInv ==
  ASSUME EbpfIInv, [EbpfNext]_ebpfVars
  PROVE  EbpfIInv'
<1>1. CASE UNCHANGED ebpfVars
  <2>1. /\ UNCHANGED <<settings, program, live, kernel_clock, pid_allowlist,
                       aggregates, ring, counters, measured, upc, todo, found,
                       poll, memory, reported, delivered, discarded, seen>>
        /\ UNCHANGED <<settled, unannounced, watched_at, blind_at>>
    BY <1>1 DEF ebpfVars, ebpfWorld, kernel, user, seen
  <2>2. PollInv' /\ CurrentInv' /\ CompleteInv'
    BY <2>1, AllowFrame
  <2>3. CountInv'
    <3>1. Drops' = Drops
      BY <2>1 DEF Drops
    <3> QED BY <2>1, <3>1, CountFrame DEF EbpfIInv
  <2>4. EbpfTypeOK'
    BY <2>1 DEF EbpfIInv, EbpfTypeOK
  <2> QED BY <2>2, <2>3, <2>4 DEF EbpfIInv
<1>2. CASE ProgramStep
  BY <1>2, ProgramStepKeeps
<1>3. ASSUME NEW t \in Threads, SwitchOut(t)
      PROVE  EbpfIInv'
  BY <1>3, SwitchOutKeeps
<1>4. ASSUME NEW t \in Threads, NEW long \in BOOLEAN, SwitchIn(t, long)
      PROVE  EbpfIInv'
  BY <1>4, SwitchInKeeps
<1>5. ASSUME NEW opened \in BOOLEAN, BeginPoll(opened)
      PROVE  EbpfIInv'
  BY <1>5, BeginPollKeeps
<1>6. ASSUME NEW q \in Processes, NEW known \in BOOLEAN, ReadName(q, known)
      PROVE  EbpfIInv'
  BY <1>6, ReadNameKeeps
<1>a. ASSUME NEW t \in Threads, NEW entered \in BOOLEAN,
             ReadTask(t, entered)
      PROVE  EbpfIInv'
  BY <1>a, ReadTaskKeeps
<1>b. ASSUME NEW stored \in BOOLEAN, Enter(stored)
      PROVE  EbpfIInv'
  BY <1>b, EnterKeeps
<1>7. KernelStep => \/ ProgramStep
                    \/ \E t \in Threads : SwitchOut(t)
                    \/ \E t \in Threads, long \in BOOLEAN : SwitchIn(t, long)
  BY DEF KernelStep, ProgramStep
<1>8. EbpfTick => ProgramStep
  BY DEF ProgramStep
<1> QED BY <1>1, <1>2, <1>3, <1>4, <1>5, <1>6, <1>7, <1>8, <1>a, <1>b,
           EndScanKeeps, HandleEventKeeps, EndPollKeeps
        DEF EbpfNext, PollStep

\* The invariant holds in every state.
THEOREM EbpfIInvHolds == EbpfSpec => []EbpfIInv
  BY InitEbpfIInv, NextEbpfIInv, PTL DEF EbpfSpec

\* Theorem: no process with a watched name is missing from the allowlist
\* without a reason, of its own life or of a read or map update of the refresh
\* that failed, and no reason lasts longer than a refresh.
THEOREM AllowlistCompleteCorrect ==
  ASSUME EbpfRefresh # 0
  PROVE  EbpfSpec => []AllowlistComplete
<1>1. EbpfIInv => AllowlistComplete
  <2> SUFFICES ASSUME EbpfIInv, upc = "drain", settings.pid_filter,
                      settings.lifecycle, NEW p \in settled, Watched(p)
               PROVE  \/ p \in pid_allowlist
                      \/ unannounced[p] + EbpfRefresh > poll.now
                      \/ blind_at[p] + EbpfRefresh > poll.now
    BY DEF AllowlistComplete
  <2>1. p \in Processes
    BY DEF EbpfIInv, EbpfTypeOK
  <2>2. poll.now < memory.refresh + EbpfRefresh
    BY DEF EbpfIInv, PollInv, Filtering
  <2>3. /\ poll.now \in Nat /\ memory.refresh \in Nat /\ blind_at[p] \in Nat
        /\ unannounced[p] \in Nat
    BY <2>1 DEF EbpfIInv, EbpfTypeOK, PollType, MemoryType
  <2>4. \/ p \in pid_allowlist
        \/ unannounced[p] >= memory.refresh
        \/ blind_at[p] >= memory.refresh
    BY <2>1 DEF EbpfIInv, CompleteInv, ExecPending
  <2> QED BY <2>2, <2>3, <2>4, EbpfAssumption
<1> QED BY <1>1, EbpfIInvHolds, PTL

\* Theorem: what is on the allowlist had an entry in /proc, of a running
\* process or of a zombie, under a watched name less than a refresh ago.
THEOREM AllowlistCurrentCorrect ==
  ASSUME EbpfRefresh # 0
  PROVE  EbpfSpec => []AllowlistCurrent
<1>1. EbpfIInv => AllowlistCurrent
  <2> SUFFICES ASSUME EbpfIInv, upc = "drain", NEW p \in pid_allowlist
               PROVE  /\ watched_at[p] + EbpfRefresh > poll.now
                      /\ settings.lifecycle /\ p \in settled
                         /\ program[p].by = "exec" => Watched(p)
    BY DEF AllowlistCurrent
  <2>1. p \in Processes /\ settings.pid_filter
    BY DEF EbpfIInv, EbpfTypeOK, PollInv
  <2>2. poll.now < memory.refresh + EbpfRefresh
    BY <2>1 DEF EbpfIInv, PollInv, Filtering
  <2>3. /\ poll.now \in Nat /\ memory.refresh \in Nat
        /\ watched_at[p] \in Nat
    BY <2>1 DEF EbpfIInv, EbpfTypeOK, PollType, MemoryType
  <2>4. /\ watched_at[p] >= memory.refresh
        /\ settings.lifecycle /\ p \in settled /\ program[p].by = "exec"
             => Watched(p)
    BY <2>1 DEF EbpfIInv, CurrentInv, Listed, ExecPending
  <2> QED BY <2>2, <2>3, <2>4, EbpfAssumption
<1> QED BY <1>1, EbpfIInvHolds, PTL

\* Theorem: every measured wait is accounted for.
THEOREM WaitsAccountedCorrect == EbpfSpec => []WaitsAccounted
<1>1. EbpfIInv => WaitsAccounted
  <2> SUFFICES ASSUME EbpfIInv PROVE WaitsAccounted
    OBVIOUS
  <2>1. PICK lost \in Nat : Balance(lost)
    BY DEF EbpfIInv, CountInv
  <2>2. Lost = measured - delivered - discarded - InRing - InAggregates
    <3>1. FoldFunction(LAMBDA e, sum : e.count + sum, 0, ring) = InRing
      BY CountsAreSum DEF InRing
    <3>2. FoldFunction(LAMBDA a, sum : a.count + sum, 0, aggregates)
            = InAggregates
      BY CountsAreSum DEF InAggregates
    <3> QED BY <3>1, <3>2 DEF Lost
  <2>3. /\ measured \in Nat /\ delivered \in Nat /\ discarded \in Nat
        /\ InRing \in Nat /\ InAggregates \in Nat
    BY HeldNat DEF EbpfIInv, EbpfTypeOK
  <2>4. measured = delivered + discarded + InRing + InAggregates + lost
    BY <2>1 DEF Balance
  <2>5. Lost = lost
    BY <2>2, <2>3, <2>4
  <2>6. lost >= Drops /\ (Drops = 0 \/ ~settings.aggregate => lost = Drops)
    BY <2>1 DEF Balance
  <2>7. upc = "idle" => reported = Total(poll.counters)
    BY DEF EbpfIInv, CountInv
  <2> QED BY <2>5, <2>6, <2>7 DEF WaitsAccounted, Drops
<1> QED BY <1>1, EbpfIInvHolds, PTL
===============================================================================
