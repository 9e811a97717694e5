---------------------------- MODULE NetworkSink ----------------------------
(***************************************************************************)
(* NetworkEventSink (src/storage/network_event_sink.cpp): the sink that    *)
(* posts events to an HTTP endpoint and keeps what it has not yet posted   *)
(* in a write-ahead log of segment files, so that an event it accepted     *)
(* reaches the server at least once.                                       *)
(*                                                                         *)
(* One worker thread does everything; what can go wrong is around it: a    *)
(* failing file operation, a lost response, the process killed or the      *)
(* power cut between any two of its file operations.  The length of a      *)
(* segment is counted in lines.  A temporary segment (.wal.tmp) is never   *)
(* read back, so its file is part of the staging step.                     *)
(***************************************************************************)
EXTENDS Naturals, Sequences, FiniteSets

CONSTANTS
  MaxEvents,      \* bound: events offered by the input queues
  CriticalEvents, \* those of level Critical
  BatchSize,      \* network_batch_size
  SegmentLines,   \* network_wal_segment_mb
  MaxLines,       \* network_wal_max_mb
  MaxIndex,       \* bound: segment numbers
  MaxFaults,      \* bound: operations that fail
  MaxCrashes,     \* bound: kills and power cuts
  PowerCuts,      \* may the power fail, losing what was not synced?
  TornAppends     \* may a failing append leave part of its line behind?

ASSUME SizesAssumption ==
  /\ BatchSize \in Nat \ {0}
  /\ SegmentLines \in Nat \ {0}
  /\ MaxLines \in Nat \ {0}
ASSUME NetworkBoundsAssumption ==
  /\ MaxEvents \in Nat
  /\ MaxIndex \in Nat \ {0}
  /\ MaxFaults \in Nat
  /\ MaxCrashes \in Nat
ASSUME EventsAssumption ==
  /\ CriticalEvents \subseteq 1..MaxEvents
  /\ PowerCuts \in BOOLEAN
  /\ TornAppends \in BOOLEAN

Events == 1..MaxEvents

Indices == 1..MaxIndex

\* A line of a segment is an event, the garbled join of a torn line with the
\* line after it, or, at the end of a segment, a torn line itself.
Garbled == 0
Torn == MaxEvents + 1

Records == Events \cup {Garbled}

VARIABLES
  segs,        \* the contents of the segment files
  dir,         \* the segments in network_wal_path, as the process sees them
  synced,      \* how many lines of each segment are on the medium
  ddir,        \* the segments whose directory entry is on the medium
  pending,     \* pending_
  wal,         \* current_wal_path_ (its number), current_wal_size_ and
               \* current_wal_index_
  running,     \* running_
  pc,          \* where the worker is
  phase,       \* in the loop of run, or in the final round after it
  rw,          \* the locals of rewrite_wal_locked
  next,        \* history: the next event the input queues deliver
  accepted,    \* history: the events counted in accepted_events_
  deliveries,  \* history: how often the server has seen each event
  hardened,    \* history: the events some rewrite has put on the medium,
               \* and no load since has missed
  forfeited,   \* history: accepted events a power cut may have taken
  overlooked,  \* history: events a load has missed, and no load has read
               \* since
  faults, crashes

disk == <<segs, dir, synced, ddir>>
history == <<next, accepted, deliveries, hardened, forfeited, overlooked>>
vars == <<disk, pending, wal, running, pc, phase, rw, history, faults,
          crashes>>

NoRewrite ==
  [acked |-> 0, staged |-> <<>>, base |-> 0, done |-> 0, old |-> {}]

---------------------------------------------------------------------------
\* What a segment gives when it is read back line by line.
ReadBack(lines) ==
  [p \in DOMAIN lines |-> IF lines[p] = Torn THEN Garbled ELSE lines[p]]

\* Mutant: only the newest segment is loaded.
LoadedNewest(read) ==
  IF DOMAIN read = {} THEN <<>>
  ELSE LET newest == CHOOSE m \in DOMAIN read : \A n \in DOMAIN read : n <= m
       IN  ReadBack(SubSeq(segs[newest], 1, read[newest]))

\* load_wal: the segments it lists, in the order of their names, each as far
\* as it is read.
Loaded(read) ==
  LET upTo[i \in 0..MaxIndex] ==
        IF i = 0 THEN <<>>
        ELSE IF i \in DOMAIN read
        THEN upTo[i - 1] \o ReadBack(SubSeq(segs[i], 1, read[i]))
        ELSE upTo[i - 1]
  IN  upTo[MaxIndex]

\* How far a load may read the segments S.
Readings(S) ==
  {read \in [S -> UNION {0..Len(segs[i]) : i \in S}] :
     \A i \in S : read[i] <= Len(segs[i])}

\* Every segment to its end.
Whole == [i \in dir |-> Len(segs[i])]

\* The events among the lines a load reads.
EventsRead(read) ==
  (UNION {{segs[i][p] : p \in 1..read[i]} : i \in DOMAIN read}) \cap Events

LinesOf(S) == UNION {{segs[i][p] : p \in DOMAIN segs[i]} : i \in S}

MaxOf(S) == IF S = {} THEN 0 ELSE CHOOSE m \in S : \A n \in S : n <= m

wal_bytes ==
  LET upTo[i \in 0..MaxIndex] ==
        IF i = 0 THEN 0
        ELSE upTo[i - 1] + (IF i \in dir THEN Len(segs[i]) ELSE 0)
  IN  upTo[MaxIndex]

wal_over_limit == wal_bytes >= MaxLines

\* A line written after a torn one becomes part of that line.
Appended(lines, line) ==
  IF lines # <<>> /\ lines[Len(lines)] = Torn
  THEN [lines EXCEPT ![Len(lines)] = IF line = Torn THEN Torn ELSE Garbled]
  ELSE Append(lines, line)

Init ==
  /\ segs = [i \in Indices |-> <<>>]
  /\ dir = {} /\ ddir = {}
  /\ synced = [i \in Indices |-> 0]
  /\ pending = <<>>
  /\ wal = [current |-> 0, size |-> 0, index |-> 1]
  /\ running = FALSE
  /\ pc = "down"
  /\ phase = "loop"
  /\ rw = NoRewrite
  /\ next = 1
  /\ accepted = {} /\ hardened = {} /\ forfeited = {} /\ overlooked = {}
  /\ deliveries = [e \in Events |-> 0]
  /\ faults = 0 /\ crashes = 0

Fault == faults < MaxFaults /\ faults' = faults + 1

\* start: load_wal, then the worker.  Without an error load_wal goes on when
\* the directory cannot be listed, with no segment and the first number, and
\* when a segment cannot be opened or read to its end, with the lines so far.
\* An exception it throws leaves the sink down.
start(read) ==
  /\ pc = "down"
  /\ IF read = Whole THEN UNCHANGED faults ELSE Fault
  /\ LET newest == MaxOf(DOMAIN read)
     IN  /\ newest < MaxIndex
         /\ wal' = [current |-> newest + 1, size |-> 0, index |-> newest + 2]
  /\ pending' = Loaded(read)
  /\ overlooked' = (overlooked \cup (LinesOf(dir) \cap Events))
                     \ EventsRead(read)
  /\ hardened' = hardened \ overlooked'
  /\ running' = TRUE
  /\ pc' = "head"
  /\ phase' = "loop"
  /\ rw' = NoRewrite
  /\ UNCHANGED <<disk, next, accepted, deliveries, forfeited, crashes>>

\* stop clears the flag; the worker notices at the head of its loop.
stop ==
  /\ pc # "down" /\ running
  /\ running' = FALSE
  /\ UNCHANGED <<disk, pending, wal, pc, phase, rw, history, faults, crashes>>

\* Mutant: the loop does not look at running_.
LoopIgnoresStop ==
  /\ pc = "head"
  /\ pc' = "drain"
  /\ phase' = "loop"
  /\ UNCHANGED <<disk, pending, wal, running, rw, history, faults, crashes>>

LoopHead ==
  /\ pc = "head"
  /\ pc' = "drain"
  /\ phase' = IF running THEN "loop" ELSE "final"
  /\ UNCHANGED <<disk, pending, wal, running, rw, history, faults, crashes>>

---------------------------------------------------------------------------
(***************************************************************************)
(* drain_queues_once.                                                      *)
(***************************************************************************)
\* append_wal moves to the next segment once the current one is full.
Rotated ==
  IF wal.size >= SegmentLines
  THEN [current |-> wal.index, size |-> 0, index |-> wal.index + 1]
  ELSE wal

\* The file is opened for appending, and created when it is not there.
WriteLine(i, line) ==
  /\ segs' = [segs EXCEPT ![i] = Appended(IF i \in dir THEN @ ELSE <<>>, line)]
  /\ synced' = [synced EXCEPT ![i] = IF i \in dir THEN @ ELSE 0]
  /\ dir' = dir \cup {i}
  /\ ddir' = IF i \in dir THEN ddir ELSE ddir \ {i}

Pops == pc = "drain" /\ next <= MaxEvents /\ next' = next + 1

\* wal_over_limit, which takes the directory for empty, or a segment for
\* huge, when it cannot be read.
Answers(over) == IF over = wal_over_limit THEN UNCHANGED faults ELSE Fault

\* Over the limit, everything but Critical is dropped.
DropOverLimit ==
  /\ Pops
  /\ next \notin CriticalEvents
  /\ Answers(TRUE)
  /\ UNCHANGED <<disk, pending, wal, running, phase, pc, rw, accepted,
                 deliveries, hardened, forfeited, overlooked, crashes>>

append_wal ==
  /\ Pops
  /\ IF next \in CriticalEvents THEN UNCHANGED faults ELSE Answers(FALSE)
  /\ Rotated.current <= MaxIndex
  /\ wal' = [Rotated EXCEPT !.size = @ + 1]
  /\ WriteLine(Rotated.current, next)
  /\ pending' = Append(pending, next)
  /\ accepted' = accepted \cup {next}
  /\ UNCHANGED <<running, phase, pc, rw, deliveries, hardened, forfeited,
                 overlooked, crashes>>

\* The open fails, or the write or the flush does, with the line cut short:
\* the event is not accepted.  The limit may have been misread before.
AppendFails(torn) ==
  /\ Pops
  /\ torn => TornAppends
  /\ Rotated.current <= MaxIndex
  /\ Fault
  /\ wal' = Rotated
  /\ IF torn
     THEN WriteLine(Rotated.current, Torn)
     ELSE UNCHANGED disk
  /\ UNCHANGED <<pending, running, phase, pc, rw, accepted, deliveries,
                 hardened, forfeited, overlooked, crashes>>

\* The queues are empty: enforce_wal_limit, then on to flush_pending.
Drained(over) ==
  /\ pc = "drain"
  /\ Answers(over)
  /\ IF over
     THEN pc' = "stage" /\ rw' = [NoRewrite EXCEPT !.acked = 0]
     ELSE pc' = "flush" /\ UNCHANGED rw
  /\ UNCHANGED <<disk, pending, wal, running, phase, history, crashes>>

(***************************************************************************)
(* flush_pending.                                                          *)
(***************************************************************************)
Batch == SubSeq(pending, 1, IF Len(pending) < BatchSize THEN Len(pending)
                            ELSE BatchSize)

ServerSees ==
  deliveries' = [e \in Events |->
    deliveries[e] + Cardinality({p \in DOMAIN Batch : Batch[p] = e})]

\* Nothing pending, or not yet time to try again; the final round does not
\* wait, and ends when nothing is pending.
NoFlush ==
  /\ pc = "flush"
  /\ pending = <<>> \/ phase = "loop"
  /\ pc' = IF phase = "loop" THEN "head" ELSE "down"
  /\ UNCHANGED <<disk, pending, wal, running, phase, rw, history, faults,
                 crashes>>

PostAcknowledged ==
  /\ pc = "flush" /\ pending # <<>>
  /\ ServerSees
  /\ rw' = [NoRewrite EXCEPT !.acked = Len(Batch)]
  /\ pc' = "stage"
  /\ UNCHANGED <<disk, pending, wal, running, phase, next, accepted, hardened,
                 forfeited, overlooked, faults, crashes>>

\* The request or its response is lost; the final round gives up.
PostFails(arrived) ==
  /\ pc = "flush" /\ pending # <<>>
  /\ Fault
  /\ IF arrived THEN ServerSees ELSE UNCHANGED deliveries
  /\ pc' = IF phase = "loop" THEN "head" ELSE "down"
  /\ UNCHANGED <<disk, pending, wal, running, phase, rw, next, accepted,
                 hardened, forfeited, overlooked, crashes>>

---------------------------------------------------------------------------
(***************************************************************************)
(* rewrite_wal_locked: publish a new generation of segments that holds     *)
(* what remains, then remove the old one.                                  *)
(***************************************************************************)
\* Mutant: one more record than the server acknowledged is given up.
RemainingOffByOne == SubSeq(pending, rw.acked + 2, Len(pending))

Remaining == SubSeq(pending, rw.acked + 1, Len(pending))

\* The segments of a sequence of records, at least one.
Chunks(s) ==
  LET n == IF s = <<>> THEN 1
           ELSE (Len(s) + SegmentLines - 1) \div SegmentLines
  IN  [k \in 1..n |-> SubSeq(s, (k - 1) * SegmentLines + 1,
                             IF k * SegmentLines < Len(s)
                             THEN k * SegmentLines ELSE Len(s))]

\* Back in the caller.  A rewrite for the limit ends drain_queues_once
\* whether or not it succeeded; one for an acknowledged batch decides whether
\* the final round tries the next batch.
AfterRewrite(ok) ==
  /\ rw' = NoRewrite
  /\ pc' = IF rw.acked = 0 THEN "flush"
           ELSE IF phase = "loop" THEN "head"
           ELSE IF ok THEN "flush" ELSE "down"

RewriteFails ==
  /\ pc \in {"stage", "rename", "publish"}
  /\ Fault
  /\ AfterRewrite(FALSE)
  /\ UNCHANGED <<disk, pending, wal, running, phase, history, crashes>>

\* Every temporary segment is written and synced.  When the directory cannot
\* be listed, the old generation is taken for empty.
Stage(listed) ==
  /\ pc = "stage"
  /\ IF listed THEN UNCHANGED faults ELSE Fault
  /\ LET old == IF listed THEN dir ELSE {}
         first == IF wal.index > MaxOf(old) THEN wal.index ELSE MaxOf(old) + 1
     IN  /\ first + Len(Chunks(Remaining)) - 1 <= MaxIndex
         /\ rw' = [rw EXCEPT !.staged = Chunks(Remaining), !.base = first,
                             !.old = old]
  /\ pc' = "rename"
  /\ UNCHANGED <<disk, pending, wal, running, phase, history, crashes>>

\* What had this name is replaced.  The medium may still have an entry for
\* it; no line is counted on in that one.
Rename ==
  /\ pc = "rename"
  /\ LET i == rw.base + rw.done
     IN  /\ segs' = [segs EXCEPT ![i] = rw.staged[rw.done + 1]]
         /\ synced' = [synced EXCEPT ![i] = Len(rw.staged[rw.done + 1])]
         /\ dir' = dir \cup {i}
         /\ ddir' = ddir \ {i}
  /\ rw' = [rw EXCEPT !.done = @ + 1]
  /\ pc' = IF rw.done + 1 = Len(rw.staged) THEN "publish" ELSE "rename"
  /\ UNCHANGED <<pending, wal, running, phase, history, faults, crashes>>

EventsOf(s) == {s[p] : p \in DOMAIN s} \cap Events

\* Mutant: memory moves to the new generation, but the directory was never
\* synced.
PublishUnsynced ==
  /\ pc = "publish"
  /\ pending' = Remaining
  /\ wal' = [current |-> rw.base + rw.done - 1,
             size |-> Len(rw.staged[rw.done]), index |-> rw.base + rw.done]
  /\ hardened' = hardened \cup EventsOf(Remaining)
  /\ pc' = "remove"
  /\ UNCHANGED <<disk, running, phase, rw, next, accepted, deliveries,
                 forfeited, overlooked, faults, crashes>>

\* sync_directory succeeds, and only then memory moves to the new generation.
Publish ==
  /\ pc = "publish"
  /\ ddir' = dir
  /\ pending' = Remaining
  /\ wal' = [current |-> rw.base + rw.done - 1,
             size |-> Len(rw.staged[rw.done]), index |-> rw.base + rw.done]
  /\ hardened' = hardened \cup EventsOf(Remaining)
  /\ pc' = "remove"
  /\ UNCHANGED <<segs, dir, synced, running, phase, rw, next, accepted,
                 deliveries, forfeited, overlooked, faults, crashes>>

\* Mutant: the old generation is never cleaned up.
RemoveNothing(i, ok) ==
  /\ pc = "remove" /\ i \in rw.old
  /\ rw' = [rw EXCEPT !.old = @ \ {i}]
  /\ UNCHANGED <<disk, pending, wal, running, phase, pc, history, faults,
                 crashes>>

\* An old segment that cannot be removed stays behind.
RemoveOld(i, ok) ==
  /\ pc = "remove" /\ i \in rw.old
  /\ IF ok THEN dir' = dir \ {i} /\ UNCHANGED faults
           ELSE Fault /\ UNCHANGED dir
  /\ rw' = [rw EXCEPT !.old = @ \ {i}]
  /\ UNCHANGED <<segs, synced, ddir, pending, wal, running, phase, pc,
                 history, crashes>>

\* The second sync_directory; its failure is only logged.
CleanedUp(ok) ==
  /\ pc = "remove" /\ rw.old = {}
  /\ IF ok THEN ddir' = dir /\ UNCHANGED faults
           ELSE Fault /\ UNCHANGED ddir
  /\ AfterRewrite(TRUE)
  /\ UNCHANGED <<segs, dir, synced, pending, wal, running, phase, history,
                 crashes>>

---------------------------------------------------------------------------
(***************************************************************************)
(* The process dies: memory is gone.  Killed, it leaves the files as they  *)
(* are.  When the power fails, entries of the directory changed since its  *)
(* last sync may be in either state, and lines since a segment's last sync *)
(* may be missing.                                                         *)
(***************************************************************************)
Dies ==
  /\ pc # "down" /\ crashes < MaxCrashes
  /\ crashes' = crashes + 1
  /\ running' = FALSE
  /\ pc' = "down"
  /\ phase' = "loop"
  /\ rw' = NoRewrite
  /\ pending' = <<>>
  /\ UNCHANGED <<wal, next, accepted, deliveries, hardened, overlooked,
                 faults>>

Kill == Dies /\ UNCHANGED <<disk, forfeited>>

PowerCut ==
  /\ PowerCuts
  /\ Dies
  /\ \E kept \in SUBSET (dir \cup ddir) :
       /\ dir \cap ddir \subseteq kept
       /\ dir' = kept /\ ddir' = kept
       /\ \E left \in [{i \in kept : synced[i] < Len(segs[i])}
                        -> UNION {synced[i]..Len(segs[i]) : i \in kept}] :
            /\ \A i \in DOMAIN left : left[i] \in synced[i]..Len(segs[i])
            /\ segs' = [i \in Indices |->
                          IF i \in DOMAIN left THEN SubSeq(segs[i], 1, left[i])
                          ELSE segs[i]]
  /\ synced' = [i \in Indices |-> Len(segs'[i])]
  /\ forfeited' = forfeited \cup (accepted \ hardened)

Worker ==
  \/ LoopHead \/ DropOverLimit \/ append_wal
  \/ \E over \in BOOLEAN : Drained(over)
  \/ NoFlush \/ PostAcknowledged
  \/ Stage(TRUE) \/ Rename \/ Publish
  \/ \E i \in Indices : RemoveOld(i, TRUE)
  \/ CleanedUp(TRUE)

Faulty ==
  \/ \E torn \in BOOLEAN : AppendFails(torn)
  \/ \E arrived \in BOOLEAN : PostFails(arrived)
  \/ Stage(FALSE) \/ RewriteFails
  \/ \E i \in Indices : RemoveOld(i, FALSE)
  \/ CleanedUp(FALSE)

Next ==
  \/ \E listed \in {dir, {}} : \E read \in Readings(listed) : start(read)
  \/ stop \/ Worker \/ Faulty \/ Kill \/ PowerCut

Spec == Init /\ [][Next]_vars

\* The worker thread keeps running, the agent is started again, and a request
\* that is repeated for ever is answered at some time.
FairSpec ==
  /\ Spec
  /\ WF_vars(start(Whole))
  /\ WF_vars(Worker)
  /\ SF_vars(PostAcknowledged)

---------------------------------------------------------------------------
Lines == Records \cup {Torn}

TypeOK ==
  /\ segs \in [Indices -> Seq(Lines)]
  /\ dir \subseteq Indices /\ ddir \subseteq Indices
  /\ synced \in [Indices -> Nat]
  /\ pending \in Seq(Records)
  /\ wal \in [current : Nat, size : Nat, index : Nat \ {0}]
  /\ running \in BOOLEAN
  /\ phase \in {"loop", "final"}
  /\ pc \in {"down", "head", "drain", "flush", "stage", "rename", "publish",
             "remove"}
  /\ rw \in [acked : Nat, staged : Seq(Seq(Records)), base : Nat, done : Nat,
             old : SUBSET Indices]
  /\ next \in 1..(MaxEvents + 1)
  /\ accepted \subseteq Events
  /\ deliveries \in [Events -> Nat]
  /\ hardened \subseteq Events /\ forfeited \subseteq Events
  /\ overlooked \subseteq Events
  /\ faults \in 0..MaxFaults /\ crashes \in 0..MaxCrashes

received == {e \in Events : deliveries[e] > 0}

\* An accepted event the server has not seen is always in a segment that a
\* restart would read, at every point of a rewrite and whatever file
\* operation has failed: killing the process loses nothing.  The one failure
\* that is excused is that of a load which did not read the event, and only
\* as long as no later load has read it.
AtLeastOnce ==
  accepted \ (received \cup forfeited \cup overlooked) \subseteq LinesOf(dir)

\* What a rewrite has put on the medium and the server has not seen would
\* survive a power cut right now, although later rewrites replace and remove
\* the segments that held it.  A load that does not read an event ends this.
DurableBacklog ==
  hardened \ received
    \subseteq UNION {{segs[i][p] : p \in 1..synced[i]} : i \in dir \cap ddir}

\* The recovery is at-least-once: an event stays in the log until the server
\* has it, unless the power fails.
KeptUntilReceived ==
  accepted \ (received \cup forfeited) \subseteq LinesOf(dir)

\* Repeated delivery is the price of a failure only: as long as no operation
\* failed and the process did not die, no event is posted twice, whatever the
\* sink was stopped, restarted or compacted in between.
NoNeedlessDuplicates ==
  faults = 0 /\ crashes = 0 => \A e \in Events : deliveries[e] <= 1

\* Every accepted event reaches the server, as long as the sink is started
\* again whenever it is down and failures do not go on for ever, unless a load
\* misses it; and again from when a later load reads it.
EventuallyDelivered ==
  \A e \in Events : e \in accepted ~> e \in received \cup overlooked

\* A sink that is asked to stop comes to an end, even with a backlog it
\* cannot deliver.
StopEnds == ~running ~> pc = "down"
=============================================================================
