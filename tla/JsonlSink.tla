----------------------------- MODULE JsonlSink -----------------------------
(***************************************************************************)
(* JsonlEventSink (src/storage/jsonl_event_sink.cpp): the sink that writes *)
(* events to rotating JSONL files with a readable summary beside each,     *)
(* syncs Critical events to the medium at a limited rate, and keeps the    *)
(* cache directory below a size.                                           *)
(*                                                                         *)
(* One worker thread calls the functions of write_event in turn, one       *)
(* action each.  Around it the clock goes on, operations fail, the sink is *)
(* stopped and started, and the process is killed: an error of             *)
(* create_directories or of the directory scan is an exception nobody      *)
(* catches, and ends it as well.  Sizes are counted in lines.  A file is   *)
(* known by its number; those of a later process go on counting, as its    *)
(* file names differ.                                                      *)
(***************************************************************************)
EXTENDS Naturals, Sequences, FiniteSetsExt

CONSTANTS
  MaxEvents,      \* bound: events offered by the input queues
  CriticalEvents, \* those of level Critical
  critical_fsync, \* configuration: sync Critical events
  MaxSyncs,       \* max_fsync_per_minute
  Minute,         \* the 60000 ms of the limiter, in ticks of the clock
  MaxTime,        \* bound: the clock
  RotateLines,    \* file_rotate_mb
  CacheLines,     \* cache_max_mb
  BufferLines,    \* lines a stream holds before it writes
  MaxParts,       \* bound: file numbers
  MaxFaults,      \* bound: operations that fail
  MaxKills        \* bound: kills

ASSUME JsonlSizesAssumption ==
  /\ critical_fsync \in BOOLEAN
  /\ MaxSyncs \in Nat
  /\ Minute \in Nat \ {0}
  /\ RotateLines \in Nat \ {0}
  /\ CacheLines \in Nat \ {0}
  /\ BufferLines \in Nat
ASSUME JsonlBoundsAssumption ==
  /\ MaxEvents \in Nat /\ CriticalEvents \subseteq 1..MaxEvents
  /\ MaxTime \in Nat /\ MaxParts \in Nat
  /\ MaxFaults \in Nat /\ MaxKills \in Nat

Events == 1..MaxEvents

Parts == 1..MaxParts

VARIABLES
  files,    \* the lines of each JSONL file
  sums,     \* the number of lines of each summary file
  dir,      \* the files in cache_path: <<"jsonl", part>>, <<"summary", part>>
  ddir,     \* those whose directory entry is on the medium
  medium,   \* the events whose line is on the medium
  part,     \* file_index_, which current_path_ and current_summary_path_ name
  stream,   \* stream_: its file (0 when closed), its state and its buffer
  summary,  \* summary_stream_: its file (0 when closed) and its buffer
  current_size,
  needs_directory_sync,
  limiter,  \* fsync_window_start_ms_ and fsync_in_window_
  running,  \* running_
  pc, event, \* where the worker is, and the event it writes
  scan,     \* the locals of enforce_cache_limit
  now,      \* monotonic_ms()
  next,     \* history: the next event the input queues deliver
  home,     \* history: the file each event was written to, 0 for none
  done,     \* history: the events write_event has returned from
  failed,   \* history: those counted in write_errors_ or fsync_failures_
  limited,  \* history: those counted in fsync_rate_limited_
  removed,  \* history: the files the cache limit has removed
  syncs,    \* history: the calls of fdatasync at each time, by this process
  faults, kills

disk == <<files, sums, dir, ddir, medium>>
streams == <<part, stream, summary, current_size, needs_directory_sync>>
history == <<next, home, done, failed, limited, removed, syncs>>
bounds == <<faults, kills>>
vars == <<disk, streams, limiter, running, pc, event, scan, now, history,
          bounds>>

Closed == [part |-> 0, bad |-> FALSE, buf |-> <<>>]
NoSummary == [part |-> 0, buf |-> 0]
NoScan == [total |-> 0, todo |-> {}]

Init ==
  /\ files = [i \in Parts |-> <<>>]
  /\ sums = [i \in Parts |-> 0]
  /\ dir = {} /\ ddir = {} /\ medium = {}
  /\ part = 0
  /\ stream = Closed /\ summary = NoSummary
  /\ current_size = 0 /\ needs_directory_sync = FALSE
  /\ limiter = [start |-> 0, count |-> 0]
  /\ running = FALSE
  /\ pc = "down" /\ event = 0 /\ scan = NoScan
  /\ now = 0 /\ next = 1
  /\ home = [e \in Events |-> 0]
  /\ done = {} /\ failed = {} /\ limited = {}
  /\ removed = {}
  /\ syncs = [t \in 0..MaxTime |-> 0]
  /\ faults = 0 /\ kills = 0

Fault == faults < MaxFaults /\ faults' = faults + 1

Outcome(ok) == IF ok THEN UNCHANGED faults ELSE Fault

\* The first k lines of a stream's buffer reach its file.
Reach(s, k) ==
  files' = [files EXCEPT ![s.part] = @ \o SubSeq(s.buf, 1, k)]

ClosedSums ==
  IF summary.part = 0 THEN sums
  ELSE [sums EXCEPT ![summary.part] = @ + summary.buf]

---------------------------------------------------------------------------
\* open_next_file.  A summary stream that is still open, because only the
\* JSONL stream was closed by a failing write, cannot be opened again: it is
\* closed, and the new file has no summary.
open_next_file(ok, summary_ok) ==
  LET reopens == summary.part = 0
      s == summary_ok /\ reopens
  IN  /\ part < MaxParts
      /\ part' = part + 1
      /\ current_size' = 0
      /\ needs_directory_sync' = ok
      /\ stream' = IF ok THEN [Closed EXCEPT !.part = part + 1] ELSE Closed
      /\ summary' = IF s THEN [part |-> part + 1, buf |-> 0] ELSE NoSummary
      /\ sums' = ClosedSums
      /\ dir' = dir \cup (IF ok THEN {<<"jsonl", part + 1>>} ELSE {})
                    \cup (IF s THEN {<<"summary", part + 1>>} ELSE {})
      /\ ~reopens => summary_ok
      /\ Outcome(ok /\ summary_ok)

\* start, and the file run opens first.
start(ok, summary_ok) ==
  /\ pc = "down"
  /\ open_next_file(ok, summary_ok)
  /\ running' = TRUE
  /\ pc' = "head"
  /\ UNCHANGED <<files, ddir, medium, limiter, event, scan, now, history,
                 kills>>

stop ==
  /\ pc # "down" /\ running
  /\ running' = FALSE
  /\ UNCHANGED <<disk, streams, limiter, pc, event, scan, now, history,
                 bounds>>

\* A stream is flushed and closed, and nobody looks at whether that wrote
\* what it still held.
CloseStream ==
  /\ IF stream.part = 0 THEN UNCHANGED <<files, faults>>
     ELSE \E k \in 0..Len(stream.buf) :
            /\ Outcome(k = Len(stream.buf) \/ stream.bad)
            /\ Reach(stream, k)
  /\ stream' = Closed /\ summary' = NoSummary /\ sums' = ClosedSums

\* The worker has drained the queues and is gone: stop closes both streams.
CloseStreams ==
  /\ pc = "head" /\ ~running
  /\ CloseStream
  /\ pc' = "down"
  /\ UNCHANGED <<dir, ddir, medium, part, current_size, needs_directory_sync,
                 limiter, running, event, scan, now, history, kills>>

\* run and drain_queues: the next event of the queues.
Pop ==
  /\ pc = "head" /\ next <= MaxEvents
  /\ next' = next + 1
  /\ event' = next
  /\ pc' = IF stream.part = 0 THEN "open" ELSE "write"
  /\ UNCHANGED <<disk, streams, limiter, running, scan, now, home, done,
                 failed, limited, removed, syncs, bounds>>

---------------------------------------------------------------------------
(***************************************************************************)
(* write_event.                                                            *)
(***************************************************************************)
Return == pc' = "head" /\ event' = 0 /\ done' = done \cup {event}

Reopen(ok, summary_ok) ==
  /\ pc = "open"
  /\ open_next_file(ok, summary_ok)
  /\ IF ok THEN pc' = "write" /\ UNCHANGED <<event, done, failed>>
     ELSE Return /\ failed' = failed \cup {event}
  /\ UNCHANGED <<files, ddir, medium, limiter, running, scan, now, next, home,
                 limited, removed, syncs, kills>>

\* The line goes to the buffer, and some of the buffer to the file.
WriteLine ==
  /\ pc = "write" /\ ~stream.bad
  /\ LET buf == Append(stream.buf, event)
     IN  \E k \in 0..Len(buf) :
           /\ Len(buf) - k <= BufferLines
           /\ Reach([stream EXCEPT !.buf = buf], k)
           /\ stream' = [stream EXCEPT !.buf = SubSeq(buf, k + 1, Len(buf))]
  /\ current_size' = current_size + 1
  /\ home' = [home EXCEPT ![event] = stream.part]
  /\ pc' = "summary"
  /\ UNCHANGED <<sums, dir, ddir, medium, part, summary, needs_directory_sync,
                 limiter, running, event, scan, now, next, done, failed,
                 limited, removed, syncs, bounds>>

\* A stream left bad by a failed flush refuses the line without trying.  The
\* JSONL stream is closed, and what it held may or may not reach the file.
WriteFails ==
  /\ pc = "write"
  /\ Outcome(stream.bad)
  /\ \E k \in 0..Len(stream.buf) : Reach(stream, k)
  /\ stream' = Closed
  /\ Return /\ failed' = failed \cup {event}
  /\ UNCHANGED <<sums, dir, ddir, medium, part, summary, current_size,
                 needs_directory_sync, limiter, running, scan, now, next,
                 home, limited, removed, syncs, kills>>

write_summary(ok) ==
  /\ pc = "summary"
  /\ IF summary.part = 0
     THEN ok /\ UNCHANGED <<summary, sums, faults>>
     ELSE /\ Outcome(ok)
          /\ \E k \in 0..(summary.buf + 1) :
               /\ sums' = [sums EXCEPT ![summary.part] = @ + k]
               /\ IF ok
                  THEN /\ summary.buf + 1 - k <= BufferLines
                       /\ summary' = [summary EXCEPT !.buf = @ + 1 - k]
                  ELSE summary' = NoSummary
  /\ pc' = "sync"
  /\ UNCHANGED <<files, dir, ddir, medium, part, stream, current_size,
                 needs_directory_sync, limiter, running, event, scan, now,
                 history, kills>>

---------------------------------------------------------------------------
(***************************************************************************)
(* fsync_if_allowed.                                                       *)
(***************************************************************************)
NeedsSync == critical_fsync /\ event \in CriticalEvents

NoSync ==
  /\ pc = "sync" /\ ~NeedsSync
  /\ pc' = "rotate"
  /\ UNCHANGED <<disk, streams, limiter, running, event, scan, now, history,
                 bounds>>

\* The stream is bad from now on, but stays open.
FlushFails ==
  /\ pc = "sync" /\ NeedsSync
  /\ Fault
  /\ \E k \in 0..Len(stream.buf) :
       /\ Reach(stream, k)
       /\ stream' = [stream EXCEPT !.buf = SubSeq(@, k + 1, Len(@)),
                                   !.bad = TRUE]
  /\ failed' = failed \cup {event}
  /\ pc' = "rotate"
  /\ UNCHANGED <<sums, dir, ddir, medium, part, summary, current_size,
                 needs_directory_sync, limiter, running, event, scan, now,
                 next, home, done, limited, removed, syncs, kills>>

Flushed ==
  /\ Reach(stream, Len(stream.buf))
  /\ stream' = [stream EXCEPT !.buf = <<>>]

\* The limiter counts in fixed minutes.
ThisMinute ==
  IF now - limiter.start >= Minute THEN [start |-> now, count |-> 0]
  ELSE limiter

\* Mutant: the limiter lets one sync too many pass.
AllowedOneMore == ThisMinute.count <= MaxSyncs

Allowed == ThisMinute.count < MaxSyncs

\* Mutant: the limit is tested before the flush.
RateLimitedUnflushed ==
  /\ pc = "sync" /\ NeedsSync /\ ~Allowed
  /\ limiter' = ThisMinute
  /\ limited' = limited \cup {event}
  /\ pc' = "rotate"
  /\ UNCHANGED <<disk, streams, running, event, scan, now, next, home, done,
                 failed, removed, syncs, bounds>>

RateLimited ==
  /\ pc = "sync" /\ NeedsSync /\ ~Allowed
  /\ Flushed
  /\ limiter' = ThisMinute
  /\ limited' = limited \cup {event}
  /\ pc' = "rotate"
  /\ UNCHANGED <<sums, dir, ddir, medium, part, summary, current_size,
                 needs_directory_sync, running, event, scan, now, next, home,
                 done, failed, removed, syncs, bounds>>

\* A sync uses up the budget of the minute whether or not it succeeds.
Attempt ==
  /\ pc = "sync" /\ NeedsSync /\ Allowed
  /\ Flushed
  /\ limiter' = [ThisMinute EXCEPT !.count = @ + 1]
  /\ pc' = "rotate"
  /\ UNCHANGED <<sums, dir, part, summary, current_size, running, event, scan,
                 now, next, home, done, limited, removed, kills>>

LinesOf(lines) == {lines[p] : p \in DOMAIN lines}

FdatasyncCalled == syncs' = [syncs EXCEPT ![now] = @ + 1]

\* The lines of the file are on the medium, and after the first sync of a new
\* file its directory entry as well.
SyncDone ==
  /\ Attempt
  /\ FdatasyncCalled
  /\ medium' = medium \cup LinesOf(files'[stream.part])
  /\ ddir' = IF needs_directory_sync THEN dir ELSE ddir
  /\ needs_directory_sync' = FALSE
  /\ UNCHANGED <<failed, faults>>

\* Mutant: the directory counts as synced although that failed.
SyncFailsOnce(step) ==
  /\ Attempt
  /\ Fault
  /\ step = "directory" => needs_directory_sync
  /\ IF step = "open" THEN UNCHANGED syncs ELSE FdatasyncCalled
  /\ medium' = medium \cup
       (IF step = "directory" THEN LinesOf(files'[stream.part]) ELSE {})
  /\ failed' = failed \cup {event}
  /\ needs_directory_sync' = FALSE
  /\ UNCHANGED ddir

\* The open, the fdatasync or the sync of the directory fails.
SyncFails(step) ==
  /\ Attempt
  /\ Fault
  /\ step = "directory" => needs_directory_sync
  /\ IF step = "open" THEN UNCHANGED syncs ELSE FdatasyncCalled
  /\ medium' = medium \cup
       (IF step = "directory" THEN LinesOf(files'[stream.part]) ELSE {})
  /\ failed' = failed \cup {event}
  /\ UNCHANGED <<ddir, needs_directory_sync>>

---------------------------------------------------------------------------
(***************************************************************************)
(* rotate_if_needed.                                                       *)
(***************************************************************************)
NoRotation ==
  /\ pc = "rotate" /\ current_size < RotateLines
  /\ pc' = "enforce"
  /\ UNCHANGED <<disk, streams, limiter, running, event, scan, now, history,
                 bounds>>

CloseFull ==
  /\ pc = "rotate" /\ current_size >= RotateLines
  /\ CloseStream
  /\ pc' = "rotated"
  /\ UNCHANGED <<dir, ddir, medium, part, current_size, needs_directory_sync,
                 limiter, running, event, scan, now, history, kills>>

\* When the next file cannot be opened, the next event tries again.
OpenNext(ok, summary_ok) ==
  /\ pc = "rotated"
  /\ open_next_file(ok, summary_ok)
  /\ pc' = "enforce"
  /\ UNCHANGED <<files, ddir, medium, limiter, running, event, scan, now,
                 history, kills>>

(***************************************************************************)
(* enforce_cache_limit.                                                    *)
(***************************************************************************)
SizeOf(f) == IF f[1] = "jsonl" THEN Len(files[f[2]]) ELSE sums[f[2]]

TotalOf(S) == MapThenSumSet(SizeOf, S)

Removable(S) == {f \in S : f[2] # part}

\* Mutant: the files are sorted the other way round.
NewestFirst(S) == {f \in S : \A g \in S : g[2] <= f[2]}

\* The order of the last writes: a file is closed before the next is written,
\* and one that was never written carries the time of its creation.
Oldest(S) ==
  {f \in S : SizeOf(f) = 0 \/ \A g \in S : SizeOf(g) > 0 => f[2] <= g[2]}

\* Back in run with the event done, or on to the next file to remove.
GoOn(s) ==
  IF s.total <= CacheLines \/ Removable(s.todo) = {}
  THEN Return /\ scan' = NoScan
  ELSE pc' = "remove" /\ scan' = s /\ UNCHANGED <<event, done>>

ScanCache ==
  /\ pc = "enforce"
  /\ GoOn([total |-> TotalOf(dir), todo |-> dir])
  /\ UNCHANGED <<disk, streams, limiter, running, now, next, home, failed,
                  limited, removed, syncs, bounds>>

\* A file that cannot be removed is counted as if it were.
RemoveOldest(f, ok) ==
  /\ pc = "remove" /\ f \in Oldest(Removable(scan.todo))
  /\ Outcome(ok)
  /\ dir' = IF ok THEN dir \ {f} ELSE dir
  /\ removed' = IF ok THEN removed \cup {f} ELSE removed
  /\ GoOn([total |-> IF scan.total > SizeOf(f) THEN scan.total - SizeOf(f)
                     ELSE 0,
           todo |-> scan.todo \ {f}])
  /\ UNCHANGED <<files, sums, ddir, medium, streams, limiter, running, now,
                 next, home, failed, limited, syncs, kills>>

---------------------------------------------------------------------------
\* The process dies, and with it what its streams held.
Kill ==
  /\ pc # "down" /\ kills < MaxKills
  /\ kills' = kills + 1
  /\ running' = FALSE
  /\ pc' = "down" /\ event' = 0 /\ scan' = NoScan
  /\ stream' = Closed /\ summary' = NoSummary
  /\ current_size' = 0 /\ needs_directory_sync' = FALSE
  /\ limiter' = [start |-> 0, count |-> 0]
  /\ syncs' = [t \in 0..MaxTime |-> 0]
  /\ UNCHANGED <<disk, part, now, next, home, done, failed, limited, removed,
                 faults>>

\* The clock.  The worker reads it once per event, in fsync_if_allowed: it
\* makes no difference that it stands still while an event is written.
Tick ==
  /\ pc = "head" /\ now < MaxTime
  /\ now' = now + 1
  /\ UNCHANGED <<disk, streams, limiter, running, pc, event, scan, history,
                 bounds>>

Next ==
  \/ \E ok, summary_ok \in BOOLEAN :
       start(ok, summary_ok) \/ Reopen(ok, summary_ok)
         \/ OpenNext(ok, summary_ok)
  \/ stop \/ CloseStreams \/ Pop
  \/ WriteLine \/ WriteFails
  \/ \E ok \in BOOLEAN : write_summary(ok)
  \/ NoSync \/ FlushFails \/ RateLimited \/ SyncDone
  \/ \E step \in {"open", "data", "directory"} : SyncFails(step)
  \/ NoRotation \/ CloseFull
  \/ ScanCache
  \/ \E f \in dir, ok \in BOOLEAN : RemoveOldest(f, ok)
  \/ Kill \/ Tick

Spec == Init /\ [][Next]_vars

---------------------------------------------------------------------------
Files == {"jsonl", "summary"} \X Parts

TypeOK ==
  /\ files \in [Parts -> Seq(Events)]
  /\ sums \in [Parts -> Nat]
  /\ dir \subseteq Files /\ ddir \subseteq Files
  /\ medium \subseteq Events
  /\ part \in 0..MaxParts
  /\ stream \in [part : {0, part}, bad : BOOLEAN, buf : Seq(Events)]
  /\ summary \in [part : 0..MaxParts, buf : 0..BufferLines]
  /\ current_size \in 0..RotateLines
  /\ needs_directory_sync \in BOOLEAN
  /\ limiter \in [start : 0..now, count : 0..MaxSyncs]
  /\ running \in BOOLEAN
  /\ pc \in {"down", "head", "open", "write", "summary", "sync", "rotate",
             "rotated", "enforce", "remove"}
  /\ event \in 0..MaxEvents
  /\ scan \in [total : Nat, todo : SUBSET Files]
  /\ now \in 0..MaxTime
  /\ next \in 1..(MaxEvents + 1)
  /\ home \in [Events -> 0..MaxParts]
  /\ done \subseteq Events /\ failed \subseteq Events
  /\ limited \subseteq Events
  /\ removed \subseteq Files
  /\ syncs \in [0..MaxTime -> Nat]
  /\ faults \in 0..MaxFaults /\ kills \in 0..MaxKills

FileOf(e) == <<"jsonl", home[e]>>

InFile(e) ==
  home[e] # 0 /\ e \in LinesOf(files[home[e]])

\* The Critical events the sink has finished with and not counted as failed.
Vouched == (done \cap CriticalEvents) \ failed

\* A Critical event is out of the process when write_event returns, rate
\* limited or not, unless a failure was counted for it or the cache limit
\* has removed its file since: killing the process does not lose it.
CriticalFlushed ==
  critical_fsync =>
    \A e \in Vouched :
      InFile(e) /\ (FileOf(e) \in dir \/ FileOf(e) \in removed)

\* A Critical event for which neither a failure nor the limit was counted is
\* on the medium, its line and the entry of its file, whatever syncs failed
\* and whatever files were rotated before.
CriticalDurable ==
  critical_fsync =>
    \A e \in Vouched \ limited :
      e \in medium /\ (FileOf(e) \in ddir \/ FileOf(e) \in removed)

\* The limiter counts in fixed minutes, so a burst around the end of one can
\* double the rate; but no stretch of a minute ever sees more than that.
SyncRate ==
  \A t \in 0..MaxTime :
    LET stretch == {u \in 0..MaxTime : t <= u /\ u < t + Minute}
    IN  MapThenSumSet(LAMBDA u : syncs[u], stretch) <= 2 * MaxSyncs

\* Rotation and the cache limit work on the file that has just been written:
\* the limit takes the older files, and never the newest event.
NewestKept ==
  \A e \in Events :
    InFile(e) /\ (\A d \in Events : d > e => home[d] = 0)
      => FileOf(e) \in dir
=============================================================================
