--------------------------- MODULE EventPipeline ---------------------------
(***************************************************************************)
(* Monitor (src/runtime/monitor.cpp) and EventDispatcherGroup              *)
(* (src/runtime/event_dispatcher.cpp): the threads an event passes through *)
(* and how they are started and stopped.                                   *)
(*                                                                         *)
(* Each collector thread pushes into its own source queue; one dispatcher  *)
(* per source queue copies every event into one queue per sink; each sink  *)
(* thread drains its queues.  A queue is the bounded FIFO that SpscQueue   *)
(* is shown to implement, without its reserve.  What a collector measures  *)
(* and what a sink does with an event are left to the other modules.       *)
(***************************************************************************)
EXTENDS Naturals, Sequences, FiniteSets

CONSTANTS
  Sources,        \* the source queues, in the order of event_queues_
  Sinks,          \* the event sinks, in the order of sinks_
  SourceCapacity, \* event_queue_capacity
  SinkCapacity,   \* the capacity of a sink's input queues
  StalledSinks,   \* sinks that may hang in their I/O for ever
  MaxSequence,    \* bound: events published
  MaxStarts       \* bound: starts of the dispatcher group that succeed

ASSUME OrderAssumption ==
  /\ Sources \in Seq(STRING) /\ Sources # <<>>
  /\ Sinks \in Seq(STRING)
\* Every sink is an object of its own, with a queue for each dispatcher.
ASSUME DistinctSinksAssumption ==
  \A i, j \in DOMAIN Sinks : Sinks[i] = Sinks[j] => i = j
ASSUME PipelineCapacityAssumption ==
  SourceCapacity \in Nat /\ SinkCapacity \in Nat
ASSUME PipelineBoundsAssumption == MaxSequence \in Nat /\ MaxStarts \in Nat

SourceSet == {Sources[i] : i \in DOMAIN Sources}

SinkSet == {Sinks[i] : i \in DOMAIN Sinks}

ASSUME StalledAssumption == StalledSinks \subseteq SinkSet

\* The source of the fast collector, which also carries the started event.
Fast == Sources[1]

VARIABLES
  running,      \* Monitor::running_
  ctl,          \* where the thread inside start or stop is
  cpc,          \* where each collector thread is
  stop_mutex,   \* the collector that holds stop_mutex_, or "free"
  drawn,        \* the sequence number a collector has drawn (0: none)
  next_sequence,
  srcq,         \* the source queues
  drunning,     \* EventDispatcher::running_
  dpc,          \* where each dispatcher thread is
  hand,         \* the event a dispatcher is copying, and the sinks to go
  sinkq,        \* the sinks' input queues, by source and sink
  srunning,     \* the sinks' running_
  spc,          \* where each sink thread is
  starts,       \* history: successful starts of the dispatcher group
  accepted,     \* history: events accepted by each source queue
  handled,      \* history: events handled by each sink, by source
  failed,       \* push_fail_count_ of each sink queue
  newest        \* history: the last event each sink handled, by source

collecting == <<cpc, stop_mutex, drawn>>
queues == <<srcq, sinkq, failed>>
dispatching == <<drunning, dpc, hand>>
sinking == <<srunning, spc, handled, newest>>
vars == <<running, ctl, collecting, next_sequence, queues, dispatching,
          sinking, starts, accepted>>

Pairs == SourceSet \X SinkSet

NoEvent == [event |-> 0, togo |-> <<>>]

Init ==
  /\ running = FALSE
  /\ ctl = "idle"
  /\ cpc = [c \in SourceSet |-> "exited"]
  /\ stop_mutex = "free"
  /\ drawn = [c \in SourceSet |-> 0]
  /\ next_sequence = 1
  /\ srcq = [c \in SourceSet |-> <<>>]
  /\ drunning = [d \in SourceSet |-> FALSE]
  /\ dpc = [d \in SourceSet |-> "exited"]
  /\ hand = [d \in SourceSet |-> NoEvent]
  /\ sinkq = [p \in Pairs |-> <<>>]
  /\ srunning = [s \in SinkSet |-> FALSE]
  /\ spc = [s \in SinkSet |-> "exited"]
  /\ starts = 0
  /\ accepted = [c \in SourceSet |-> 0]
  /\ handled = [p \in Pairs |-> 0]
  /\ failed = [p \in Pairs |-> 0]
  /\ newest = [p \in Pairs |-> 0]

---------------------------------------------------------------------------
(***************************************************************************)
(* Monitor::start and Monitor::stop, serialised by lifecycle_mutex_.       *)
(***************************************************************************)
StartTests == ctl = "idle" /\ ~running

\* EventDispatcherGroup::start, when its k-th sink fails to start: what has
\* been started is stopped again.
StartFails(k) ==
  /\ StartTests
  /\ srunning' = [s \in SinkSet |-> \E j \in 1..(k - 1) : Sinks[j] = s]
  /\ spc' = [s \in SinkSet |-> IF srunning'[s] THEN "loop" ELSE spc[s]]
  /\ ctl' = "dispatchers"
  /\ UNCHANGED <<running, collecting, next_sequence, queues, dispatching,
                 handled, newest, starts, accepted>>

\* EventDispatcherGroup::start: the sinks, then the dispatchers.
GroupStart ==
  /\ StartTests
  /\ starts < MaxStarts
  /\ starts' = starts + 1
  /\ srunning' = [s \in SinkSet |-> TRUE]
  /\ spc' = [s \in SinkSet |-> "loop"]
  /\ drunning' = [d \in SourceSet |-> TRUE]
  /\ dpc' = [d \in SourceSet |-> "loop"]
  /\ ctl' = "metrics"
  /\ UNCHANGED <<running, collecting, next_sequence, queues, hand, handled,
                 newest, accepted>>

\* The metrics server cannot listen: the dispatcher group is stopped again.
MetricsFail ==
  /\ ctl = "metrics"
  /\ ctl' = "dispatchers"
  /\ UNCHANGED <<running, collecting, next_sequence, queues, dispatching,
                 sinking, starts, accepted>>

\* publish_event: a number is drawn, and the event is pushed or dropped.
PushSource(c, event) ==
  IF Len(srcq[c]) < SourceCapacity
  THEN /\ srcq' = [srcq EXCEPT ![c] = Append(@, event)]
       /\ accepted' = [accepted EXCEPT ![c] = @ + 1]
  ELSE UNCHANGED <<srcq, accepted>>

\* Mutant: the collector threads already run when the started event is pushed.
PublishStartedLate ==
  /\ ctl = "metrics"
  /\ next_sequence <= MaxSequence
  /\ running' = TRUE
  /\ cpc' = [c \in SourceSet |-> "head"]
  /\ next_sequence' = next_sequence + 1
  /\ drawn' = [drawn EXCEPT ![Fast] = next_sequence]
  /\ ctl' = "started"
  /\ UNCHANGED <<stop_mutex, queues, dispatching, sinking, starts, accepted>>

\* Mutant: every start begins to number the events anew.
PublishStartedAnew ==
  /\ ctl = "metrics"
  /\ running' = TRUE
  /\ next_sequence' = 2
  /\ drawn' = [drawn EXCEPT ![Fast] = 1]
  /\ ctl' = "started"
  /\ UNCHANGED <<cpc, stop_mutex, queues, dispatching, sinking, starts,
                 accepted>>

\* running_ is set and publish_started_event draws its number.
PublishStarted ==
  /\ ctl = "metrics"
  /\ next_sequence <= MaxSequence
  /\ running' = TRUE
  /\ next_sequence' = next_sequence + 1
  /\ drawn' = [drawn EXCEPT ![Fast] = next_sequence]
  /\ ctl' = "started"
  /\ UNCHANGED <<cpc, stop_mutex, queues, dispatching, sinking, starts,
                 accepted>>

\* The started event is pushed and the collector threads are created.
Spawn ==
  /\ ctl = "started"
  /\ PushSource(Fast, drawn[Fast])
  /\ drawn' = [drawn EXCEPT ![Fast] = 0]
  /\ cpc' = [c \in SourceSet |-> "head"]
  /\ ctl' = "idle"
  /\ UNCHANGED <<running, stop_mutex, next_sequence, sinkq, failed,
                 dispatching, sinking, starts>>

stop ==
  /\ ctl = "idle" /\ running
  /\ running' = FALSE
  /\ ctl' = "notify"
  /\ UNCHANGED <<collecting, next_sequence, queues, dispatching, sinking,
                 starts, accepted>>

\* notify_all wakes the collectors that wait, and nobody else.
NotifyAll ==
  /\ ctl = "notify"
  /\ cpc' = [c \in SourceSet |->
               IF cpc[c] = "waiting" THEN "check" ELSE cpc[c]]
  /\ ctl' = "join"
  /\ UNCHANGED <<running, stop_mutex, drawn, next_sequence, queues,
                 dispatching, sinking, starts, accepted>>

\* Both collectors are joined, then the metrics server is stopped.
CollectorsJoined ==
  /\ ctl = "join"
  /\ \A c \in SourceSet : cpc[c] = "exited"
  /\ ctl' = "dispatchers"
  /\ UNCHANGED <<running, collecting, next_sequence, queues, dispatching,
                 sinking, starts, accepted>>

\* stop_components: one dispatcher after the other, then one sink after the
\* other, each told to stop and joined.
StopDispatcher(k) ==
  /\ ctl = "dispatchers"
  /\ drunning[Sources[k]]
  /\ \A j \in 1..(k - 1) : ~drunning[Sources[j]] /\ dpc[Sources[j]] = "exited"
  /\ drunning' = [drunning EXCEPT ![Sources[k]] = FALSE]
  /\ UNCHANGED <<running, ctl, collecting, next_sequence, queues, dpc, hand,
                 sinking, starts, accepted>>

DispatchersJoined ==
  /\ ctl = "dispatchers"
  /\ \A d \in SourceSet : ~drunning[d] /\ dpc[d] = "exited"
  /\ ctl' = "sinks"
  /\ UNCHANGED <<running, collecting, next_sequence, queues, dispatching,
                 sinking, starts, accepted>>

StopSink(k) ==
  /\ ctl = "sinks"
  /\ srunning[Sinks[k]]
  /\ \A j \in 1..(k - 1) : ~srunning[Sinks[j]] /\ spc[Sinks[j]] = "exited"
  /\ srunning' = [srunning EXCEPT ![Sinks[k]] = FALSE]
  /\ UNCHANGED <<running, ctl, collecting, next_sequence, queues, dispatching,
                 spc, handled, newest, starts, accepted>>

SinksJoined ==
  /\ ctl = "sinks"
  /\ \A s \in SinkSet : ~srunning[s] /\ spc[s] = "exited"
  /\ ctl' = "idle"
  /\ UNCHANGED <<running, collecting, next_sequence, queues, dispatching,
                 sinking, starts, accepted>>

---------------------------------------------------------------------------
(***************************************************************************)
(* fast_collect_loop and sched_collect_loop.                               *)
(***************************************************************************)
Collector(c, from, to) ==
  /\ cpc[c] = from
  /\ cpc' = [cpc EXCEPT ![c] = to]
  /\ UNCHANGED <<running, ctl, dispatching, sinking, sinkq, failed, starts>>

LoopHead(c) ==
  /\ Collector(c, "head", IF running THEN "collect" ELSE "exited")
  /\ UNCHANGED <<stop_mutex, drawn, next_sequence, srcq, accepted>>

DrawSequence(c) ==
  /\ next_sequence <= MaxSequence
  /\ Collector(c, "collect", "push")
  /\ drawn' = [drawn EXCEPT ![c] = next_sequence]
  /\ next_sequence' = next_sequence + 1
  /\ UNCHANGED <<stop_mutex, srcq, accepted>>

PushEvent(c) ==
  /\ Collector(c, "push", "collect")
  /\ PushSource(c, drawn[c])
  /\ drawn' = [drawn EXCEPT ![c] = 0]
  /\ UNCHANGED <<stop_mutex, next_sequence>>

WindowEnds(c) ==
  /\ Collector(c, "collect", "check")
  /\ UNCHANGED <<stop_mutex, drawn, next_sequence, srcq, accepted>>

\* wait_until evaluates its predicate with stop_mutex_ held, before it waits
\* and again whenever it was notified.
CheckPredicate(c) ==
  /\ stop_mutex = "free"
  /\ IF running
     THEN Collector(c, "check", "block") /\ stop_mutex' = c
     ELSE Collector(c, "check", "exited") /\ UNCHANGED stop_mutex
  /\ UNCHANGED <<drawn, next_sequence, srcq, accepted>>

\* The mutex is released and the collector starts to wait in one step.
Block(c) ==
  /\ Collector(c, "block", "waiting")
  /\ stop_mutex' = "free"
  /\ UNCHANGED <<drawn, next_sequence, srcq, accepted>>

\* Mutant: the wait has no deadline.
NoDeadline(c) == cpc[c] = "never" /\ UNCHANGED vars

\* The deadline passes; the predicate decides once more.
Deadline(c) ==
  /\ stop_mutex = "free"
  /\ Collector(c, "waiting", IF running THEN "head" ELSE "exited")
  /\ UNCHANGED <<stop_mutex, drawn, next_sequence, srcq, accepted>>

CollectorStep(c) ==
  \/ LoopHead(c) \/ DrawSequence(c) \/ PushEvent(c) \/ WindowEnds(c)
  \/ CheckPredicate(c) \/ Block(c) \/ Deadline(c)

(***************************************************************************)
(* EventDispatcher::run: an empty queue in the loop only makes it sleep.   *)
(***************************************************************************)
\* An event no sink is configured for is dropped.
Carrying(event) ==
  IF Sinks = <<>> THEN NoEvent ELSE [event |-> event, togo |-> Sinks]

DispatcherPop(d) ==
  /\ dpc[d] \in {"loop", "drain"} /\ hand[d] = NoEvent
  /\ dpc[d] = "loop" => drunning[d]
  /\ srcq[d] # <<>>
  /\ hand' = [hand EXCEPT ![d] = Carrying(Head(srcq[d]))]
  /\ srcq' = [srcq EXCEPT ![d] = Tail(@)]
  /\ UNCHANGED <<running, ctl, collecting, next_sequence, sinkq, failed,
                 drunning, dpc, sinking, starts, accepted>>

\* Mutant: the first full sink queue ends the dispatch of an event.
DispatchStopsAtFull(d) ==
  /\ hand[d] # NoEvent
  /\ LET s == Head(hand[d].togo)
         rest == Tail(hand[d].togo)
         full == Len(sinkq[<<d, s>>]) >= SinkCapacity
     IN  /\ IF full
            THEN /\ failed' = [failed EXCEPT ![<<d, s>>] = @ + 1]
                 /\ UNCHANGED sinkq
            ELSE /\ sinkq' = [sinkq EXCEPT ![<<d, s>>] =
                               Append(@, hand[d].event)]
                 /\ UNCHANGED failed
         /\ hand' = [hand EXCEPT ![d] =
                       IF full \/ rest = <<>> THEN NoEvent
                       ELSE [@ EXCEPT !.togo = rest]]
  /\ UNCHANGED <<running, ctl, collecting, next_sequence, srcq, drunning, dpc,
                 sinking, starts, accepted>>

\* Mutant: the dispatcher waits until the sink queue has room.
DispatchWaits(d) ==
  /\ hand[d] # NoEvent
  /\ LET s == Head(hand[d].togo)
         rest == Tail(hand[d].togo)
     IN  /\ Len(sinkq[<<d, s>>]) < SinkCapacity
         /\ sinkq' = [sinkq EXCEPT ![<<d, s>>] =
                               Append(@, hand[d].event)]
         /\ hand' = [hand EXCEPT ![d] = IF rest = <<>> THEN NoEvent
                                        ELSE [@ EXCEPT !.togo = rest]]
  /\ UNCHANGED <<running, ctl, collecting, next_sequence, srcq, failed,
                 drunning, dpc, sinking, starts, accepted>>

\* dispatch, one sink queue after the other; a full queue is counted.
Dispatch(d) ==
  /\ hand[d] # NoEvent
  /\ LET s == Head(hand[d].togo)
         rest == Tail(hand[d].togo)
     IN  /\ IF Len(sinkq[<<d, s>>]) < SinkCapacity
            THEN /\ sinkq' = [sinkq EXCEPT ![<<d, s>>] =
                               Append(@, hand[d].event)]
                 /\ UNCHANGED failed
            ELSE /\ failed' = [failed EXCEPT ![<<d, s>>] = @ + 1]
                 /\ UNCHANGED sinkq
         /\ hand' = [hand EXCEPT ![d] = IF rest = <<>> THEN NoEvent
                                        ELSE [@ EXCEPT !.togo = rest]]
  /\ UNCHANGED <<running, ctl, collecting, next_sequence, srcq, drunning, dpc,
                 sinking, starts, accepted>>

\* Out of the loop and into drain_source, or out of drain_source.
DispatcherLeaves(d) ==
  /\ hand[d] = NoEvent
  /\ \/ dpc[d] = "loop" /\ ~drunning[d] /\ dpc' = [dpc EXCEPT ![d] = "drain"]
     \/ dpc[d] = "drain" /\ srcq[d] = <<>>
          /\ dpc' = [dpc EXCEPT ![d] = "exited"]
  /\ UNCHANGED <<running, ctl, collecting, next_sequence, queues, drunning,
                 hand, sinking, starts, accepted>>

DispatcherStep(d) == DispatcherPop(d) \/ Dispatch(d) \/ DispatcherLeaves(d)

(***************************************************************************)
(* A sink's run: pop from one of the queues and handle the event.  Writing *)
(* or accepting it and counting an error are both handling it.             *)
(***************************************************************************)
SinkHandles(s, d) ==
  /\ spc[s] \in {"loop", "drain"}
  /\ spc[s] = "loop" => srunning[s]
  /\ sinkq[<<d, s>>] # <<>>
  /\ sinkq' = [sinkq EXCEPT ![<<d, s>>] = Tail(@)]
  /\ handled' = [handled EXCEPT ![<<d, s>>] = @ + 1]
  /\ newest' = [newest EXCEPT ![<<d, s>>] = Head(sinkq[<<d, s>>])]
  /\ UNCHANGED <<running, ctl, collecting, next_sequence, srcq, failed,
                 dispatching, srunning, spc, starts, accepted>>

\* Mutant: a stopped sink ends without draining its queues.
SinkLeavesUndrained(s) ==
  /\ spc[s] = "loop" /\ ~srunning[s]
  /\ spc' = [spc EXCEPT ![s] = "exited"]
  /\ UNCHANGED <<running, ctl, collecting, next_sequence, queues, dispatching,
                 srunning, handled, newest, starts, accepted>>

SinkLeaves(s) ==
  /\ \/ spc[s] = "loop" /\ ~srunning[s] /\ spc' = [spc EXCEPT ![s] = "drain"]
     \/ spc[s] = "drain" /\ (\A d \in SourceSet : sinkq[<<d, s>>] = <<>>)
          /\ spc' = [spc EXCEPT ![s] = "exited"]
  /\ UNCHANGED <<running, ctl, collecting, next_sequence, queues, dispatching,
                 srunning, handled, newest, starts, accepted>>

SinkStep(s) == SinkLeaves(s) \/ \E d \in SourceSet : SinkHandles(s, d)

---------------------------------------------------------------------------
Stopping ==
  \/ NotifyAll \/ CollectorsJoined \/ DispatchersJoined \/ SinksJoined
  \/ \E k \in DOMAIN Sources : StopDispatcher(k)
  \/ \E k \in DOMAIN Sinks : StopSink(k)

Lifecycle ==
  \/ \E k \in DOMAIN Sinks : StartFails(k)
  \/ GroupStart \/ MetricsFail \/ PublishStarted \/ Spawn
  \/ stop \/ Stopping

Next ==
  \/ Lifecycle
  \/ \E c \in SourceSet : CollectorStep(c) \/ DispatcherStep(c)
  \/ \E s \in SinkSet : SinkStep(s)

Spec == Init /\ [][Next]_vars

\* Every thread is scheduled again and again, and a deadline passes; only a
\* sink that hangs in its I/O takes no more steps.
FairSpec ==
  /\ Spec
  /\ WF_vars(Stopping \/ Spawn)
  /\ \A c \in SourceSet :
       WF_vars(CollectorStep(c)) /\ WF_vars(DispatcherStep(c))
  /\ \A s \in SinkSet \ StalledSinks : WF_vars(SinkStep(s))

---------------------------------------------------------------------------
TypeOK ==
  /\ running \in BOOLEAN
  /\ ctl \in {"idle", "metrics", "started", "notify", "join", "dispatchers",
              "sinks"}
  /\ cpc \in [SourceSet -> {"exited", "head", "collect", "push", "check",
                            "block", "waiting"}]
  /\ stop_mutex \in SourceSet \cup {"free"}
  /\ drawn \in [SourceSet -> 0..MaxSequence]
  /\ next_sequence \in 1..(MaxSequence + 1)
  /\ srcq \in [SourceSet -> Seq(1..MaxSequence)]
  /\ drunning \in [SourceSet -> BOOLEAN]
  /\ dpc \in [SourceSet -> {"exited", "loop", "drain"}]
  /\ hand \in [SourceSet -> [event : 0..MaxSequence, togo : Seq(SinkSet)]]
  /\ sinkq \in [Pairs -> Seq(1..MaxSequence)]
  /\ srunning \in [SinkSet -> BOOLEAN]
  /\ spc \in [SinkSet -> {"exited", "loop", "drain"}]
  /\ starts \in 0..MaxStarts
  /\ accepted \in [SourceSet -> Nat]
  /\ handled \in [Pairs -> Nat]
  /\ failed \in [Pairs -> Nat]
  /\ newest \in [Pairs -> 0..MaxSequence]

InHand(d, s) ==
  IF \E i \in DOMAIN hand[d].togo : hand[d].togo[i] = s THEN 1 ELSE 0

\* Every event a source queue accepted is, for every sink, in exactly one
\* place: still queued, in the dispatcher's hand, queued for the sink,
\* handled by it, or counted as a failed push.
Conservation ==
  \A d \in SourceSet, s \in SinkSet :
    accepted[d] = Len(srcq[d]) + InHand(d, s) + Len(sinkq[<<d, s>>])
                  + handled[<<d, s>>] + failed[<<d, s>>]

\* When stop has returned, no thread is left and no event is left behind in a
\* queue: an orderly stop loses nothing, and start may create new threads.
CleanStop ==
  ctl = "idle" /\ ~running =>
    /\ \A c \in SourceSet : /\ cpc[c] = "exited" /\ dpc[c] = "exited"
                            /\ srcq[c] = <<>> /\ hand[c] = NoEvent
    /\ \A s \in SinkSet : spc[s] = "exited"
    /\ \A p \in Pairs : sinkq[p] = <<>>

\* Each ring has one producer at a time, as SpscRingBuffer demands: start
\* pushes the started event before the fast collector exists.
SingleProducer == ctl = "started" => cpc[Fast] = "exited"

\* A sink handles the events of one source in the order of their sequence
\* numbers, across restarts too.
PerSourceOrder ==
  [][\A p \in Pairs : newest'[p] # newest[p] => newest'[p] > newest[p]]_vars

\* A sink that hangs does not keep the others from getting their events:
\* what a source queue accepted is, in the end, handled by or counted
\* against every sink that does not hang, and counted against one that does.
SinkIsolation ==
  \A d \in SourceSet, s \in SinkSet \ StalledSinks, n \in 1..MaxSequence :
    accepted[d] >= n ~> handled[<<d, s>>] + failed[<<d, s>>] >= n

\* stop returns, whatever the threads were doing when it was called, as long
\* as every sink comes back from its I/O.
StopReturns ==
  (\A s \in StalledSinks : WF_vars(SinkStep(s)))
    => (ctl = "notify" ~> ctl = "idle")

\* Once stop has called notify_all, no collector sleeps on until its
\* deadline.
PromptStop ==
  ctl \in {"join", "dispatchers", "sinks"}
    => \A c \in SourceSet : cpc[c] # "waiting"
=============================================================================
