------------------------ MODULE EventPipelineProofs ------------------------
(***************************************************************************)
(* Proofs about EventPipeline for any number of sources and sinks, any     *)
(* capacities and any number of events and starts.                         *)
(*                                                                         *)
(* PhaseInv says which threads run in which phase of start and stop, and   *)
(* EmptyInv that a thread that has left has left nothing behind.  With     *)
(* CarryInv, what a dispatcher may hold, Conservation is inductive; with   *)
(* OrderInv, which puts every queue of a source on one line of growing     *)
(* sequence numbers, so is the order of what the sinks handle.             *)
(***************************************************************************)
EXTENDS EventPipeline, SequenceTheorems, TLAPS

\* The group of dispatchers and sinks is up.
Up == running \/ ctl \in {"metrics", "notify", "join"}

PhaseInv ==
  /\ running => ctl \in {"idle", "started"}
  /\ ctl = "started" => running
  /\ \A c \in SourceSet :
       cpc[c] # "exited" => \/ running /\ ctl = "idle"
                            \/ ctl \in {"notify", "join"}
  /\ Up => \A d \in SourceSet : drunning[d]
  /\ \A d \in SourceSet :
       /\ drunning[d] => dpc[d] = "loop"
       /\ dpc[d] # "exited" => /\ Up \/ ctl = "dispatchers"
                               /\ \A s \in SinkSet : srunning[s]
  /\ \A s \in SinkSet :
       /\ srunning[s] => spc[s] = "loop"
       /\ spc[s] # "exited" => Up \/ ctl \in {"dispatchers", "sinks"}

EmptyInv ==
  /\ \A d \in SourceSet :
       dpc[d] = "exited" => srcq[d] = <<>> /\ hand[d] = NoEvent
  /\ \A d \in SourceSet, s \in SinkSet :
       spc[s] = "exited" => sinkq[<<d, s>>] = <<>>

Distinct(q) == \A i, j \in DOMAIN q : q[i] = q[j] => i = j

CarryInv ==
  \A d \in SourceSet :
    \/ hand[d] = NoEvent
    \/ /\ hand[d].event \in 1..MaxSequence
       /\ hand[d].togo # <<>> /\ Distinct(hand[d].togo)

Rising(q) == \A i, j \in DOMAIN q : i < j => q[i] < q[j]

\* What is on its way to the queues of a sink is in order,
SourceOrder(d) ==
  /\ Rising(srcq[d])
  /\ \A i \in DOMAIN srcq[d] :
       /\ hand[d].event < srcq[d][i]
       /\ srcq[d][i] < next_sequence
       /\ drawn[d] # 0 => srcq[d][i] < drawn[d]
  /\ hand[d].event < next_sequence /\ drawn[d] < next_sequence
  /\ drawn[d] # 0 => hand[d].event < drawn[d]

\* and newer than an event that has arrived there.
NewerThan(n, d, s) ==
  /\ n < next_sequence
  /\ drawn[d] # 0 => n < drawn[d]
  /\ \A i \in DOMAIN srcq[d] : n < srcq[d][i]
  /\ InHand(d, s) = 1 => n < hand[d].event

SinkOrder(d, s) ==
  /\ Rising(sinkq[<<d, s>>])
  /\ NewerThan(newest[<<d, s>>], d, s)
  /\ \A i \in DOMAIN sinkq[<<d, s>>] :
       /\ newest[<<d, s>>] < sinkq[<<d, s>>][i]
       /\ NewerThan(sinkq[<<d, s>>][i], d, s)

OrderInv ==
  /\ \A c \in SourceSet : cpc[c] = "push" => drawn[c] # 0
  /\ ctl = "started" => drawn[Fast] # 0
  /\ \A d \in SourceSet : SourceOrder(d)
  /\ \A d \in SourceSet, s \in SinkSet : SinkOrder(d, s)

IInv ==
  TypeOK /\ PhaseInv /\ EmptyInv /\ CarryInv /\ Conservation /\ OrderInv

---------------------------------------------------------------------------
\* Changing a function at one argument.
LEMMA Update ==
  ASSUME NEW S, NEW T, NEW f \in [S -> T], NEW x \in S, NEW v
  PROVE  /\ [f EXCEPT ![x] = v][x] = v
         /\ \A y \in S : y # x => [f EXCEPT ![x] = v][y] = f[y]
         /\ v \in T => [f EXCEPT ![x] = v] \in [S -> T]
OBVIOUS

(***************************************************************************)
(* The names of the sources and the sinks.                                 *)
(***************************************************************************)
\* Each position of a list names a member of its set, and the sinks are a
\* sequence of distinct members.
LEMMA Names ==
  /\ Fast \in SourceSet
  /\ \A k \in DOMAIN Sources : Sources[k] \in SourceSet
  /\ \A k \in DOMAIN Sinks : Sinks[k] \in SinkSet
  /\ Sinks \in Seq(SinkSet) /\ Distinct(Sinks)
  /\ "free" \in SourceSet \cup {"free"}
<1>1. 1 \in DOMAIN Sources
  BY OrderAssumption
<1>2. \A k \in DOMAIN Sinks : Sinks[k] \in SinkSet
  BY DEF SinkSet
<1>3. Sinks \in Seq(SinkSet)
  BY <1>2, OrderAssumption
<1> QED
  BY <1>1, <1>2, <1>3, DistinctSinksAssumption DEF Fast, SourceSet, Distinct

---------------------------------------------------------------------------
(***************************************************************************)
(* Types.                                                                  *)
(***************************************************************************)
\* At first every variable has its type.
LEMMA InitTypeOK == Init => TypeOK
<1> SUFFICES ASSUME Init PROVE TypeOK
  OBVIOUS
<1>1. next_sequence \in 1..(MaxSequence + 1) /\ starts \in 0..MaxStarts
  BY PipelineBoundsAssumption DEF Init
<1>2. /\ drawn \in [SourceSet -> 0..MaxSequence]
      /\ hand \in [SourceSet -> [event : 0..MaxSequence, togo : Seq(SinkSet)]]
      /\ newest \in [Pairs -> 0..MaxSequence]
  BY PipelineBoundsAssumption DEF Init, NoEvent
<1>3. /\ srcq \in [SourceSet -> Seq(1..MaxSequence)]
      /\ sinkq \in [Pairs -> Seq(1..MaxSequence)]
  BY DEF Init
<1> QED BY <1>1, <1>2, <1>3 DEF Init, TypeOK

\* Pushing into a source queue keeps its type.
LEMMA PushSourceType ==
  ASSUME TypeOK, NEW c \in SourceSet, NEW event \in 1..MaxSequence,
         PushSource(c, event)
  PROVE  /\ srcq' \in [SourceSet -> Seq(1..MaxSequence)]
         /\ accepted' \in [SourceSet -> Nat]
<1>1. srcq[c] \in Seq(1..MaxSequence) /\ accepted[c] \in Nat
  BY DEF TypeOK
<1>2. Append(srcq[c], event) \in Seq(1..MaxSequence)
  BY <1>1, AppendProperties
<1>3. CASE Len(srcq[c]) < SourceCapacity
  <2>1. /\ srcq' = [srcq EXCEPT ![c] = Append(srcq[c], event)]
        /\ accepted' = [accepted EXCEPT ![c] = accepted[c] + 1]
    BY <1>3 DEF PushSource
  <2> QED BY <1>1, <1>2, <2>1, Update DEF TypeOK
<1>4. CASE ~(Len(srcq[c]) < SourceCapacity)
  BY <1>4 DEF PushSource, TypeOK
<1> QED BY <1>3, <1>4

\* The thread inside start or stop keeps the types.
LEMMA LifecycleTypeOK == IInv /\ Lifecycle => TypeOK'
<1> SUFFICES ASSUME IInv, Lifecycle PROVE TypeOK'
  OBVIOUS
<1> USE PipelineBoundsAssumption, Names
    DEF IInv, TypeOK, collecting, queues, dispatching, sinking
<1>1. ASSUME NEW k \in DOMAIN Sinks, StartFails(k) PROVE TypeOK'
  BY <1>1 DEF StartFails, StartTests
<1>2. CASE GroupStart
  BY <1>2 DEF GroupStart, StartTests
<1>3. CASE MetricsFail
  BY <1>3 DEF MetricsFail
<1>4. CASE PublishStarted
  BY <1>4 DEF PublishStarted
<1>5. CASE Spawn
  <2>1. drawn[Fast] \in 1..MaxSequence
    BY <1>5 DEF Spawn, OrderInv
  <2>2. /\ srcq' \in [SourceSet -> Seq(1..MaxSequence)]
        /\ accepted' \in [SourceSet -> Nat]
    BY <1>5, <2>1, PushSourceType DEF Spawn
  <2>3. drawn' \in [SourceSet -> 0..MaxSequence]
    BY <1>5 DEF Spawn
  <2>4. cpc' \in [SourceSet -> {"exited", "head", "collect", "push", "check",
                                "block", "waiting"}]
    BY <1>5 DEF Spawn
  <2> QED BY <1>5, <2>2, <2>3, <2>4 DEF Spawn
<1>6. CASE stop
  BY <1>6 DEF stop
<1>7. CASE NotifyAll
  BY <1>7 DEF NotifyAll
<1>8. CASE CollectorsJoined \/ DispatchersJoined \/ SinksJoined
  BY <1>8 DEF CollectorsJoined, DispatchersJoined, SinksJoined
<1>9. ASSUME NEW k \in DOMAIN Sources, StopDispatcher(k) PROVE TypeOK'
  BY <1>9 DEF StopDispatcher
<1>10. ASSUME NEW k \in DOMAIN Sinks, StopSink(k) PROVE TypeOK'
  BY <1>10 DEF StopSink
<1> QED
  BY <1>1, <1>2, <1>3, <1>4, <1>5, <1>6, <1>7, <1>8, <1>9, <1>10
  DEF Lifecycle, Stopping

\* So do the collectors,
LEMMA CollectorTypeOK ==
  ASSUME IInv, NEW c \in SourceSet, CollectorStep(c)
  PROVE  TypeOK'
<1> USE PipelineBoundsAssumption
    DEF IInv, TypeOK, dispatching, sinking, Collector
<1>1. CASE LoopHead(c)
  BY <1>1 DEF LoopHead
<1>2. CASE DrawSequence(c)
  BY <1>2 DEF DrawSequence
<1>3. CASE PushEvent(c)
  <2>1. drawn[c] \in 1..MaxSequence
    BY <1>3 DEF PushEvent, OrderInv
  <2>2. /\ srcq' \in [SourceSet -> Seq(1..MaxSequence)]
        /\ accepted' \in [SourceSet -> Nat]
    BY <1>3, <2>1, PushSourceType DEF PushEvent
  <2>3. drawn' \in [SourceSet -> 0..MaxSequence]
    BY <1>3 DEF PushEvent
  <2>4. cpc' \in [SourceSet -> {"exited", "head", "collect", "push", "check",
                                "block", "waiting"}]
    BY <1>3 DEF PushEvent
  <2> QED BY <1>3, <2>2, <2>3, <2>4 DEF PushEvent
<1>4. CASE WindowEnds(c)
  BY <1>4 DEF WindowEnds
<1>5. CASE CheckPredicate(c)
  BY <1>5 DEF CheckPredicate
<1>6. CASE Block(c)
  BY <1>6 DEF Block
<1>7. CASE Deadline(c)
  BY <1>7 DEF Deadline
<1> QED
  BY <1>1, <1>2, <1>3, <1>4, <1>5, <1>6, <1>7 DEF CollectorStep

\* A dispatcher takes the next event for all sinks, or drops it if there are
\* none.
LEMMA CarryingEvent ==
  ASSUME NEW event \in 1..MaxSequence
  PROVE  /\ Carrying(event) \in [event : 0..MaxSequence,
                                 togo : Seq(SinkSet)]
         /\ \/ Carrying(event) = NoEvent
            \/ /\ Carrying(event).event = event
               /\ Carrying(event).togo = Sinks /\ Sinks # <<>>
<1>1. NoEvent \in [event : 0..MaxSequence, togo : Seq(SinkSet)]
  BY PipelineBoundsAssumption DEF NoEvent
<1> QED BY <1>1, Names, PipelineBoundsAssumption DEF Carrying

\* The event in the hand of a dispatcher and the sink it is for.
LEMMA HandFacts ==
  ASSUME IInv, NEW d \in SourceSet, hand[d] # NoEvent
  PROVE  /\ hand[d].event \in 1..MaxSequence
         /\ hand[d].togo \in Seq(SinkSet) /\ hand[d].togo # <<>>
         /\ Head(hand[d].togo) \in SinkSet
         /\ Tail(hand[d].togo) \in Seq(SinkSet)
         /\ Distinct(hand[d].togo)
         /\ <<d, Head(hand[d].togo)>> \in Pairs
<1>1. /\ hand[d].event \in 1..MaxSequence /\ hand[d].togo \in Seq(SinkSet)
      /\ hand[d].togo # <<>> /\ Distinct(hand[d].togo)
  BY DEF IInv, TypeOK, CarryInv
<1>2. /\ Head(hand[d].togo) \in SinkSet
      /\ Tail(hand[d].togo) \in Seq(SinkSet)
  BY <1>1, HeadTailProperties
<1> QED BY <1>1, <1>2 DEF Pairs

\* What dispatch does with the event: it is pushed or counted as failed.
DispatchTo(d, s, p) ==
  /\ p = <<d, s>> /\ s = Head(hand[d].togo)
  /\ \/ /\ sinkq' = [sinkq EXCEPT ![p] = Append(@, hand[d].event)]
        /\ failed' = failed
     \/ /\ failed' = [failed EXCEPT ![p] = @ + 1]
        /\ sinkq' = sinkq
  /\ hand' = [hand EXCEPT ![d] =
                IF Tail(hand[d].togo) = <<>> THEN NoEvent
                ELSE [event |-> hand[d].event, togo |-> Tail(hand[d].togo)]]
  /\ UNCHANGED <<running, ctl, cpc, stop_mutex, drawn, next_sequence, srcq,
                 drunning, dpc, srunning, spc, handled, newest, starts,
                 accepted>>

\* A dispatch is one of these.
LEMMA DispatchShape ==
  ASSUME IInv, NEW d \in SourceSet, Dispatch(d)
  PROVE  \E s \in SinkSet : DispatchTo(d, s, <<d, s>>)
<1> DEFINE s == Head(hand[d].togo)
           rest == Tail(hand[d].togo)
<1>1. hand[d] \in [event : 0..MaxSequence, togo : Seq(SinkSet)]
  BY DEF IInv, TypeOK
<1>2. [hand[d] EXCEPT !.togo = rest]
        = [event |-> hand[d].event, togo |-> rest]
  <2>1. PICK e \in 0..MaxSequence, q \in Seq(SinkSet) :
          hand[d] = [event |-> e, togo |-> q]
    BY <1>1
  <2> HIDE DEF rest
  <2> QED BY <2>1
<1>3. s \in SinkSet
  BY HandFacts DEF Dispatch
<1>4. DispatchTo(d, s, <<d, s>>)
  BY <1>1, <1>2 DEF Dispatch, DispatchTo, collecting, sinking
<1> QED BY <1>3, <1>4

\* the dispatchers
LEMMA DispatcherTypeOK ==
  ASSUME IInv, NEW d \in SourceSet, DispatcherStep(d)
  PROVE  TypeOK'
<1> USE DEF IInv, TypeOK, collecting, queues, sinking
<1>1. CASE DispatcherPop(d)
  <2>1. srcq[d] \in Seq(1..MaxSequence) /\ srcq[d] # <<>>
    BY <1>1 DEF DispatcherPop
  <2>2. Head(srcq[d]) \in 1..MaxSequence
        /\ Tail(srcq[d]) \in Seq(1..MaxSequence)
    BY <2>1, HeadTailProperties
  <2> QED BY <1>1, <2>2, CarryingEvent DEF DispatcherPop
<1>2. CASE Dispatch(d)
  <2>1. PICK s \in SinkSet : DispatchTo(d, s, <<d, s>>)
    BY <1>2, DispatchShape
  <2> DEFINE p == <<d, s>>
  <2>2. p \in Pairs /\ sinkq[p] \in Seq(1..MaxSequence)
        /\ failed[p] \in Nat
    BY DEF Pairs
  <2>3. /\ hand[d].event \in 1..MaxSequence
        /\ Tail(hand[d].togo) \in Seq(SinkSet)
    BY <1>2, HandFacts DEF Dispatch
  <2>4. /\ Append(sinkq[p], hand[d].event) \in Seq(1..MaxSequence)
        /\ failed[p] + 1 \in Nat
    BY <2>2, <2>3, AppendProperties
  <2>5. hand' \in [SourceSet -> [event : 0..MaxSequence,
                                 togo : Seq(SinkSet)]]
    BY <2>1, <2>3, PipelineBoundsAssumption DEF DispatchTo, NoEvent
  <2>6. [sinkq EXCEPT ![p] = Append(sinkq[p], hand[d].event)]
          \in [Pairs -> Seq(1..MaxSequence)]
    BY <2>2, <2>4, Update, Zenon
  <2>7. [failed EXCEPT ![p] = failed[p] + 1] \in [Pairs -> Nat]
    BY <2>2, <2>4, Update, Zenon
  <2>8. /\ sinkq' \in [Pairs -> Seq(1..MaxSequence)]
        /\ failed' \in [Pairs -> Nat]
    BY <2>1, <2>6, <2>7, Zenon DEF DispatchTo
  <2> QED BY <2>1, <2>5, <2>8 DEF DispatchTo
<1>3. CASE DispatcherLeaves(d)
  BY <1>3 DEF DispatcherLeaves
<1> QED BY <1>1, <1>2, <1>3 DEF DispatcherStep

\* and the sinks.
LEMMA SinkTypeOK ==
  ASSUME IInv, NEW s \in SinkSet, SinkStep(s)
  PROVE  TypeOK'
<1> USE DEF IInv, TypeOK, collecting, queues, dispatching
<1>1. ASSUME NEW d \in SourceSet, SinkHandles(s, d) PROVE TypeOK'
  <2> DEFINE p == <<d, s>>
  <2>1. p \in Pairs /\ sinkq[p] \in Seq(1..MaxSequence) /\ sinkq[p] # <<>>
        /\ handled[p] + 1 \in Nat
    BY <1>1 DEF SinkHandles, Pairs
  <2>2. Head(sinkq[p]) \in 1..MaxSequence
        /\ Tail(sinkq[p]) \in Seq(1..MaxSequence)
    BY <2>1, HeadTailProperties
  <2>3. sinkq' \in [Pairs -> Seq(1..MaxSequence)]
    BY <1>1, <2>1, <2>2, Update DEF SinkHandles
  <2>4. handled' \in [Pairs -> Nat]
    BY <1>1, <2>1, Update, Zenon DEF SinkHandles
  <2>5. newest' \in [Pairs -> 0..MaxSequence]
    BY <1>1, <2>1, <2>2, Update, PipelineBoundsAssumption DEF SinkHandles
  <2> QED
    BY <1>1, <2>3, <2>4, <2>5 DEF SinkHandles
<1>2. CASE SinkLeaves(s)
  BY <1>2 DEF SinkLeaves
<1> QED BY <1>1, <1>2 DEF SinkStep

---------------------------------------------------------------------------
(***************************************************************************)
(* Which threads run in which phase.                                       *)
(***************************************************************************)
\* The thread inside start or stop keeps PhaseInv.
LEMMA LifecyclePhase == IInv /\ Lifecycle => PhaseInv'
<1> SUFFICES ASSUME IInv, Lifecycle PROVE PhaseInv'
  OBVIOUS
<1> USE Names DEF IInv, TypeOK, PhaseInv, Up, collecting, dispatching, sinking
<1>1. ASSUME NEW k \in DOMAIN Sinks, StartFails(k) PROVE PhaseInv'
  BY <1>1 DEF StartFails, StartTests
<1>2. CASE GroupStart
  BY <1>2 DEF GroupStart, StartTests
<1>3. CASE MetricsFail
  BY <1>3 DEF MetricsFail
<1>4. CASE PublishStarted
  BY <1>4 DEF PublishStarted
<1>5. CASE Spawn
  BY <1>5 DEF Spawn
<1>6. CASE stop
  BY <1>6 DEF stop
<1>7. CASE NotifyAll
  BY <1>7 DEF NotifyAll
<1>8. CASE CollectorsJoined
  BY <1>8 DEF CollectorsJoined
<1>9. CASE DispatchersJoined
  BY <1>9 DEF DispatchersJoined
<1>10. CASE SinksJoined
  BY <1>10 DEF SinksJoined
<1>11. ASSUME NEW k \in DOMAIN Sources, StopDispatcher(k) PROVE PhaseInv'
  BY <1>11 DEF StopDispatcher
<1>12. ASSUME NEW k \in DOMAIN Sinks, StopSink(k) PROVE PhaseInv'
  BY <1>12 DEF StopSink
<1> QED
  BY <1>1, <1>2, <1>3, <1>4, <1>5, <1>6, <1>7, <1>8, <1>9, <1>10, <1>11,
     <1>12
  DEF Lifecycle, Stopping

\* So do the collectors and the dispatchers,
LEMMA SourcePhase ==
  ASSUME IInv, NEW c \in SourceSet, CollectorStep(c) \/ DispatcherStep(c)
  PROVE  PhaseInv'
<1> USE DEF IInv, TypeOK, PhaseInv, Up, collecting, dispatching, sinking,
            queues
<1>1. CASE CollectorStep(c)
  BY <1>1
  DEF CollectorStep, LoopHead, DrawSequence, PushEvent, WindowEnds,
      CheckPredicate, Block, Deadline, Collector
<1>2. CASE DispatcherPop(c)
  BY <1>2 DEF DispatcherPop
<1>3. CASE Dispatch(c)
  BY <1>3 DEF Dispatch
<1>4. CASE DispatcherLeaves(c)
  BY <1>4 DEF DispatcherLeaves
<1> QED BY <1>1, <1>2, <1>3, <1>4 DEF DispatcherStep

\* and the sinks.
LEMMA SinkPhase ==
  ASSUME IInv, NEW s \in SinkSet, SinkStep(s)
  PROVE  PhaseInv'
<1> USE DEF IInv, TypeOK, PhaseInv, Up, collecting, dispatching, queues
<1>1. ASSUME NEW d \in SourceSet, SinkHandles(s, d) PROVE PhaseInv'
  BY <1>1 DEF SinkHandles
<1>2. CASE SinkLeaves(s)
  BY <1>2 DEF SinkLeaves
<1> QED BY <1>1, <1>2 DEF SinkStep

---------------------------------------------------------------------------
(***************************************************************************)
(* The six ways in which a step moves the events.                          *)
(***************************************************************************)
data == <<srcq, sinkq, failed, hand, accepted, handled, newest, drawn,
          next_sequence>>

Draws(c) ==
  /\ next_sequence <= MaxSequence
  /\ drawn' = [drawn EXCEPT ![c] = next_sequence]
  /\ next_sequence' = next_sequence + 1
  /\ UNCHANGED <<srcq, sinkq, failed, hand, accepted, handled, newest>>

Pushes(c) ==
  /\ drawn[c] # 0 /\ dpc[c] = "loop"
  /\ PushSource(c, drawn[c])
  /\ drawn' = [drawn EXCEPT ![c] = 0]
  /\ UNCHANGED <<sinkq, failed, hand, handled, newest, next_sequence, dpc,
                 spc>>

Pops(d) ==
  /\ hand[d] = NoEvent /\ srcq[d] # <<>> /\ dpc[d] # "exited"
  /\ hand' = [hand EXCEPT ![d] = Carrying(Head(srcq[d]))]
  /\ srcq' = [srcq EXCEPT ![d] = Tail(@)]
  /\ UNCHANGED <<sinkq, failed, accepted, handled, newest, drawn,
                 next_sequence, dpc, spc>>

Sends(d) ==
  /\ hand[d] # NoEvent
  /\ \E s \in SinkSet : DispatchTo(d, s, <<d, s>>)

Receives(d, s) ==
  /\ sinkq[<<d, s>>] # <<>> /\ spc[s] # "exited"
  /\ sinkq' = [sinkq EXCEPT ![<<d, s>>] = Tail(@)]
  /\ handled' = [handled EXCEPT ![<<d, s>>] = @ + 1]
  /\ newest' = [newest EXCEPT ![<<d, s>>] = Head(sinkq[<<d, s>>])]
  /\ UNCHANGED <<srcq, failed, hand, accepted, drawn, next_sequence, dpc, spc>>

\* A step of the thread inside start or stop leaves the events alone, draws
\* a number for the started event or pushes that event.
LEMMA LifecycleMoves ==
  ASSUME IInv, Lifecycle
  PROVE  UNCHANGED data \/ Draws(Fast) \/ Pushes(Fast)
<1> USE DEF data, collecting, queues, dispatching, sinking
<1>1. CASE PublishStarted
  BY <1>1 DEF PublishStarted, Draws
<1>2. CASE Spawn
  <2>1. drawn[Fast] # 0
    BY <1>2 DEF Spawn, IInv, OrderInv
  <2>2. dpc[Fast] = "loop"
    BY <1>2, Names DEF Spawn, IInv, PhaseInv, Up
  <2> QED BY <1>2, <2>1, <2>2 DEF Spawn, Pushes
<1>3. CASE GroupStart
  BY <1>3 DEF GroupStart
<1>4. CASE MetricsFail \/ stop \/ Stopping
  BY <1>4
  DEF MetricsFail, stop, Stopping, NotifyAll, CollectorsJoined,
      DispatchersJoined, SinksJoined, StopDispatcher, StopSink
<1>5. CASE \E k \in DOMAIN Sinks : StartFails(k)
  BY <1>5 DEF StartFails
<1> QED BY <1>1, <1>2, <1>3, <1>4, <1>5 DEF Lifecycle

\* So does a collector,
LEMMA CollectorMoves ==
  ASSUME IInv, NEW c \in SourceSet, CollectorStep(c)
  PROVE  UNCHANGED data \/ Draws(c) \/ Pushes(c)
<1> USE DEF data, collecting, queues, dispatching, sinking, Collector
<1>1. CASE DrawSequence(c)
  BY <1>1 DEF DrawSequence, Draws
<1>2. CASE PushEvent(c)
  <2>1. drawn[c] # 0
    BY <1>2 DEF PushEvent, IInv, OrderInv
  <2>2. dpc[c] = "loop"
    BY <1>2 DEF PushEvent, IInv, PhaseInv, Up
  <2> QED BY <1>2, <2>1, <2>2 DEF PushEvent, Pushes
<1>3. CASE LoopHead(c) \/ WindowEnds(c) \/ Block(c) \/ Deadline(c)
  BY <1>3 DEF LoopHead, WindowEnds, Block, Deadline
<1>4. CASE CheckPredicate(c)
  BY <1>4 DEF CheckPredicate
<1> QED BY <1>1, <1>2, <1>3, <1>4 DEF CollectorStep

\* a dispatcher takes an event or passes it on,
LEMMA DispatcherMoves ==
  ASSUME IInv, NEW d \in SourceSet, DispatcherStep(d)
  PROVE  UNCHANGED data \/ Pops(d) \/ Sends(d)
<1> USE DEF data, collecting, queues, dispatching, sinking
<1>1. CASE DispatcherPop(d)
  BY <1>1 DEF DispatcherPop, Pops
<1>2. CASE Dispatch(d)
  BY <1>2, DispatchShape DEF Dispatch, Sends
<1>3. CASE DispatcherLeaves(d)
  BY <1>3 DEF DispatcherLeaves
<1> QED BY <1>1, <1>2, <1>3 DEF DispatcherStep

\* and a sink handles one.
LEMMA SinkMoves ==
  ASSUME NEW s \in SinkSet, SinkStep(s)
  PROVE  UNCHANGED data \/ \E d \in SourceSet : Receives(d, s)
<1> USE DEF data, collecting, queues, dispatching, sinking
<1>1. CASE SinkLeaves(s)
  BY <1>1 DEF SinkLeaves
<1>2. ASSUME NEW d \in SourceSet, SinkHandles(s, d) PROVE Receives(d, s)
  BY <1>2 DEF SinkHandles, Receives
<1> QED BY <1>1, <1>2 DEF SinkStep

\* So a step of the program moves the events in one of six ways.
LEMMA Moves ==
  ASSUME IInv, [Next]_vars
  PROVE  \/ UNCHANGED data
         \/ \E d \in SourceSet :
              \/ Draws(d) \/ Pushes(d) \/ Pops(d) \/ Sends(d)
              \/ \E s \in SinkSet : Receives(d, s)
<1>1. CASE Lifecycle
  BY <1>1, LifecycleMoves, Names
<1>2. ASSUME NEW c \in SourceSet, CollectorStep(c) \/ DispatcherStep(c)
      PROVE  UNCHANGED data \/ Draws(c) \/ Pushes(c) \/ Pops(c) \/ Sends(c)
  BY <1>2, CollectorMoves, DispatcherMoves
<1>3. ASSUME NEW s \in SinkSet, SinkStep(s)
      PROVE  UNCHANGED data \/ \E d \in SourceSet : Receives(d, s)
  BY <1>3, SinkMoves
<1>4. CASE UNCHANGED vars
  BY <1>4 DEF vars, data, collecting, queues, dispatching, sinking
<1> QED BY <1>1, <1>2, <1>3, <1>4 DEF Next

---------------------------------------------------------------------------
(***************************************************************************)
(* Queues and hands.                                                       *)
(***************************************************************************)
\* The tail of a queue is the queue moved up by one.
LEMMA TailIndex ==
  ASSUME NEW S, NEW q \in Seq(S), q # <<>>
  PROVE  /\ Head(q) = q[1] /\ 1 \in DOMAIN q
         /\ Len(q) \in Nat /\ Len(Tail(q)) = Len(q) - 1
         /\ \A i \in DOMAIN Tail(q) :
              i \in Nat /\ i + 1 \in DOMAIN q /\ 1 < i + 1
              /\ Tail(q)[i] = q[i + 1]
         /\ \A i \in DOMAIN q : i \in Nat
                /\ (i # 1 => i - 1 \in DOMAIN Tail(q)
                             /\ Tail(q)[i - 1] = q[i])
OBVIOUS

\* So the tail of a rising queue rises, from above its head.
LEMMA TailRises ==
  ASSUME NEW q \in Seq(Nat), q # <<>>, Rising(q)
  PROVE  Rising(Tail(q)) /\ \A i \in DOMAIN Tail(q) : Head(q) < Tail(q)[i]
<1>1. ASSUME NEW i \in DOMAIN Tail(q), NEW j \in DOMAIN Tail(q), i < j
      PROVE  Tail(q)[i] < Tail(q)[j]
  <2>1. i \in Nat /\ j \in Nat /\ i + 1 \in DOMAIN q /\ j + 1 \in DOMAIN q
        /\ Tail(q)[i] = q[i + 1] /\ Tail(q)[j] = q[j + 1]
    BY TailIndex
  <2>2. i + 1 < j + 1
    BY <1>1, <2>1
  <2> QED BY <2>1, <2>2 DEF Rising
<1>2. ASSUME NEW i \in DOMAIN Tail(q) PROVE Head(q) < Tail(q)[i]
  <2>1. /\ Head(q) = q[1] /\ 1 \in DOMAIN q /\ i + 1 \in DOMAIN q
        /\ 1 < i + 1 /\ Tail(q)[i] = q[i + 1]
    BY TailIndex
  <2> QED BY <2>1 DEF Rising
<1> QED BY <1>1, <1>2 DEF Rising

\* A queue that got an element holds what it held, and that element last.
LEMMA AppendIndex ==
  ASSUME NEW S, NEW q \in Seq(S), NEW e \in S
  PROVE  /\ Len(q) \in Nat /\ Len(Append(q, e)) = Len(q) + 1
         /\ \A i \in DOMAIN Append(q, e) :
              \/ i \in DOMAIN q /\ Append(q, e)[i] = q[i]
              \/ /\ i = Len(q) + 1 /\ Append(q, e)[i] = e
                 /\ \A j \in DOMAIN Append(q, e) : j <= i
OBVIOUS

\* So a rising queue that got a greater element rises.
LEMMA AppendRises ==
  ASSUME NEW q \in Seq(Nat), NEW e \in Nat, Rising(q),
         \A i \in DOMAIN q : q[i] < e
  PROVE  Rising(Append(q, e))
<1> DEFINE r == Append(q, e)
<1>1. \A i \in DOMAIN r :
        \/ i \in DOMAIN q /\ r[i] = q[i]
        \/ /\ i = Len(q) + 1 /\ r[i] = e
           /\ \A j \in DOMAIN r : j <= i
  BY AppendIndex
<1> SUFFICES ASSUME NEW i \in DOMAIN r, NEW j \in DOMAIN r, i < j
             PROVE  r[i] < r[j]
  BY DEF Rising
<1>2. i \in Nat /\ j \in Nat
  OBVIOUS
<1> HIDE DEF r
<1>3. i \in DOMAIN q /\ r[i] = q[i]
  BY <1>1, <1>2
<1> QED BY <1>1, <1>3 DEF Rising

\* A dispatcher that takes an event holds it for every sink.
LEMMA PopsHand ==
  ASSUME IInv, NEW d \in SourceSet, Pops(d)
  PROVE  /\ Head(srcq[d]) \in 1..MaxSequence
         /\ \A e \in SourceSet : e # d => hand'[e] = hand[e]
         /\ \/ hand'[d] = NoEvent
            \/ /\ hand'[d].event = Head(srcq[d])
               /\ hand'[d].togo # <<>> /\ Distinct(hand'[d].togo)
         /\ \A s \in SinkSet : InHand(d, s) = 0 /\ InHand(d, s)' = 1
<1>1. srcq[d] \in Seq(1..MaxSequence) /\ srcq[d] # <<>>
  BY DEF IInv, TypeOK, Pops
<1>2. Head(srcq[d]) \in 1..MaxSequence
  BY <1>1, HeadTailProperties
<1>3. /\ hand'[d] = Carrying(Head(srcq[d]))
      /\ \A e \in SourceSet : e # d => hand'[e] = hand[e]
  BY DEF IInv, TypeOK, Pops
<1>4. ASSUME NEW s \in SinkSet
      PROVE  InHand(d, s) = 0 /\ InHand(d, s)' = 1
  <2>1. InHand(d, s) = 0
    BY DEF Pops, InHand, NoEvent
  <2>2. PICK i \in DOMAIN Sinks : Sinks[i] = s
    BY DEF SinkSet
  <2>3. hand'[d].togo = Sinks
    BY <1>3, <2>2, Names DEF Carrying
  <2>4. InHand(d, s)' = 1
    BY <2>2, <2>3 DEF InHand
  <2> QED BY <2>1, <2>4
<1> QED BY <1>2, <1>3, <1>4, CarryingEvent, Names

\* A dispatcher that serves a sink then holds the event for the sinks after
\* it.
LEMMA SendsHand ==
  ASSUME IInv, NEW d \in SourceSet, NEW s \in SinkSet, hand[d] # NoEvent,
         DispatchTo(d, s, <<d, s>>)
  PROVE  /\ \A e \in SourceSet : e # d => hand'[e] = hand[e]
         /\ \/ hand'[d] = NoEvent
            \/ /\ hand'[d].event = hand[d].event
               /\ hand'[d].togo # <<>> /\ Distinct(hand'[d].togo)
         /\ InHand(d, s) = 1 /\ InHand(d, s)' = 0
         /\ \A t \in SinkSet : t # s => InHand(d, t)' = InHand(d, t)
<1> DEFINE q == hand[d].togo
<1>1. /\ q \in Seq(SinkSet) /\ q # <<>> /\ Distinct(q)
  BY HandFacts
<1>2. /\ \A e \in SourceSet : e # d => hand'[e] = hand[e]
      /\ hand'[d] = IF Tail(q) = <<>> THEN NoEvent
                     ELSE [event |-> hand[d].event, togo |-> Tail(q)]
  BY DEF IInv, TypeOK, DispatchTo
<1>3. hand'[d].togo = Tail(q)
  <2>1. CASE Tail(q) = <<>>
    BY <1>2, <2>1 DEF NoEvent
  <2>2. CASE Tail(q) # <<>>
    BY <1>2, <2>2
  <2> QED BY <2>1, <2>2
<1> HIDE DEF q
<1>4. Distinct(Tail(q))
  BY <1>1, TailIndex DEF Distinct
<1>5. s = q[1] /\ 1 \in DOMAIN q
  BY <1>1, TailIndex DEF DispatchTo, q
<1>6. ~ \E i \in DOMAIN Tail(q) : Tail(q)[i] = s
  <2> SUFFICES ASSUME NEW i \in DOMAIN Tail(q), Tail(q)[i] = s PROVE FALSE
    OBVIOUS
  <2>1. i + 1 \in DOMAIN q /\ i \in Nat /\ 1 < i + 1 /\ q[i + 1] = q[1]
    BY <1>1, <1>5, TailIndex
  <2> QED BY <1>1, <1>5, <2>1 DEF Distinct
<1>7. ASSUME NEW t \in SinkSet, t # s
      PROVE  (\E i \in DOMAIN q : q[i] = t)
               <=> (\E i \in DOMAIN Tail(q) : Tail(q)[i] = t)
  <2>1. ASSUME NEW i \in DOMAIN Tail(q), Tail(q)[i] = t
        PROVE  \E j \in DOMAIN q : q[j] = t
    BY <1>1, <2>1, TailIndex
  <2>2. ASSUME NEW i \in DOMAIN q, q[i] = t
        PROVE  \E j \in DOMAIN Tail(q) : Tail(q)[j] = t
    <3>1. i # 1
      BY <1>5, <1>7, <2>2
    <3>2. i - 1 \in DOMAIN Tail(q) /\ Tail(q)[i - 1] = q[i]
      BY <1>1, <3>1, TailIndex
    <3> QED BY <2>2, <3>2
  <2> QED BY <2>1, <2>2
<1>8. InHand(d, s) = 1 /\ InHand(d, s)' = 0
  BY <1>3, <1>5, <1>6 DEF InHand, q
<1>9. \A t \in SinkSet : t # s => InHand(d, t)' = InHand(d, t)
  BY <1>3, <1>7 DEF InHand, q
<1> QED BY <1>2, <1>4, <1>8, <1>9

---------------------------------------------------------------------------
(***************************************************************************)
(* What a thread that has left leaves behind.                              *)
(***************************************************************************)
Idle(d) == srcq[d] = <<>> /\ hand[d] = NoEvent

\* A dispatcher and a sink only leave when there is nothing left for them.
LEMMA Exits ==
  ASSUME IInv, [Next]_vars
  PROVE  /\ \A d \in SourceSet :
              dpc'[d] = "exited" => dpc[d] = "exited" \/ Idle(d)
         /\ \A s \in SinkSet :
              spc'[s] = "exited" =>
                \/ spc[s] = "exited"
                \/ \A d \in SourceSet : sinkq[<<d, s>>] = <<>>
<1> USE DEF IInv, TypeOK, collecting, queues, dispatching, sinking
<1>1. CASE Lifecycle
  BY <1>1
  DEF Lifecycle, StartFails, GroupStart, MetricsFail, PublishStarted, Spawn,
      stop, Stopping, NotifyAll, CollectorsJoined, DispatchersJoined,
      SinksJoined, StopDispatcher, StopSink
<1>2. ASSUME NEW c \in SourceSet, CollectorStep(c)
      PROVE  dpc' = dpc /\ spc' = spc
  BY <1>2
  DEF CollectorStep, LoopHead, DrawSequence, PushEvent, WindowEnds,
      CheckPredicate, Block, Deadline, Collector
<1>3. ASSUME NEW c \in SourceSet, DispatcherPop(c) \/ Dispatch(c)
      PROVE  dpc' = dpc /\ spc' = spc
  BY <1>3 DEF DispatcherPop, Dispatch
<1>4. ASSUME NEW c \in SourceSet, DispatcherLeaves(c)
      PROVE  /\ \A d \in SourceSet :
                  dpc'[d] = "exited" => dpc[d] = "exited" \/ Idle(d)
             /\ spc' = spc
  BY <1>4 DEF DispatcherLeaves, Idle
<1>5. ASSUME NEW s \in SinkSet, NEW d \in SourceSet, SinkHandles(s, d)
      PROVE  dpc' = dpc /\ spc' = spc
  BY <1>5 DEF SinkHandles
<1>6. ASSUME NEW s \in SinkSet, SinkLeaves(s)
      PROVE  /\ dpc' = dpc
             /\ \A t \in SinkSet :
                  spc'[t] = "exited" =>
                    \/ spc[t] = "exited"
                    \/ \A d \in SourceSet : sinkq[<<d, t>>] = <<>>
  BY <1>6 DEF SinkLeaves
<1>7. CASE UNCHANGED vars
  BY <1>7 DEF vars
<1> QED
  BY <1>1, <1>2, <1>3, <1>4, <1>5, <1>6, <1>7
  DEF Next, DispatcherStep, SinkStep

\* The state of the sinks while a dispatcher runs.
LEMMA SinksUp ==
  ASSUME IInv, NEW d \in SourceSet, NEW s \in SinkSet, dpc[d] # "exited"
  PROVE  spc[s] # "exited"
BY DEF IInv, PhaseInv

\* So a thread that has left keeps on finding its queues empty.
LEMMA EmptyStep ==
  ASSUME IInv, [Next]_vars
  PROVE  EmptyInv'
<1> USE DEF IInv, TypeOK, EmptyInv
<1>1. CASE UNCHANGED data
  BY <1>1, Exits DEF data, Idle
<1>2. ASSUME NEW c \in SourceSet, Draws(c) PROVE EmptyInv'
  BY <1>2, Exits DEF Draws, Idle
<1>3. ASSUME NEW c \in SourceSet, Pushes(c) PROVE EmptyInv'
  <2>1. dpc'[c] # "exited" /\ \A d \in SourceSet : d # c => srcq'[d] = srcq[d]
    BY <1>3 DEF Pushes, PushSource
  <2> QED BY <1>3, <2>1 DEF Pushes
<1>4. ASSUME NEW d \in SourceSet, Pops(d) PROVE EmptyInv'
  <2>1. /\ dpc'[d] # "exited"
        /\ \A e \in SourceSet :
             e # d => srcq'[e] = srcq[e] /\ hand'[e] = hand[e]
    BY <1>4 DEF Pops
  <2> QED BY <1>4, <2>1 DEF Pops
<1>5. ASSUME NEW d \in SourceSet, Sends(d) PROVE EmptyInv'
  <2>1. PICK s \in SinkSet : DispatchTo(d, s, <<d, s>>)
    BY <1>5 DEF Sends
  <2>2. dpc[d] # "exited" /\ spc[s] # "exited"
    BY <1>5, SinksUp DEF Sends
  <2>3. \A e \in SourceSet : e # d => hand'[e] = hand[e]
    BY <2>1 DEF DispatchTo
  <2>4. \A e \in SourceSet, t \in SinkSet :
          t # s => sinkq'[<<e, t>>] = sinkq[<<e, t>>]
    BY <2>1 DEF DispatchTo, Pairs
  <2>5. dpc' = dpc /\ spc' = spc /\ srcq' = srcq
    BY <2>1 DEF DispatchTo
  <2>6. ASSUME NEW e \in SourceSet, dpc'[e] = "exited"
        PROVE  srcq'[e] = <<>> /\ hand'[e] = NoEvent
    BY <2>2, <2>3, <2>5, <2>6
  <2>7. ASSUME NEW e \in SourceSet, NEW t \in SinkSet, spc'[t] = "exited"
        PROVE  sinkq'[<<e, t>>] = <<>>
    BY <2>2, <2>4, <2>5, <2>7
  <2> QED BY <2>6, <2>7
<1>6. ASSUME NEW d \in SourceSet, NEW s \in SinkSet, Receives(d, s)
      PROVE  EmptyInv'
  <2>1. \A e \in SourceSet, t \in SinkSet :
          t # s => sinkq'[<<e, t>>] = sinkq[<<e, t>>]
    BY <1>6 DEF Receives, Pairs
  <2> QED BY <1>6, <2>1 DEF Receives
<1> QED BY <1>1, <1>2, <1>3, <1>4, <1>5, <1>6, Moves

---------------------------------------------------------------------------
(***************************************************************************)
(* What a dispatcher holds, and the count of the events.                   *)
(***************************************************************************)
\* What a dispatcher holds is an event for at least one sink, and for no
\* sink twice.
LEMMA CarryStep ==
  ASSUME IInv, [Next]_vars
  PROVE  CarryInv'
<1>1. CASE UNCHANGED data
  BY <1>1 DEF data, IInv, CarryInv
<1>2. ASSUME NEW d \in SourceSet,
             Draws(d) \/ Pushes(d) \/ \E s \in SinkSet : Receives(d, s)
      PROVE  CarryInv'
  BY <1>2 DEF Draws, Pushes, Receives, IInv, CarryInv
<1>3. ASSUME NEW d \in SourceSet, Pops(d) PROVE CarryInv'
  BY <1>3, PopsHand DEF IInv, CarryInv
<1>4. ASSUME NEW d \in SourceSet, Sends(d) PROVE CarryInv'
  BY <1>4, SendsHand DEF Sends, IInv, CarryInv
<1> QED BY <1>1, <1>2, <1>3, <1>4, Moves

\* The events of one source for one sink: as many were accepted as are
\* queued, in hand, queued for the sink, handled and counted as failed.
Balance(a, q, i, k, h, f) == a = q + i + k + h + f

Counted(d, s) ==
  Balance(accepted[d], Len(srcq[d]), InHand(d, s), Len(sinkq[<<d, s>>]),
          handled[<<d, s>>], failed[<<d, s>>])

\* The moves of one event that keep the balance.
LEMMA BalanceKept ==
  ASSUME NEW a \in Nat, NEW q \in Nat, NEW i \in Nat, NEW k \in Nat,
         NEW h \in Nat, NEW f \in Nat, Balance(a, q, i, k, h, f)
  PROVE  /\ Balance(a + 1, q + 1, i, k, h, f)
         /\ i = 0 => Balance(a, q - 1, 1, k, h, f)
         /\ i = 1 => Balance(a, q, 0, k + 1, h, f)
         /\ i = 1 => Balance(a, q, 0, k, h, f + 1)
         /\ Balance(a, q, i, k - 1, h + 1, f)
BY DEF Balance

\* The types of what is counted.
LEMMA CountTypes ==
  ASSUME IInv, NEW d \in SourceSet, NEW s \in SinkSet
  PROVE  /\ srcq[d] \in Seq(1..MaxSequence) /\ Len(srcq[d]) \in Nat
         /\ sinkq[<<d, s>>] \in Seq(1..MaxSequence)
         /\ Len(sinkq[<<d, s>>]) \in Nat /\ InHand(d, s) \in Nat
         /\ handled[<<d, s>>] \in Nat /\ failed[<<d, s>>] \in Nat
         /\ accepted[d] \in Nat /\ <<d, s>> \in Pairs
<1>1. <<d, s>> \in Pairs
  BY DEF Pairs
<1> QED BY <1>1 DEF IInv, TypeOK, InHand

\* Each way of moving events keeps the count of every source and sink.
LEMMA CountStep ==
  ASSUME IInv, [Next]_vars, NEW d \in SourceSet, NEW s \in SinkSet
  PROVE  Counted(d, s)'
<1> DEFINE p == <<d, s>>
<1>0. Counted(d, s)
  BY DEF IInv, Conservation, Counted, Balance
<1>t. /\ srcq[d] \in Seq(1..MaxSequence) /\ sinkq[p] \in Seq(1..MaxSequence)
      /\ p \in Pairs
  BY CountTypes
<1>k. /\ Balance(accepted[d] + 1, Len(srcq[d]) + 1, InHand(d, s),
                 Len(sinkq[p]), handled[p], failed[p])
      /\ InHand(d, s) = 0 =>
           Balance(accepted[d], Len(srcq[d]) - 1, 1, Len(sinkq[p]),
                   handled[p], failed[p])
      /\ InHand(d, s) = 1 =>
           /\ Balance(accepted[d], Len(srcq[d]), 0, Len(sinkq[p]) + 1,
                      handled[p], failed[p])
           /\ Balance(accepted[d], Len(srcq[d]), 0, Len(sinkq[p]),
                      handled[p], failed[p] + 1)
      /\ Balance(accepted[d], Len(srcq[d]), InHand(d, s),
                 Len(sinkq[p]) - 1, handled[p] + 1, failed[p])
  BY <1>0, CountTypes, BalanceKept DEF Counted
<1>1. CASE UNCHANGED data
  BY <1>0, <1>1 DEF data, Counted, InHand
<1>2. ASSUME NEW c \in SourceSet, Draws(c) PROVE Counted(d, s)'
  BY <1>0, <1>2 DEF Draws, Counted, InHand
<1>3. ASSUME NEW c \in SourceSet, Pushes(c) PROVE Counted(d, s)'
  <2>1. /\ InHand(d, s)' = InHand(d, s)
        /\ UNCHANGED <<sinkq, handled, failed>>
    BY <1>3 DEF Pushes, InHand
  <2>2. drawn[c] \in 1..MaxSequence
    BY <1>3 DEF Pushes, IInv, TypeOK
  <2>3. \/ accepted'[d] = accepted[d] /\ srcq'[d] = srcq[d]
        \/ /\ accepted'[d] = accepted[d] + 1
           /\ srcq'[d] = Append(srcq[d], drawn[c])
    BY <1>3 DEF Pushes, PushSource, IInv, TypeOK
  <2>4. Len(Append(srcq[d], drawn[c])) = Len(srcq[d]) + 1
    BY <1>t, <2>2, AppendIndex
  <2> QED BY <1>0, <1>k, <2>1, <2>3, <2>4, Zenon DEF Counted
<1>4. ASSUME NEW e \in SourceSet, Pops(e) PROVE Counted(d, s)'
  <2>1. UNCHANGED <<sinkq, accepted, handled, failed>>
    BY <1>4 DEF Pops
  <2>2. CASE e = d
    <3>1. srcq'[d] = Tail(srcq[d]) /\ srcq[d] # <<>>
      BY <1>4, <2>2 DEF Pops, IInv, TypeOK
    <3>2. Len(srcq'[d]) = Len(srcq[d]) - 1
      BY <1>t, <3>1, TailIndex
    <3>3. InHand(d, s) = 0 /\ InHand(d, s)' = 1
      BY <1>4, <2>2, PopsHand
    <3> QED BY <1>k, <2>1, <3>2, <3>3 DEF Counted
  <2>3. CASE e # d
    <3>1. srcq'[d] = srcq[d] /\ hand'[d] = hand[d]
      BY <1>4, <2>3, PopsHand DEF Pops, IInv, TypeOK
    <3> QED BY <1>0, <2>1, <3>1 DEF Counted, InHand
  <2> QED BY <2>2, <2>3
<1>5. ASSUME NEW e \in SourceSet, NEW t \in SinkSet, hand[e] # NoEvent,
             DispatchTo(e, t, <<e, t>>)
      PROVE  Counted(d, s)'
  <2>1. UNCHANGED <<srcq, accepted, handled>>
    BY <1>5 DEF DispatchTo
  <2>2. CASE e = d /\ t = s
    <3>1. InHand(d, s) = 1 /\ InHand(d, s)' = 0
      BY <1>5, <2>2, SendsHand
    <3>2. \/ /\ sinkq'[p] = Append(sinkq[p], hand[d].event)
             /\ failed'[p] = failed[p]
          \/ sinkq'[p] = sinkq[p] /\ failed'[p] = failed[p] + 1
      <4>1. \/ /\ sinkq' = [sinkq EXCEPT ![p] =
                              Append(sinkq[p], hand[d].event)]
               /\ failed' = failed
            \/ /\ failed' = [failed EXCEPT ![p] = failed[p] + 1]
               /\ sinkq' = sinkq
        BY <1>5, <2>2 DEF DispatchTo
      <4>2. sinkq \in [Pairs -> Seq(1..MaxSequence)]
            /\ failed \in [Pairs -> Nat]
        BY DEF IInv, TypeOK
      <4> HIDE DEF p
      <4> QED BY <1>t, <4>1, <4>2, Zenon
    <3>3. Len(Append(sinkq[p], hand[d].event)) = Len(sinkq[p]) + 1
      BY <1>5, <1>t, <2>2, HandFacts, AppendIndex
    <3> QED BY <1>k, <2>1, <3>1, <3>2, <3>3, Zenon DEF Counted
  <2>3. CASE ~(e = d /\ t = s)
    <3>1. InHand(d, s)' = InHand(d, s)
      BY <1>5, <2>3, SendsHand DEF InHand
    <3>2. sinkq'[p] = sinkq[p] /\ failed'[p] = failed[p]
      BY <1>5, <2>3, <1>t DEF DispatchTo, IInv, TypeOK
    <3> QED BY <1>0, <2>1, <3>1, <3>2 DEF Counted
  <2> QED BY <2>2, <2>3
<1>6. ASSUME NEW e \in SourceSet, NEW t \in SinkSet, Receives(e, t)
      PROVE  Counted(d, s)'
  <2>1. /\ UNCHANGED <<srcq, accepted, failed>>
        /\ InHand(d, s)' = InHand(d, s)
    BY <1>6 DEF Receives, InHand
  <2>2. CASE e = d /\ t = s
    <3>1. sinkq[p] # <<>> /\ sinkq'[p] = Tail(sinkq[p])
          /\ handled'[p] = handled[p] + 1
      BY <1>6, <1>t, <2>2 DEF Receives, IInv, TypeOK
    <3>2. Len(sinkq'[p]) = Len(sinkq[p]) - 1
      BY <1>t, <3>1, TailIndex
    <3> QED BY <1>k, <2>1, <3>1, <3>2 DEF Counted
  <2>3. CASE ~(e = d /\ t = s)
    <3>1. sinkq'[p] = sinkq[p] /\ handled'[p] = handled[p]
      BY <1>6, <1>t, <2>3 DEF Receives, IInv, TypeOK
    <3> QED BY <1>0, <2>1, <3>1 DEF Counted
  <2> QED BY <2>2, <2>3
<1> QED BY <1>1, <1>2, <1>3, <1>4, <1>5, <1>6, Moves DEF Sends

---------------------------------------------------------------------------
(***************************************************************************)
(* The order of the events of one source.                                  *)
(***************************************************************************)
\* What has drawn a number holds it until it has pushed the event.
LEMMA DrawnStep ==
  ASSUME IInv, [Next]_vars
  PROVE  /\ \A c \in SourceSet : cpc'[c] = "push" => drawn'[c] # 0
         /\ ctl' = "started" => drawn'[Fast] # 0
<1> DEFINE D == /\ \A c \in SourceSet : cpc[c] = "push" => drawn[c] # 0
                /\ ctl = "started" => drawn[Fast] # 0
<1>0. D
  BY DEF IInv, OrderInv
<1> USE Names DEF IInv, TypeOK, collecting, dispatching, sinking
<1>1. CASE Lifecycle
  <2>1. CASE \E k \in DOMAIN Sinks : StartFails(k)
    BY <1>0, <2>1 DEF StartFails, StartTests
  <2>2. CASE GroupStart \/ MetricsFail \/ stop \/ Stopping
    BY <1>0, <2>2
    DEF GroupStart, MetricsFail, stop, Stopping, NotifyAll, CollectorsJoined,
        DispatchersJoined, SinksJoined, StopDispatcher, StopSink
  <2>3. CASE PublishStarted
    BY <1>0, <2>3 DEF PublishStarted
  <2>4. CASE Spawn
    BY <1>0, <2>4 DEF Spawn
  <2> QED BY <1>1, <2>1, <2>2, <2>3, <2>4 DEF Lifecycle
<1>2. ASSUME NEW c \in SourceSet, CollectorStep(c) PROVE D'
  <2>1. CASE DrawSequence(c)
    BY <1>0, <2>1 DEF DrawSequence, Collector
  <2>2. CASE PushEvent(c)
    <3>1. cpc[c] = "push" /\ ctl # "started" /\ ctl' = ctl
      BY <2>2 DEF PushEvent, Collector, PhaseInv
    <3> QED BY <1>0, <2>2, <3>1 DEF PushEvent, Collector
  <2>3. CASE \/ LoopHead(c) \/ WindowEnds(c) \/ CheckPredicate(c)
             \/ Block(c) \/ Deadline(c)
    BY <1>0, <2>3
    DEF LoopHead, WindowEnds, CheckPredicate, Block, Deadline, Collector
  <2> QED BY <1>2, <2>1, <2>2, <2>3 DEF CollectorStep
<1>3. ASSUME NEW c \in SourceSet, DispatcherStep(c) PROVE D'
  BY <1>0, <1>3 DEF DispatcherStep, DispatcherPop, Dispatch, DispatcherLeaves
<1>4. ASSUME NEW s \in SinkSet, SinkStep(s) PROVE D'
  BY <1>0, <1>4 DEF SinkStep, SinkHandles, SinkLeaves
<1>5. CASE UNCHANGED vars
  BY <1>0, <1>5 DEF vars
<1> QED BY <1>1, <1>2, <1>3, <1>4, <1>5 DEF Next

\* The sequence numbers are natural numbers.
LEMMA Numbers ==
  ASSUME IInv, NEW d \in SourceSet
  PROVE  /\ srcq[d] \in Seq(1..MaxSequence) /\ srcq[d] \in Seq(Nat)
         /\ drawn[d] \in Nat /\ hand[d].event \in Nat /\ next_sequence \in Nat
         /\ 0 < next_sequence
         /\ \A i \in DOMAIN srcq[d] :
              i \in Nat /\ srcq[d][i] \in Nat /\ 0 < srcq[d][i]
         /\ SourceOrder(d)
         /\ hand[d] = NoEvent => hand[d].event = 0
         /\ \A s \in SinkSet : hand[d] = NoEvent => InHand(d, s) = 0
<1>1. srcq[d] \in Seq(1..MaxSequence)
  BY DEF IInv, TypeOK
<1>2. srcq[d] \in Seq(Nat)
  BY <1>1, SeqMonotonic, PipelineBoundsAssumption
<1> QED
  BY <1>1, <1>2, PipelineBoundsAssumption
  DEF IInv, TypeOK, OrderInv, NoEvent, InHand

\* Each way of moving events keeps the source queue, the dispatcher's hand
\* and the number drawn in order.
LEMMA SourceOrderStep ==
  ASSUME IInv, [Next]_vars, NEW d \in SourceSet
  PROVE  SourceOrder(d)'
<1> DEFINE q == srcq[d]
<1>0. SourceOrder(d)
  BY Numbers
<1>1. CASE UNCHANGED data
  BY <1>0, <1>1 DEF data, SourceOrder, Rising
<1>2. ASSUME NEW c \in SourceSet, Draws(c) PROVE SourceOrder(d)'
  <2>1. /\ drawn'[d] = drawn[d] \/ drawn'[d] = next_sequence
        /\ next_sequence' = next_sequence + 1
        /\ UNCHANGED <<srcq, hand>>
    BY <1>2 DEF Draws, IInv, TypeOK
  <2> QED BY <1>0, <2>1, Numbers DEF SourceOrder
<1>3. ASSUME NEW c \in SourceSet, Pushes(c) PROVE SourceOrder(d)'
  <2>1. UNCHANGED <<hand, next_sequence>>
    BY <1>3 DEF Pushes
  <2>2. CASE c = d
    <3>1. /\ drawn'[d] = 0 /\ drawn[d] # 0
          /\ srcq'[d] = q \/ srcq'[d] = Append(q, drawn[d])
      BY <1>3, <2>2 DEF Pushes, PushSource, IInv, TypeOK
    <3>2. CASE srcq'[d] = q
      BY <1>0, <2>1, <3>1, <3>2, Numbers DEF SourceOrder
    <3>3. CASE srcq'[d] = Append(q, drawn[d])
      <4>1. drawn[d] \in 1..MaxSequence
        BY <3>1 DEF IInv, TypeOK
      <4>2. \A i \in DOMAIN srcq'[d] :
              \/ i \in DOMAIN q /\ srcq'[d][i] = q[i]
              \/ /\ i = Len(q) + 1 /\ srcq'[d][i] = drawn[d]
                 /\ \A j \in DOMAIN srcq'[d] : j <= i
        BY <3>3, <4>1, Numbers, AppendIndex
      <4>3. \A i \in DOMAIN q : q[i] < drawn[d]
        BY <1>0, <3>1 DEF SourceOrder
      <4>4. Rising(srcq'[d])
        BY <1>0, <3>3, <4>1, <4>3, Numbers, AppendRises DEF SourceOrder
      <4>5. \A i \in DOMAIN srcq'[d] : /\ hand[d].event < srcq'[d][i]
                                       /\ srcq'[d][i] < next_sequence
        BY <1>0, <3>1, <4>2 DEF SourceOrder
      <4> QED BY <1>0, <2>1, <3>1, <4>4, <4>5, Numbers DEF SourceOrder
    <3> QED BY <3>1, <3>2, <3>3
  <2>3. CASE c # d
    <3>1. drawn'[d] = drawn[d] /\ srcq'[d] = q
      BY <1>3, <2>3 DEF Pushes, PushSource, IInv, TypeOK
    <3> QED BY <1>0, <2>1, <3>1 DEF SourceOrder
  <2> QED BY <2>2, <2>3
<1>4. ASSUME NEW e \in SourceSet, Pops(e) PROVE SourceOrder(d)'
  <2>1. UNCHANGED <<drawn, next_sequence>>
    BY <1>4 DEF Pops
  <2>2. CASE e = d
    <3>1. srcq'[d] = Tail(q) /\ q # <<>>
      BY <1>4, <2>2 DEF Pops, IInv, TypeOK
    <3>2. /\ q[1] = Head(q) /\ 1 \in DOMAIN q
          /\ \A i \in DOMAIN Tail(q) :
               i \in Nat /\ i + 1 \in DOMAIN q /\ 1 < i + 1
               /\ Tail(q)[i] = q[i + 1]
      BY <3>1, Numbers, TailIndex
    <3>3. hand'[d].event = 0 \/ hand'[d].event = q[1]
      BY <1>4, <2>2, <3>2, PopsHand DEF NoEvent
    <3>4. Rising(Tail(q))
      BY <1>0, <3>1, Numbers, TailRises DEF SourceOrder
    <3>5. \A i \in DOMAIN Tail(q) :
            /\ hand'[d].event < Tail(q)[i] /\ Tail(q)[i] < next_sequence
            /\ drawn[d] # 0 => Tail(q)[i] < drawn[d]
      BY <1>0, <3>2, <3>3, Numbers DEF SourceOrder, Rising
    <3>6. /\ hand'[d].event < next_sequence
          /\ drawn[d] # 0 => hand'[d].event < drawn[d]
      BY <1>0, <3>2, <3>3, Numbers DEF SourceOrder
    <3> QED BY <1>0, <2>1, <3>1, <3>4, <3>5, <3>6 DEF SourceOrder
  <2>3. CASE e # d
    <3>1. srcq'[d] = q /\ hand'[d] = hand[d]
      BY <1>4, <2>3, PopsHand DEF Pops, IInv, TypeOK
    <3> QED BY <1>0, <2>1, <3>1 DEF SourceOrder
  <2> QED BY <2>2, <2>3
<1>5. ASSUME NEW e \in SourceSet, Sends(e) PROVE SourceOrder(d)'
  <2>1. PICK t \in SinkSet : DispatchTo(e, t, <<e, t>>)
    BY <1>5 DEF Sends
  <2>2. UNCHANGED <<srcq, drawn, next_sequence>>
    BY <2>1 DEF DispatchTo
  <2>3. hand'[d].event = 0 \/ hand'[d].event = hand[d].event
    BY <1>5, <2>1, SendsHand DEF Sends, NoEvent
  <2> QED BY <1>0, <2>2, <2>3, Numbers DEF SourceOrder
<1>6. ASSUME NEW e \in SourceSet, NEW t \in SinkSet, Receives(e, t)
      PROVE  SourceOrder(d)'
  BY <1>0, <1>6 DEF Receives, SourceOrder
<1> QED BY <1>1, <1>2, <1>3, <1>4, <1>5, <1>6, Moves

\* What is newer than an event stays newer, or passes to the sink as the
\* event the dispatcher held.
LEMMA NewerStep ==
  ASSUME IInv, [Next]_vars, NEW d \in SourceSet, NEW s \in SinkSet,
         NEW n \in Nat, NewerThan(n, d, s)
  PROVE  NewerThan(n, d, s)'
<1> DEFINE q == srcq[d]
<1>1. CASE UNCHANGED data
  BY <1>1 DEF data, NewerThan, InHand
<1>2. ASSUME NEW c \in SourceSet, Draws(c) PROVE NewerThan(n, d, s)'
  <2>1. /\ drawn'[d] = drawn[d] \/ drawn'[d] = next_sequence
        /\ next_sequence' = next_sequence + 1
        /\ UNCHANGED <<srcq, hand>>
    BY <1>2 DEF Draws, IInv, TypeOK
  <2> QED BY <2>1, Numbers DEF NewerThan, InHand
<1>3. ASSUME NEW c \in SourceSet, Pushes(c) PROVE NewerThan(n, d, s)'
  <2>1. UNCHANGED <<hand, next_sequence>>
    BY <1>3 DEF Pushes
  <2>2. CASE c = d
    <3>1. /\ drawn'[d] = 0 /\ drawn[d] # 0
          /\ srcq'[d] = q \/ srcq'[d] = Append(q, drawn[d])
      BY <1>3, <2>2 DEF Pushes, PushSource, IInv, TypeOK
    <3>2. drawn[d] \in 1..MaxSequence
      BY <3>1 DEF IInv, TypeOK
    <3>3. \A i \in DOMAIN Append(q, drawn[d]) :
            \/ i \in DOMAIN q /\ Append(q, drawn[d])[i] = q[i]
            \/ Append(q, drawn[d])[i] = drawn[d]
      BY <3>2, Numbers, AppendIndex
    <3>4. \A i \in DOMAIN srcq'[d] : n < srcq'[d][i]
      BY <3>1, <3>3 DEF NewerThan
    <3> QED BY <2>1, <3>1, <3>4 DEF NewerThan, InHand
  <2>3. CASE c # d
    <3>1. drawn'[d] = drawn[d] /\ srcq'[d] = q
      BY <1>3, <2>3 DEF Pushes, PushSource, IInv, TypeOK
    <3> QED BY <2>1, <3>1 DEF NewerThan, InHand
  <2> QED BY <2>2, <2>3
<1>4. ASSUME NEW e \in SourceSet, Pops(e) PROVE NewerThan(n, d, s)'
  <2>1. UNCHANGED <<drawn, next_sequence>>
    BY <1>4 DEF Pops
  <2>2. CASE e = d
    <3>1. srcq'[d] = Tail(q) /\ q # <<>>
      BY <1>4, <2>2 DEF Pops, IInv, TypeOK
    <3>2. /\ q[1] = Head(q) /\ 1 \in DOMAIN q
          /\ \A i \in DOMAIN Tail(q) :
               i + 1 \in DOMAIN q /\ Tail(q)[i] = q[i + 1]
      BY <3>1, Numbers, TailIndex
    <3>3. hand'[d].event = q[1]
      <4>1. hand'[d] # NoEvent
        BY <1>4, <2>2, PopsHand DEF InHand, NoEvent
      <4> QED BY <1>4, <2>2, <3>2, <4>1, PopsHand
    <3> QED BY <2>1, <3>1, <3>2, <3>3 DEF NewerThan
  <2>3. CASE e # d
    <3>1. srcq'[d] = q /\ hand'[d] = hand[d]
      BY <1>4, <2>3, PopsHand DEF Pops, IInv, TypeOK
    <3> QED BY <2>1, <3>1 DEF NewerThan, InHand
  <2> QED BY <2>2, <2>3
<1>5. ASSUME NEW e \in SourceSet, Sends(e) PROVE NewerThan(n, d, s)'
  <2>1. PICK t \in SinkSet : DispatchTo(e, t, <<e, t>>)
    BY <1>5 DEF Sends
  <2>2. UNCHANGED <<srcq, drawn, next_sequence>>
    BY <2>1 DEF DispatchTo
  <2>3. InHand(d, s)' = 1 =>
          InHand(d, s) = 1 /\ hand'[d].event = hand[d].event
    <3>1. CASE e = d
      <4>1. InHand(d, s)' = 1 => InHand(d, s) = 1 /\ hand'[d] # NoEvent
        <5>1. hand'[d] = NoEvent => InHand(d, s)' = 0
          BY DEF InHand, NoEvent
        <5>2. CASE t = s
          BY <1>5, <2>1, <3>1, <5>1, <5>2, SendsHand DEF Sends
        <5>3. CASE t # s
          BY <1>5, <2>1, <3>1, <5>1, <5>3, SendsHand DEF Sends
        <5> QED BY <5>2, <5>3
      <4> QED BY <1>5, <2>1, <3>1, <4>1, SendsHand DEF Sends
    <3>2. CASE e # d
      BY <1>5, <2>1, <3>2, SendsHand DEF Sends, InHand
    <3> QED BY <3>1, <3>2
  <2> QED BY <2>2, <2>3 DEF NewerThan
<1>6. ASSUME NEW e \in SourceSet, NEW t \in SinkSet, Receives(e, t)
      PROVE  NewerThan(n, d, s)'
  BY <1>6 DEF Receives, NewerThan, InHand
<1> QED BY <1>1, <1>2, <1>3, <1>4, <1>5, <1>6, Moves

\* The numbers in the queue of a sink are natural numbers, in order.
LEMMA SinkNumbers ==
  ASSUME IInv, NEW d \in SourceSet, NEW s \in SinkSet
  PROVE  /\ <<d, s>> \in Pairs
         /\ sinkq[<<d, s>>] \in Seq(1..MaxSequence)
         /\ sinkq[<<d, s>>] \in Seq(Nat)
         /\ \A i \in DOMAIN sinkq[<<d, s>>] : sinkq[<<d, s>>][i] \in Nat
         /\ newest[<<d, s>>] \in Nat
         /\ SinkOrder(d, s)
<1>1. <<d, s>> \in Pairs
  BY DEF Pairs
<1>2. sinkq[<<d, s>>] \in Seq(1..MaxSequence) /\ newest[<<d, s>>] \in Nat
  BY <1>1, PipelineBoundsAssumption DEF IInv, TypeOK
<1>3. sinkq[<<d, s>>] \in Seq(Nat)
  BY <1>2, SeqMonotonic, PipelineBoundsAssumption
<1> QED BY <1>1, <1>2, <1>3 DEF IInv, OrderInv


\* Each way of moving events keeps the queue of a sink in order, behind the
\* event the sink handled last.
LEMMA SinkOrderStep ==
  ASSUME IInv, [Next]_vars, NEW d \in SourceSet, NEW s \in SinkSet
  PROVE  SinkOrder(d, s)'
<1> DEFINE p == <<d, s>>
<1>1. PICK k \in Seq(Nat), m \in Nat : k = sinkq[p] /\ m = newest[p]
  BY SinkNumbers
<1>2. PICK kk, mm : kk = sinkq'[p] /\ mm = newest'[p]
  OBVIOUS
<1>3. /\ Rising(k) /\ NewerThan(m, d, s)
      /\ \A i \in DOMAIN k : m < k[i] /\ NewerThan(k[i], d, s)
  BY <1>1, SinkNumbers DEF SinkOrder
<1>4. /\ NewerThan(m, d, s)'
      /\ \A i \in DOMAIN k : k[i] \in Nat /\ NewerThan(k[i], d, s)'
  <2>1. ASSUME NEW n \in Nat, NewerThan(n, d, s) PROVE NewerThan(n, d, s)'
    BY <2>1, NewerStep
  <2>2. \A i \in DOMAIN k : k[i] \in Nat
    BY <1>1
  <2> QED BY <1>3, <2>1, <2>2
<1> SUFFICES /\ Rising(kk) /\ NewerThan(mm, d, s)'
             /\ \A i \in DOMAIN kk : mm < kk[i] /\ NewerThan(kk[i], d, s)'
  BY <1>2 DEF SinkOrder, NewerThan
<1>5. CASE kk = k /\ mm = m
  BY <1>3, <1>4, <1>5
<1>6. CASE Receives(d, s)
  <2>1. k # <<>> /\ kk = Tail(k) /\ mm = Head(k)
    BY <1>1, <1>2, <1>6, SinkNumbers DEF Receives, IInv, TypeOK
  <2>2. Rising(kk) /\ \A i \in DOMAIN kk : mm < kk[i]
    BY <1>3, <2>1, TailRises
  <2>3. /\ mm = k[1] /\ 1 \in DOMAIN k
        /\ \A i \in DOMAIN kk : i + 1 \in DOMAIN k /\ kk[i] = k[i + 1]
    BY <2>1, TailIndex
  <2> QED BY <1>4, <2>2, <2>3
<1>7. CASE hand[d] # NoEvent /\ DispatchTo(d, s, p)
  <2> DEFINE event == hand[d].event
  <2>1. event \in 1..MaxSequence /\ InHand(d, s) = 1 /\ InHand(d, s)' = 0
    BY <1>7, HandFacts, SendsHand
  <2>2. mm = m /\ (kk = k \/ kk = Append(k, event))
    BY <1>1, <1>2, <1>7, SinkNumbers DEF DispatchTo, IInv, TypeOK
  <2>3. CASE kk = Append(k, event)
    <3>1. m < event /\ \A i \in DOMAIN k : k[i] < event
      BY <1>3, <2>1 DEF NewerThan
    <3>2. \A i \in DOMAIN kk :
            (i \in DOMAIN k /\ kk[i] = k[i]) \/ kk[i] = event
      BY <2>1, <2>3, AppendIndex
    <3>3. Rising(kk)
      BY <1>3, <2>1, <2>3, <3>1, AppendRises
    <3>4. PICK n \in Nat : n = event
      BY <2>1
    <3>5. NewerThan(n, d, s)'
      <4>1. UNCHANGED <<srcq, drawn, next_sequence>>
        BY <1>7 DEF DispatchTo
      <4> QED BY <2>1, <3>4, <4>1, Numbers DEF NewerThan, SourceOrder
    <3> QED BY <1>3, <1>4, <2>2, <3>1, <3>2, <3>3, <3>4, <3>5
  <2> QED BY <1>3, <1>4, <2>2, <2>3
<1>8. ASSUME NEW e \in SourceSet, NEW t \in SinkSet, e # d \/ t # s,
             Receives(e, t) \/ DispatchTo(e, t, <<e, t>>)
      PROVE  kk = k /\ mm = m
  BY <1>1, <1>2, <1>8, SinkNumbers DEF Receives, DispatchTo, IInv, TypeOK
<1>9. ASSUME \/ UNCHANGED data
             \/ \E e \in SourceSet : Draws(e) \/ Pushes(e) \/ Pops(e)
      PROVE  kk = k /\ mm = m
  BY <1>1, <1>2, <1>9 DEF data, Draws, Pushes, Pops
<1> QED BY <1>5, <1>6, <1>7, <1>8, <1>9, Moves DEF Sends

---------------------------------------------------------------------------
(***************************************************************************)
(* The inductive invariant.                                                *)
(***************************************************************************)
\* The invariant holds at first.
LEMMA InitIInv == Init => IInv
<1> SUFFICES ASSUME Init PROVE IInv
  OBVIOUS
<1>1. PhaseInv /\ EmptyInv
  BY DEF Init, PhaseInv, EmptyInv, Up, Pairs
<1>2. CarryInv
  BY DEF Init, CarryInv
<1>3. \A d \in SourceSet, s \in SinkSet : InHand(d, s) = 0
  BY DEF Init, InHand, NoEvent
<1>4. Conservation
  BY <1>3 DEF Init, Conservation, Pairs
<1>5. OrderInv
  BY <1>3, Names
  DEF Init, OrderInv, SourceOrder, SinkOrder, NewerThan, Rising, NoEvent, Pairs
<1> QED BY <1>1, <1>2, <1>4, <1>5, InitTypeOK DEF IInv

\* A step of the program keeps every part of the invariant.
LEMMA StepIInv == IInv /\ [Next]_vars => IInv'
<1> SUFFICES ASSUME IInv, [Next]_vars PROVE IInv'
  OBVIOUS
<1>1. TypeOK'
  <2>1. CASE UNCHANGED vars
    BY <2>1 DEF IInv, vars, TypeOK, collecting, queues, dispatching, sinking
  <2> QED
    BY <2>1, LifecycleTypeOK, CollectorTypeOK, DispatcherTypeOK, SinkTypeOK
    DEF Next
<1>2. PhaseInv'
  <2>1. CASE UNCHANGED vars
    BY <2>1
    DEF IInv, vars, PhaseInv, Up, collecting, queues, dispatching, sinking
  <2> QED BY <2>1, LifecyclePhase, SourcePhase, SinkPhase DEF Next
<1>3. Conservation'
  BY CountStep DEF Conservation, Counted, Balance
<1>4. OrderInv'
  BY DrawnStep, SourceOrderStep, SinkOrderStep DEF OrderInv
<1> QED BY <1>1, <1>2, <1>3, <1>4, EmptyStep, CarryStep DEF IInv

\* IInv holds in every state the monitor reaches.
THEOREM InductiveInvariant == Spec => []IInv
BY InitIInv, StepIInv, PTL DEF Spec

\* Every variable of the pipeline keeps its type.
THEOREM TypeCorrect == Spec => []TypeOK
<1>1. IInv => TypeOK
  BY DEF IInv
<1> QED BY <1>1, InductiveInvariant, PTL

\* No event that a source queue accepted is lost or handled twice between
\* the queue and a sink: EventDispatcher::dispatch counts what it cannot push.
THEOREM ConservationCorrect == Spec => []Conservation
<1>1. IInv => Conservation
  BY DEF IInv
<1> QED BY <1>1, InductiveInvariant, PTL

\* When Monitor::stop has returned every thread is gone and every queue is
\* empty.
THEOREM CleanStopCorrect == Spec => []CleanStop
<1>1. IInv => CleanStop
  BY DEF IInv, TypeOK, PhaseInv, Up, EmptyInv, CleanStop, Pairs
<1> QED BY <1>1, InductiveInvariant, PTL

\* While Monitor::start pushes the started event, no collector pushes into
\* the same ring.
THEOREM SingleProducerCorrect == Spec => []SingleProducer
<1>1. IInv => SingleProducer
  BY Names DEF IInv, PhaseInv, SingleProducer
<1> QED BY <1>1, InductiveInvariant, PTL

\* A sink handles the events of a source by rising sequence number, across
\* restarts of the monitor.
THEOREM OrderCorrect == Spec => PerSourceOrder
<1> DEFINE Newer == \A p \in Pairs :
                      newest'[p] # newest[p] => newest'[p] > newest[p]
<1>1. ASSUME IInv, [Next]_vars PROVE Newer
  <2> SUFFICES ASSUME NEW d \in SourceSet, NEW s \in SinkSet,
                      newest'[<<d, s>>] # newest[<<d, s>>]
               PROVE  newest'[<<d, s>>] > newest[<<d, s>>]
    BY DEF Pairs
  <2>1. Receives(d, s)
    <3>1. ASSUME NEW e \in SourceSet, NEW t \in SinkSet, Receives(e, t)
          PROVE  e = d /\ t = s
      BY <1>1, <3>1, SinkNumbers DEF Receives, IInv, TypeOK
    <3> QED
      BY <1>1, <3>1, Moves DEF data, Draws, Pushes, Pops, Sends, DispatchTo
  <2>2. /\ sinkq[<<d, s>>] # <<>>
        /\ newest'[<<d, s>>] = Head(sinkq[<<d, s>>])
    BY <1>1, <2>1, SinkNumbers DEF Receives, IInv, TypeOK
  <2>3. Head(sinkq[<<d, s>>]) = sinkq[<<d, s>>][1]
        /\ 1 \in DOMAIN sinkq[<<d, s>>]
    BY <1>1, <2>2, SinkNumbers, TailIndex
  <2>4. newest[<<d, s>>] < sinkq[<<d, s>>][1]
    BY <1>1, <2>3, SinkNumbers DEF SinkOrder
  <2> QED BY <1>1, <2>2, <2>3, <2>4, SinkNumbers
<1>2. IInv /\ [Next]_vars => [Newer]_vars
  BY <1>1
<1> QED BY <1>2, InductiveInvariant, PTL DEF Spec, PerSourceOrder

=============================================================================
