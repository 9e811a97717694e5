----------------------------- MODULE SpscQueue -----------------------------
(***************************************************************************)
(* SpscRingBuffer (include/minilisysm/queue/spsc_ring_buffer.hpp): the     *)
(* lock-free ring every event crosses twice, once from a collector thread  *)
(* to its dispatcher and once from a dispatcher to a sink.                 *)
(*                                                                         *)
(* Three threads touch one ring: the producer (push), the consumer (pop)   *)
(* and an observer that only calls depth() (the metrics server and the     *)
(* queue-pressure rule, through Monitor::queue_snapshot).  Every atomic    *)
(* load or store of head_ or tail_ that another thread can run between is  *)
(* a step of its own, and so is every access to a slot.  The loads and     *)
(* stores are acquire/release pairs, so an interleaving of these steps is  *)
(* what the build can produce.                                             *)
(***************************************************************************)
EXTENDS Integers, Sequences

CONSTANTS
  Capacity,      \* the constructor's capacity (usable slots)
  Reserved,      \* critical_reserved_slots
  DropInfo,      \* drop_info_when_reserved
  DropWarning,   \* drop_warning_when_reserved
  OfferedLevels, \* the levels pushed in this instance
  MaxPushes,     \* bound: calls of push
  Moved          \* what a slot holds before its first write and after a move

ASSUME CapacityAssumption == Capacity \in Nat
ASSUME ReservedAssumption == Reserved \in Nat
ASSUME DropAssumption == DropInfo \in BOOLEAN /\ DropWarning \in BOOLEAN
ASSUME MaxPushesAssumption == MaxPushes \in Nat

EventLevel == {"Info", "Warning", "Critical", "Recovery"}

\* An event, told apart by the number of the push that offered it.
Items == [id : 1..MaxPushes, level : EventLevel]

ASSUME LevelsAssumption == OfferedLevels \subseteq EventLevel
ASSUME MovedAssumption == Moved \notin Items

VARIABLES
  buffer,        \* buffer_: the slots
  head,          \* head_
  tail,          \* tail_
  ppc,           \* where the producer is inside push
  offered,       \* the item the producer is pushing
  cpc,           \* where the consumer is inside pop
  taken,         \* the item the consumer has moved out of its slot
  stats,         \* QueueStats
  obs,           \* the observer inside depth(), and what it last returned
  pushes,        \* history: calls of push so far
  log,           \* history: the accepted items, in order
  out            \* history: the popped items, in order

ringVars == <<buffer, head, tail, ppc, offered, cpc, taken, stats, obs,
              pushes, log, out>>

---------------------------------------------------------------------------
\* capacity_, one slot more than asked for, so that full and empty differ.
Size == Capacity + 1

Slots == 0..Capacity

usable_capacity == Size - 1

increment(value) == (value + 1) % Size

\* Mutant: wraps at the usable capacity instead of the slot count.
DepthOffByOne(h, t) == IF h >= t THEN h - t ELSE Capacity - t + h

\* depth(), from the two loaded indices.
depth(h, t) == IF h >= t THEN h - t ELSE Size - t + h

\* The levels that should_reject_for_reserve holds back at all.
HeldBack(level) ==
  /\ level # "Critical"
  /\ Reserved # 0
  /\ level = "Warning" => DropWarning
  /\ level \in {"Info", "Recovery"} => DropInfo

\* The slots really kept free: never all of them.
reserved == IF Reserved >= Capacity THEN Capacity - 1 ELSE Reserved

\* Mutant: keeps one slot fewer than configured.
RejectOneLate(level, d) ==
  /\ HeldBack(level)
  /\ usable_capacity = 0 \/ usable_capacity - d < reserved

should_reject_for_reserve(level, d) ==
  /\ HeldBack(level)
  /\ usable_capacity = 0 \/ usable_capacity - d <= reserved

DropField(level) ==
  CASE level = "Critical" -> "dropped_critical"
    [] level = "Warning" -> "dropped_warning"
    [] OTHER -> "dropped_info"

record_drop(level, by_reserve) ==
  stats' = [stats EXCEPT
    !.push_fail = @ + 1,
    !.reserve_reject = IF by_reserve THEN @ + 1 ELSE @,
    ![DropField(level)] = @ + 1]

---------------------------------------------------------------------------
RingInit ==
  /\ buffer = [s \in Slots |-> Moved]
  /\ head = 0
  /\ tail = 0
  /\ ppc = "idle"
  /\ offered = Moved
  /\ cpc = "idle"
  /\ taken = Moved
  /\ stats = [push_fail |-> 0, dropped_info |-> 0, dropped_warning |-> 0,
              dropped_critical |-> 0, reserve_reject |-> 0,
              high_watermark |-> 0]
  /\ obs = [pc |-> "idle", head |-> 0, depth |-> 0,
            backlog |-> 0, start |-> 0, popped |-> 0]
  /\ pushes = 0
  /\ log = <<>>
  /\ out = <<>>

(***************************************************************************)
(* emplace, by the producer.                                               *)
(***************************************************************************)
\* Mutant: the full test compares head itself, so a full ring looks empty.
FullTestMissing(level) ==
  /\ ppc = "idle"
  /\ pushes < MaxPushes
  /\ pushes' = pushes + 1
  /\ offered' = [id |-> pushes + 1, level |-> level]
  /\ ppc' = "reserve"
  /\ UNCHANGED <<buffer, head, tail, cpc, taken, stats, obs, log, out>>

\* Mutant: the ring counts as full one item early.
FullOneEarly(level) ==
  /\ ppc = "idle"
  /\ pushes < MaxPushes
  /\ pushes' = pushes + 1
  /\ IF increment(increment(head)) = tail
     THEN /\ record_drop(level, FALSE)
          /\ UNCHANGED <<ppc, offered>>
     ELSE /\ offered' = [id |-> pushes + 1, level |-> level]
          /\ ppc' = "reserve"
          /\ UNCHANGED stats
  /\ UNCHANGED <<buffer, head, tail, cpc, taken, obs, log, out>>

\* Loads tail_ and returns false on a full ring.
Push(level) ==
  /\ ppc = "idle"
  /\ pushes < MaxPushes
  /\ pushes' = pushes + 1
  /\ IF increment(head) = tail
     THEN /\ record_drop(level, FALSE)
          /\ UNCHANGED <<ppc, offered>>
     ELSE /\ offered' = [id |-> pushes + 1, level |-> level]
          /\ ppc' = "reserve"
          /\ UNCHANGED stats
  /\ UNCHANGED <<buffer, head, tail, cpc, taken, obs, log, out>>

\* should_reject_for_reserve loads tail_ again, inside depth().
PushReserve ==
  /\ ppc = "reserve"
  /\ IF should_reject_for_reserve(offered.level, depth(head, tail))
     THEN /\ record_drop(offered.level, TRUE)
          /\ ppc' = "idle"
          /\ offered' = Moved
     ELSE /\ ppc' = "write"
          /\ UNCHANGED <<stats, offered>>
  /\ UNCHANGED <<buffer, head, tail, cpc, taken, obs, pushes, log, out>>

PushWrite ==
  /\ ppc = "write"
  /\ buffer' = [buffer EXCEPT ![head] = offered]
  /\ ppc' = "publish"
  /\ UNCHANGED <<head, tail, offered, cpc, taken, stats, obs, pushes, log, out>>

\* head_.store: the item becomes visible to the consumer.
PushPublish ==
  /\ ppc = "publish"
  /\ head' = increment(head)
  /\ log' = Append(log, offered)
  /\ offered' = Moved
  /\ ppc' = "watermark"
  /\ UNCHANGED <<buffer, tail, cpc, taken, stats, obs, pushes, out>>

PushWatermark ==
  /\ ppc = "watermark"
  /\ stats' = [stats EXCEPT !.high_watermark =
                 IF depth(head, tail) > @ THEN depth(head, tail) ELSE @]
  /\ ppc' = "idle"
  /\ UNCHANGED <<buffer, head, tail, offered, cpc, taken, obs, pushes, log,
                 out>>

(***************************************************************************)
(* pop, by the consumer.  On an empty ring it returns false and changes    *)
(* nothing.                                                                *)
(***************************************************************************)
Pop ==
  /\ cpc = "idle"
  /\ tail # head
  /\ cpc' = "move"
  /\ UNCHANGED <<buffer, head, tail, ppc, offered, taken, stats, obs,
                 pushes, log, out>>

PopMove ==
  /\ cpc = "move"
  /\ taken' = buffer[tail]
  /\ buffer' = [buffer EXCEPT ![tail] = Moved]
  /\ cpc' = "advance"
  /\ UNCHANGED <<head, tail, ppc, offered, stats, obs, pushes, log, out>>

\* tail_.store: the slot goes back to the producer.
PopAdvance ==
  /\ cpc = "advance"
  /\ tail' = increment(tail)
  /\ out' = Append(out, taken)
  /\ taken' = Moved
  /\ cpc' = "idle"
  /\ UNCHANGED <<buffer, head, ppc, offered, stats, obs, pushes, log>>

(***************************************************************************)
(* depth(), by a third thread: head_ is loaded first, then tail_.          *)
(***************************************************************************)
DepthLoadHead ==
  /\ obs.pc = "idle"
  /\ obs' = [obs EXCEPT !.pc = "tail", !.head = head,
                        !.backlog = Len(log) - Len(out), !.start = Len(out)]
  /\ UNCHANGED <<buffer, head, tail, ppc, offered, cpc, taken, stats,
                 pushes, log, out>>

DepthLoadTail ==
  /\ obs.pc = "tail"
  /\ obs' = [obs EXCEPT !.pc = "idle", !.depth = depth(obs.head, tail),
                        !.popped = Len(out) - obs.start]
  /\ UNCHANGED <<buffer, head, tail, ppc, offered, cpc, taken, stats,
                 pushes, log, out>>

---------------------------------------------------------------------------
Producer ==
  \/ \E level \in OfferedLevels : Push(level)
  \/ PushReserve \/ PushWrite \/ PushPublish \/ PushWatermark

Consumer == Pop \/ PopMove \/ PopAdvance

Observer == DepthLoadHead \/ DepthLoadTail

RingNext == Producer \/ Consumer \/ Observer

RingSpec == RingInit /\ [][RingNext]_ringVars

---------------------------------------------------------------------------
RingTypeOK ==
  /\ buffer \in [Slots -> Items \cup {Moved}]
  /\ head \in Slots
  /\ tail \in Slots
  /\ ppc \in {"idle", "reserve", "write", "publish", "watermark"}
  /\ offered \in Items \cup {Moved}
  /\ cpc \in {"idle", "move", "advance"}
  /\ taken \in Items \cup {Moved}
  /\ stats \in [push_fail : Nat, dropped_info : Nat, dropped_warning : Nat,
                dropped_critical : Nat, reserve_reject : Nat,
                high_watermark : Nat]
  /\ obs \in [pc : {"idle", "tail"}, head : Slots, depth : Nat,
              backlog : Nat, start : Nat, popped : Nat]
  /\ pushes \in 0..MaxPushes
  /\ log \in Seq(Items)
  /\ out \in Seq(Items)

\* pop returns the accepted events in the order they were pushed: none is
\* lost, repeated or read from a slot that was never written or already
\* moved from, whatever the producer does in between.
FifoDelivery ==
  /\ Len(out) <= Len(log)
  /\ \A i \in 1..Len(out) : out[i] = log[i]

\* While the producer writes a slot, the consumer is not moving an item out
\* of that slot: the two threads never touch the same element of buffer_.
NoSlotRace == ~(ppc = "write" /\ cpc = "move" /\ head = tail)

\* Every push that returned is either in the queue's history or counted in
\* push_fail, and every failure is counted under exactly one level.
PushAccounting ==
  /\ ppc \in {"idle", "watermark"} => pushes = Len(log) + stats.push_fail
  /\ ppc \in {"reserve", "write", "publish"}
       => pushes = Len(log) + stats.push_fail + 1
  /\ stats.push_fail = stats.dropped_info + stats.dropped_warning
                       + stats.dropped_critical
  /\ stats.reserve_reject <= stats.push_fail

\* When an event of a held-back level has been accepted, at least the
\* reserved number of slots is still free for Critical events, although the
\* reserve was tested several steps before the event became visible.
ReserveKept ==
  [][head' # head /\ HeldBack(offered.level)
       => usable_capacity - depth(head', tail') >= reserved]_ringVars

\* A depth() read by a third thread is exact for the moment of its second
\* load as far as the sampled items go, unless the consumer popped more
\* items during the call than were queued when it began; it never exceeds
\* the usable capacity.
ObservedDepth ==
  /\ obs.depth <= usable_capacity
  /\ obs.pc = "idle" /\ obs.popped <= obs.backlog
       => obs.depth = obs.backlog - obs.popped

---------------------------------------------------------------------------
\* The items accepted and not yet popped, oldest first.
Undelivered(l, o) == [i \in 1..(Len(l) - Len(o)) |-> l[Len(o) + i]]

Queued == Undelivered(log, out)

\* An item of a held-back level joins a queue of length n only when that
\* leaves the reserved slots free.
Admits(item, n) == HeldBack(item.level) => usable_capacity - n > reserved

Kinds == {"dropped_info", "dropped_warning", "dropped_critical"}

Kind(item) == DropField(item.level)

Dropped == [k \in Kinds |-> stats[k]]

Abs == INSTANCE BoundedFifo WITH
         Usable <- usable_capacity,
         queue <- Queued, delivered <- out, rejected <- Dropped

\* The ring implements the bounded FIFO: an item joins the queue when head_
\* is stored, leaves it when tail_ is stored, and an item is refused, and
\* counted under its own kind, only when the queue really had no room for it
\* at that moment.
ImplementsBoundedFifo == Abs!Spec
=============================================================================
