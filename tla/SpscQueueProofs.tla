-------------------------- MODULE SpscQueueProofs --------------------------
(***************************************************************************)
(* Proofs about the ring buffer, for every capacity, every reserve and     *)
(* every number of pushes.                                                 *)
(***************************************************************************)
EXTENDS SpscQueue, TLAPS

---------------------------------------------------------------------------
(***************************************************************************)
(* The indices.  At(t, k) is the slot k places after t.                    *)
(***************************************************************************)
At(t, k) == IF t + k > Capacity THEN t + k - Size ELSE t + k

\* increment steps to the next slot and wraps after the last one.
LEMMA IncrementValue ==
  ASSUME NEW v \in Slots
  PROVE  /\ increment(v) \in Slots
         /\ increment(v) = IF v = Capacity THEN 0 ELSE v + 1
<1>1. CASE v = Capacity
  <2>1. (v + 1) % Size = 0
    BY <1>1, CapacityAssumption DEF Size
  <2> QED BY <1>1, <2>1, CapacityAssumption DEF increment, Slots
<1>2. CASE v # Capacity
  <2>1. v + 1 \in 0..(Size - 1) /\ Size \in Nat \ {0}
    BY <1>2, CapacityAssumption DEF Slots, Size
  <2>2. \A n \in Nat \ {0} : \A x \in 0..(n - 1) : x % n = x
    OBVIOUS
  <2> QED BY <1>2, <2>1, <2>2, CapacityAssumption DEF increment, Slots, Size
<1> QED BY <1>1, <1>2

\* depth is the number of steps from tail to head: 0 on an empty ring, the
\* usable capacity on a full one.
LEMMA DepthRange ==
  ASSUME NEW h \in Slots, NEW t \in Slots
  PROVE  /\ depth(h, t) \in 0..Capacity
         /\ depth(h, t) = 0 <=> h = t
         /\ depth(h, t) = Capacity <=> increment(h) = t
         /\ At(t, depth(h, t)) = h
BY IncrementValue, CapacityAssumption DEF depth, Slots, Size, At

\* Storing head_ (PushPublish) makes the ring one item deeper.
LEMMA DepthAfterPublish ==
  ASSUME NEW h \in Slots, NEW t \in Slots, increment(h) # t
  PROVE  depth(increment(h), t) = depth(h, t) + 1
BY IncrementValue, CapacityAssumption DEF depth, Slots, Size

\* Storing tail_ (PopAdvance) makes it one item shallower.
LEMMA DepthAfterAdvance ==
  ASSUME NEW h \in Slots, NEW t \in Slots, h # t
  PROVE  depth(h, increment(t)) = depth(h, t) - 1
BY IncrementValue, CapacityAssumption DEF depth, Slots, Size

\* At walks the ring: one place after tail_ is the next index to pop.
LEMMA AtFacts ==
  ASSUME NEW t \in Slots, NEW k \in Slots
  PROVE  /\ At(t, k) \in Slots
         /\ At(t, 0) = t
         /\ k < Capacity => At(increment(t), k) = At(t, k + 1)
         /\ \A j \in Slots : At(t, j) = At(t, k) => j = k
BY IncrementValue, CapacityAssumption DEF At, Slots, Size

---------------------------------------------------------------------------
(***************************************************************************)
(* The inductive invariant.                                                *)
(***************************************************************************)
\* The indices count the items: what lies between tail_ and head_ is what
\* was accepted and not yet popped.
IndexInv ==
  /\ Len(out) <= Len(log)
  /\ Len(log) - Len(out) = depth(head, tail)

\* The slots between tail_ and head_ hold exactly those items, in order.  The
\* oldest is in the consumer's hands once it has been moved out.
SlotInv ==
  \A k \in Slots :
    k < depth(head, tail) /\ (k = 0 => cpc # "advance")
      => buffer[At(tail, k)] = log[Len(out) + k + 1]

\* Inside pop the ring is not empty, and the item taken is the oldest one.
ConsumerInv ==
  /\ cpc # "idle" => head # tail
  /\ cpc = "advance" => taken = log[Len(out) + 1]

\* Past the full test there is a free slot, and past the reserve test the
\* reserve still holds: the consumer can only make more room.
ProducerInv ==
  /\ ppc \in {"reserve", "write", "publish"}
       => offered \in Items /\ increment(head) # tail
  /\ ppc \in {"write", "publish"}
       => ~should_reject_for_reserve(offered.level, depth(head, tail))
  /\ ppc = "publish" => buffer[head] = offered

\* The head the observer sampled stays at the distance the samples promise
\* until the consumer has popped all it saw.
ObserverInv ==
  /\ obs.depth <= usable_capacity
  /\ obs.start <= Len(out)
  /\ obs.pc = "tail" /\ Len(out) - obs.start <= obs.backlog
       => depth(obs.head, tail) = obs.backlog - (Len(out) - obs.start)

IInv ==
  /\ RingTypeOK
  /\ IndexInv
  /\ SlotInv
  /\ ConsumerInv
  /\ ProducerInv
  /\ ObserverInv
  /\ FifoDelivery
  /\ PushAccounting
  /\ ObservedDepth

---------------------------------------------------------------------------
(***************************************************************************)
(* The statistics.                                                         *)
(***************************************************************************)
QueueStats ==
  [push_fail : Nat, dropped_info : Nat, dropped_warning : Nat,
   dropped_critical : Nat, reserve_reject : Nat, high_watermark : Nat]

\* record_drop counts the failed push once in push_fail and once under a
\* level, and at most once as a rejection by the reserve.
LEMMA RecordDrop ==
  ASSUME stats \in QueueStats, NEW level \in EventLevel,
         NEW by_reserve \in BOOLEAN, record_drop(level, by_reserve)
  PROVE  /\ stats' \in QueueStats
         /\ stats'.push_fail = stats.push_fail + 1
         /\ stats'.dropped_info + stats'.dropped_warning
              + stats'.dropped_critical
            = stats.dropped_info + stats.dropped_warning
              + stats.dropped_critical + 1
         /\ stats'.reserve_reject <= stats.reserve_reject + 1
         /\ Dropped' = [Dropped EXCEPT ![DropField(level)] = @ + 1]
<1> DEFINE n == IF by_reserve THEN 1 ELSE 0
<1>0. n \in {0, 1} /\ (IF by_reserve THEN stats.reserve_reject + 1
                       ELSE stats.reserve_reject) = stats.reserve_reject + n
  BY DEF QueueStats
<1> HIDE DEF n
<1>1. CASE level = "Critical"
  <2>1. stats' = [stats EXCEPT !.push_fail = @ + 1, !.reserve_reject = @ + n,
                               !.dropped_critical = @ + 1]
    BY <1>1, <1>0 DEF record_drop, DropField, QueueStats
  <2>2. stats' = [push_fail |-> stats.push_fail + 1,
                   dropped_info |-> stats.dropped_info,
                   dropped_warning |-> stats.dropped_warning,
                   dropped_critical |-> stats.dropped_critical + 1,
                   reserve_reject |-> stats.reserve_reject + n,
                   high_watermark |-> stats.high_watermark]
    BY <2>1 DEF QueueStats
  <2>3. Dropped' = [Dropped EXCEPT !["dropped_critical"] = @ + 1]
    <3>1. /\ stats'["dropped_critical"] = stats["dropped_critical"] + 1
          /\ stats'["dropped_warning"] = stats["dropped_warning"]
          /\ stats'["dropped_info"] = stats["dropped_info"]
      BY <2>2
    <3> QED BY <3>1 DEF Dropped, Kinds
  <2>4. DropField(level) = "dropped_critical"
    BY <1>1 DEF DropField
  <2> QED BY <1>0, <2>2, <2>3, <2>4 DEF QueueStats
<1>2. CASE level = "Warning"
  <2>1. stats' = [stats EXCEPT !.push_fail = @ + 1, !.reserve_reject = @ + n,
                               !.dropped_warning = @ + 1]
    BY <1>2, <1>0 DEF record_drop, DropField, QueueStats
  <2>2. stats' = [push_fail |-> stats.push_fail + 1,
                   dropped_info |-> stats.dropped_info,
                   dropped_warning |-> stats.dropped_warning + 1,
                   dropped_critical |-> stats.dropped_critical,
                   reserve_reject |-> stats.reserve_reject + n,
                   high_watermark |-> stats.high_watermark]
    BY <2>1 DEF QueueStats
  <2>3. Dropped' = [Dropped EXCEPT !["dropped_warning"] = @ + 1]
    <3>1. /\ stats'["dropped_warning"] = stats["dropped_warning"] + 1
          /\ stats'["dropped_critical"] = stats["dropped_critical"]
          /\ stats'["dropped_info"] = stats["dropped_info"]
      BY <2>2
    <3> QED BY <3>1 DEF Dropped, Kinds
  <2>4. DropField(level) = "dropped_warning"
    BY <1>2 DEF DropField
  <2> QED BY <1>0, <2>2, <2>3, <2>4 DEF QueueStats
<1>3. CASE level \in {"Info", "Recovery"}
  <2>1. stats' = [stats EXCEPT !.push_fail = @ + 1, !.reserve_reject = @ + n,
                               !.dropped_info = @ + 1]
    BY <1>3, <1>0 DEF record_drop, DropField, QueueStats
  <2>2. stats' = [push_fail |-> stats.push_fail + 1,
                   dropped_info |-> stats.dropped_info + 1,
                   dropped_warning |-> stats.dropped_warning,
                   dropped_critical |-> stats.dropped_critical,
                   reserve_reject |-> stats.reserve_reject + n,
                   high_watermark |-> stats.high_watermark]
    BY <2>1 DEF QueueStats
  <2>3. Dropped' = [Dropped EXCEPT !["dropped_info"] = @ + 1]
    <3>1. /\ stats'["dropped_info"] = stats["dropped_info"] + 1
          /\ stats'["dropped_critical"] = stats["dropped_critical"]
          /\ stats'["dropped_warning"] = stats["dropped_warning"]
      BY <2>2
    <3> QED BY <3>1 DEF Dropped, Kinds
  <2>4. DropField(level) = "dropped_info"
    BY <1>3 DEF DropField
  <2> QED BY <1>0, <2>2, <2>3, <2>4 DEF QueueStats
<1> QED BY <1>1, <1>2, <1>3 DEF EventLevel

\* A push that ends in record_drop keeps the accounts balanced.
LEMMA DropAccounting ==
  ASSUME RingTypeOK, PushAccounting, NEW level \in EventLevel,
         NEW by_reserve \in BOOLEAN, record_drop(level, by_reserve),
         pushes' = Len(log) + stats.push_fail + 1, log' = log, ppc' = "idle"
  PROVE  stats' \in QueueStats /\ PushAccounting'
<1>1. stats \in QueueStats /\ Len(log) \in Nat
  BY DEF RingTypeOK, QueueStats
<1>2. /\ stats' \in QueueStats
      /\ stats'.push_fail = stats.push_fail + 1
      /\ stats'.dropped_info + stats'.dropped_warning
            + stats'.dropped_critical
          = stats.dropped_info + stats.dropped_warning
            + stats.dropped_critical + 1
      /\ stats'.reserve_reject <= stats.reserve_reject + 1
  BY <1>1, RecordDrop
<1>3. stats'.push_fail = stats'.dropped_info + stats'.dropped_warning
                         + stats'.dropped_critical
  <2>1. stats.push_fail = stats.dropped_info + stats.dropped_warning
                          + stats.dropped_critical
    BY DEF PushAccounting
  <2> QED BY <1>2, <2>1
<1>4. /\ stats.push_fail \in Nat /\ stats'.push_fail \in Nat
      /\ stats.reserve_reject \in Nat /\ stats'.reserve_reject \in Nat
  BY <1>1, <1>2 DEF QueueStats
<1>5. stats'.reserve_reject <= stats'.push_fail
  <2>1. stats.reserve_reject <= stats.push_fail
    BY DEF PushAccounting
  <2>2. stats.reserve_reject + 1 <= stats'.push_fail
    BY <1>2, <1>4, <2>1
  <2> QED BY <1>2, <1>4, <2>2
<1>6. pushes' = Len(log') + stats'.push_fail
  BY <1>1, <1>2, <1>4
<1> QED BY <1>2, <1>3, <1>5, <1>6 DEF PushAccounting

---------------------------------------------------------------------------
(***************************************************************************)
(* The invariant holds initially and every step keeps it.                  *)
(***************************************************************************)
\* The invariant holds at first.
LEMMA InitIInv == RingInit => IInv
<1> SUFFICES ASSUME RingInit PROVE IInv
  OBVIOUS
<1>1. RingTypeOK
  BY CapacityAssumption, MaxPushesAssumption DEF RingInit, RingTypeOK, Slots
<1>2. depth(head, tail) = 0
  BY DEF RingInit, depth
<1> QED
  BY <1>1, <1>2, CapacityAssumption
  DEF RingInit, IInv, IndexInv, SlotInv, ConsumerInv, ProducerInv, ObserverInv,
      FifoDelivery, PushAccounting, ObservedDepth, usable_capacity, Size, Slots

\* emplace up to the full test preserves the invariant.
LEMMA PushIInv ==
  ASSUME IInv, NEW level \in EventLevel, Push(level)
  PROVE  IInv'
<1> USE DEF IInv
<1>1. CASE increment(head) = tail
  <2>1. record_drop(level, FALSE) /\ UNCHANGED <<ppc, offered>>
    BY <1>1 DEF Push
  <2>2. pushes' = Len(log) + stats.push_fail + 1
    BY DEF Push, PushAccounting, RingTypeOK
  <2>3. stats' \in QueueStats /\ PushAccounting'
    BY <2>1, <2>2, DropAccounting DEF Push
  <2>4. RingTypeOK'
    BY <2>1, <2>3, MaxPushesAssumption DEF RingTypeOK, Push, QueueStats
  <2> QED
    BY <2>1, <2>3, <2>4
    DEF Push, IndexInv, SlotInv, ConsumerInv, ProducerInv, ObserverInv,
        FifoDelivery, ObservedDepth
<1>2. CASE increment(head) # tail
  <2>1. /\ offered' = [id |-> pushes + 1, level |-> level]
        /\ ppc' = "reserve" /\ ppc = "idle" /\ pushes' = pushes + 1
        /\ pushes < MaxPushes
        /\ UNCHANGED <<buffer, head, tail, cpc, taken, obs, log, out, stats>>
    BY <1>2 DEF Push
  <2>2. offered' \in Items
    BY <2>1, MaxPushesAssumption DEF Items, RingTypeOK
  <2>3. RingTypeOK'
    BY <2>1, <2>2, MaxPushesAssumption DEF RingTypeOK
  <2>4. PushAccounting'
    BY <2>1 DEF PushAccounting, RingTypeOK
  <2>5. ProducerInv'
    BY <1>2, <2>1, <2>2 DEF ProducerInv
  <2> QED
    BY <2>1, <2>3, <2>4, <2>5
    DEF IndexInv, SlotInv, ConsumerInv, ObserverInv, FifoDelivery,
        ObservedDepth
<1> QED BY <1>1, <1>2

\* The reserve test preserves it.
LEMMA PushReserveIInv ==
  ASSUME IInv, PushReserve
  PROVE  IInv'
<1> USE DEF IInv
<1>0. offered \in Items /\ offered.level \in EventLevel
  BY DEF PushReserve, ProducerInv, Items
<1>1. CASE should_reject_for_reserve(offered.level, depth(head, tail))
  <2>1. /\ record_drop(offered.level, TRUE) /\ ppc' = "idle"
        /\ offered' = Moved
    BY <1>1 DEF PushReserve
  <2>2. pushes' = Len(log) + stats.push_fail + 1
    BY DEF PushReserve, PushAccounting, RingTypeOK
  <2>3. stats' \in QueueStats /\ PushAccounting'
    BY <1>0, <2>1, <2>2, DropAccounting DEF PushReserve
  <2>4. RingTypeOK'
    BY <2>1, <2>3 DEF RingTypeOK, PushReserve, QueueStats
  <2> QED
    BY <2>1, <2>3, <2>4
    DEF PushReserve, IndexInv, SlotInv, ConsumerInv, ProducerInv,
        ObserverInv, FifoDelivery, ObservedDepth
<1>2. CASE ~should_reject_for_reserve(offered.level, depth(head, tail))
  <2>1. /\ ppc = "reserve" /\ ppc' = "write"
        /\ UNCHANGED <<buffer, head, tail, offered, cpc, taken, stats, obs,
                       pushes, log, out>>
    BY <1>2 DEF PushReserve
  <2> QED
    BY <1>2, <2>1
    DEF RingTypeOK, IndexInv, SlotInv, ConsumerInv, ProducerInv, ObserverInv,
        FifoDelivery, PushAccounting, ObservedDepth
<1> QED BY <1>1, <1>2

\* The slot written is none of those between tail_ and head_.
LEMMA PushWriteIInv ==
  ASSUME IInv, PushWrite
  PROVE  IInv'
<1> USE DEF IInv
<1>1. /\ ppc = "write" /\ ppc' = "publish"
      /\ buffer' = [buffer EXCEPT ![head] = offered]
      /\ UNCHANGED <<head, tail, offered, cpc, taken, stats, obs, pushes,
                     log, out>>
  BY DEF PushWrite
<1>2. head \in Slots /\ tail \in Slots /\ offered \in Items
  BY <1>1 DEF RingTypeOK, ProducerInv
<1>3. SlotInv'
  <2> SUFFICES ASSUME NEW k \in Slots, k < depth(head, tail),
                      k = 0 => cpc # "advance"
               PROVE  buffer'[At(tail, k)] = log[Len(out) + k + 1]
    BY <1>1 DEF SlotInv
  <2>1. At(tail, k) \in Slots /\ At(tail, k) # head
    BY <1>2, AtFacts, DepthRange DEF Slots
  <2> QED BY <1>1, <1>2, <2>1 DEF SlotInv, RingTypeOK
<1>4. RingTypeOK' /\ ProducerInv'
  BY <1>1, <1>2 DEF RingTypeOK, ProducerInv
<1> QED
  BY <1>1, <1>3, <1>4
  DEF IndexInv, ConsumerInv, ObserverInv, FifoDelivery, PushAccounting,
      ObservedDepth

\* The store of head_ preserves it.
LEMMA PushPublishIInv ==
  ASSUME IInv, PushPublish
  PROVE  IInv'
<1> USE DEF IInv
<1>1. /\ ppc = "publish" /\ ppc' = "watermark" /\ offered' = Moved
      /\ head' = increment(head) /\ log' = Append(log, offered)
      /\ UNCHANGED <<buffer, tail, cpc, taken, stats, obs, pushes, out>>
  BY DEF PushPublish
<1>2. /\ head \in Slots /\ tail \in Slots /\ offered \in Items
      /\ increment(head) # tail /\ buffer[head] = offered
      /\ log \in Seq(Items) /\ out \in Seq(Items)
  BY <1>1 DEF RingTypeOK, ProducerInv
<1>3. /\ head' \in Slots
      /\ depth(head', tail') = depth(head, tail) + 1
      /\ depth(head, tail) \in 0..Capacity
      /\ At(tail, depth(head, tail)) = head
  BY <1>1, <1>2, IncrementValue, DepthAfterPublish, DepthRange
<1>4. /\ log' \in Seq(Items) /\ Len(log') = Len(log) + 1
      /\ \A i \in 1..Len(log) : log'[i] = log[i]
      /\ log'[Len(log) + 1] = offered
      /\ Len(log) \in Nat /\ Len(out) \in Nat
  BY <1>1, <1>2
<1>5. IndexInv'
  BY <1>1, <1>3, <1>4 DEF IndexInv, Slots
<1>6. SlotInv'
  <2> SUFFICES ASSUME NEW k \in Slots, k < depth(head', tail),
                      k = 0 => cpc # "advance"
               PROVE  buffer[At(tail, k)] = log'[Len(out) + k + 1]
    BY <1>1 DEF SlotInv
  <2>1. CASE k = depth(head, tail)
    BY <1>2, <1>3, <1>4, <2>1 DEF IndexInv
  <2>2. CASE k # depth(head, tail)
    <3>1. k < depth(head, tail) /\ Len(out) + k + 1 \in 1..Len(log)
      BY <1>1, <1>3, <1>4, <2>2 DEF IndexInv, Slots
    <3> QED BY <1>4, <3>1 DEF SlotInv
  <2> QED BY <2>1, <2>2
<1>7. ConsumerInv'
  <2>1. cpc # "idle" => head' # tail
    BY <1>1, <1>2
  <2>2. cpc = "advance" => log'[Len(out) + 1] = log[Len(out) + 1]
    <3> SUFFICES ASSUME cpc = "advance" PROVE Len(out) + 1 \in 1..Len(log)
      BY <1>4
    <3>1. depth(head, tail) # 0
      BY <1>2, DepthRange DEF ConsumerInv
    <3> QED BY <1>3, <1>4, <3>1 DEF IndexInv
  <2> QED BY <1>1, <2>1, <2>2 DEF ConsumerInv
<1>8. RingTypeOK' /\ ProducerInv'
  BY <1>1, <1>3, <1>4 DEF RingTypeOK, ProducerInv
<1>9. FifoDelivery'
  <2>1. Len(out) <= Len(log) /\ \A i \in 1..Len(out) : out[i] = log[i]
    BY DEF FifoDelivery
  <2> QED BY <1>1, <1>4, <2>1 DEF FifoDelivery
<1>10. PushAccounting'
  <2>1. stats.push_fail \in Nat
    BY DEF RingTypeOK
  <2>2. pushes = Len(log) + stats.push_fail + 1
    BY <1>1 DEF PushAccounting
  <2>3. pushes' = Len(log') + stats'.push_fail
    BY <1>1, <1>4, <2>1, <2>2
  <2> QED BY <1>1, <2>3 DEF PushAccounting
<1> QED
  BY <1>1, <1>5, <1>6, <1>7, <1>8, <1>9, <1>10 DEF ObserverInv, ObservedDepth

\* update_high_watermark preserves it.
LEMMA PushWatermarkIInv ==
  ASSUME IInv, PushWatermark
  PROVE  IInv'
<1> USE DEF IInv
<1>1. depth(head, tail) \in Nat
  BY DepthRange DEF RingTypeOK
<1>2. stats' \in QueueStats /\ stats'.push_fail = stats.push_fail
      /\ stats'.dropped_info = stats.dropped_info
      /\ stats'.dropped_warning = stats.dropped_warning
      /\ stats'.dropped_critical = stats.dropped_critical
      /\ stats'.reserve_reject = stats.reserve_reject
  BY <1>1 DEF PushWatermark, RingTypeOK, QueueStats
<1>3. RingTypeOK' /\ PushAccounting'
  BY <1>2 DEF PushWatermark, RingTypeOK, PushAccounting, QueueStats
<1> QED
  BY <1>3
  DEF PushWatermark, IndexInv, SlotInv, ConsumerInv, ProducerInv,
      ObserverInv, FifoDelivery, ObservedDepth

\* The empty test of pop preserves it.
LEMMA PopIInv ==
  ASSUME IInv, Pop
  PROVE  IInv'
BY DEF IInv, Pop, RingTypeOK, IndexInv, SlotInv, ConsumerInv, ProducerInv,
       ObserverInv, FifoDelivery, PushAccounting, ObservedDepth

\* Moving the item out of its slot preserves it.
LEMMA PopMoveIInv ==
  ASSUME IInv, PopMove
  PROVE  IInv'
<1> USE DEF IInv
<1>1. /\ cpc = "move" /\ cpc' = "advance" /\ taken' = buffer[tail]
      /\ buffer' = [buffer EXCEPT ![tail] = Moved]
      /\ UNCHANGED <<head, tail, ppc, offered, stats, obs, pushes, log, out>>
  BY DEF PopMove
<1>2. head \in Slots /\ tail \in Slots /\ head # tail
  BY <1>1 DEF RingTypeOK, ConsumerInv
<1>3. taken' = log[Len(out) + 1]
  <2>1. 0 \in Slots /\ At(tail, 0) = tail /\ 0 < depth(head, tail)
    BY <1>2, DepthRange, CapacityAssumption DEF Slots, At
  <2>2. buffer[At(tail, 0)] = log[Len(out) + 0 + 1]
    BY <1>1, <2>1 DEF SlotInv
  <2> QED BY <1>1, <2>1, <2>2 DEF RingTypeOK
<1>4. SlotInv'
  <2> SUFFICES ASSUME NEW k \in Slots, k < depth(head, tail), k # 0
               PROVE  buffer'[At(tail, k)] = log[Len(out) + k + 1]
    BY <1>1 DEF SlotInv
  <2>1. At(tail, k) \in Slots /\ At(tail, k) # tail
    BY <1>2, AtFacts, CapacityAssumption DEF Slots, At, Size
  <2> QED BY <1>1, <2>1 DEF SlotInv, RingTypeOK
<1>5. RingTypeOK'
  BY <1>1, <1>2 DEF RingTypeOK
<1>6. ProducerInv'
  BY <1>1, <1>2 DEF ProducerInv, RingTypeOK
<1> QED
  BY <1>1, <1>2, <1>3, <1>4, <1>5, <1>6
  DEF IndexInv, ConsumerInv, ObserverInv, FifoDelivery, PushAccounting,
      ObservedDepth

\* A shorter queue has more room: no test passed before fails now.
LEMMA ReserveMonotone ==
  ASSUME NEW level \in EventLevel, NEW d \in 1..Capacity,
         ~should_reject_for_reserve(level, d)
  PROVE  ~should_reject_for_reserve(level, d - 1)
BY CapacityAssumption, ReservedAssumption
DEF should_reject_for_reserve, usable_capacity, Size, reserved

\* The store of tail_ preserves it.
LEMMA PopAdvanceIInv ==
  ASSUME IInv, PopAdvance
  PROVE  IInv'
<1> USE DEF IInv
<1>1. /\ cpc = "advance" /\ cpc' = "idle" /\ taken' = Moved
      /\ tail' = increment(tail) /\ out' = Append(out, taken)
      /\ UNCHANGED <<buffer, head, ppc, offered, stats, obs, pushes, log>>
  BY DEF PopAdvance
<1>2. /\ head \in Slots /\ tail \in Slots /\ head # tail
      /\ taken = log[Len(out) + 1]
      /\ log \in Seq(Items) /\ out \in Seq(Items)
  BY <1>1 DEF RingTypeOK, ConsumerInv
<1>3. /\ tail' \in Slots
      /\ depth(head, tail') = depth(head, tail) - 1
      /\ depth(head, tail) \in 1..Capacity
  BY <1>1, <1>2, IncrementValue, DepthAfterAdvance, DepthRange,
     CapacityAssumption
<1>4. Len(log) \in Nat /\ Len(out) \in Nat /\ Len(out) + 1 \in 1..Len(log)
  BY <1>2, <1>3 DEF IndexInv
<1>5. taken \in Items
  BY <1>2, <1>4
<1>6. /\ out' \in Seq(Items) /\ Len(out') = Len(out) + 1
      /\ \A i \in 1..Len(out) : out'[i] = out[i]
      /\ out'[Len(out) + 1] = taken
  BY <1>1, <1>2, <1>5
<1>7. IndexInv'
  BY <1>1, <1>3, <1>4, <1>6 DEF IndexInv
<1>8. SlotInv'
  <2> SUFFICES ASSUME NEW k \in Slots, k < depth(head, tail')
               PROVE  buffer[At(tail', k)] = log[Len(out') + k + 1]
    BY <1>1 DEF SlotInv
  <2>1. k + 1 \in Slots /\ k + 1 < depth(head, tail) /\ k < Capacity
    BY <1>3, CapacityAssumption DEF Slots
  <2>2. At(tail', k) = At(tail, k + 1)
    BY <1>1, <1>2, <2>1, AtFacts
  <2>3. buffer[At(tail, k + 1)] = log[Len(out) + (k + 1) + 1]
    BY <2>1 DEF SlotInv, Slots
  <2>4. Len(out) + (k + 1) + 1 = Len(out') + k + 1
    BY <1>4, <1>6, <2>1 DEF Slots
  <2> QED BY <2>2, <2>3, <2>4
<1>9. ProducerInv'
  <2> SUFFICES ASSUME ppc \in {"reserve", "write", "publish"}
               PROVE  /\ increment(head) # tail'
                      /\ ppc \in {"write", "publish"} =>
                         ~should_reject_for_reserve(offered.level,
                                                    depth(head, tail'))
    BY <1>1 DEF ProducerInv
  <2>1. increment(head) # tail'
    <3>1. depth(head, tail') # Capacity
      BY <1>3, CapacityAssumption
    <3> QED BY <1>2, <1>3, <3>1, DepthRange
  <2>2. offered.level \in EventLevel
    BY DEF ProducerInv, Items
  <2> QED BY <1>3, <2>1, <2>2, ReserveMonotone DEF ProducerInv
<1>10. ObserverInv'
  <2>1. obs.head \in Slots /\ obs.start \in Nat /\ obs.backlog \in Nat
    BY DEF RingTypeOK
  <2>2. ASSUME obs.pc = "tail", Len(out') - obs.start <= obs.backlog
        PROVE  depth(obs.head, tail') = obs.backlog - (Len(out') - obs.start)
    <3>1. depth(obs.head, tail) = obs.backlog - (Len(out) - obs.start)
      BY <1>4, <1>6, <2>1, <2>2 DEF ObserverInv
    <3>2. depth(obs.head, tail) # 0
      BY <1>4, <1>6, <2>1, <2>2, <3>1 DEF ObserverInv
    <3>3. depth(obs.head, tail') = depth(obs.head, tail) - 1
      BY <1>1, <1>2, <2>1, <3>2, DepthRange, DepthAfterAdvance
    <3>4. Len(out') = Len(out) + 1 /\ Len(out) \in Nat
      BY <1>4, <1>6
    <3>5. obs.backlog - (Len(out) - obs.start) - 1
          = obs.backlog - ((Len(out) + 1) - obs.start)
      BY <2>1, <3>4
    <3> QED BY <3>1, <3>3, <3>4, <3>5
  <2>3. obs.start <= Len(out')
    BY <1>4, <1>6, <2>1 DEF ObserverInv
  <2> QED BY <1>1, <2>2, <2>3 DEF ObserverInv
<1>11. FifoDelivery'
  BY <1>1, <1>2, <1>4, <1>6 DEF FifoDelivery
<1>12. RingTypeOK' /\ ConsumerInv'
  BY <1>1, <1>3, <1>6 DEF RingTypeOK, ConsumerInv
<1> QED
  BY <1>1, <1>7, <1>8, <1>9, <1>10, <1>11, <1>12
  DEF PushAccounting, ObservedDepth

\* The observer's first load preserves it.
LEMMA DepthLoadHeadIInv ==
  ASSUME IInv, DepthLoadHead
  PROVE  IInv'
<1> USE DEF IInv
<1>1. /\ obs' = [obs EXCEPT !.pc = "tail", !.head = head,
                   !.backlog = Len(log) - Len(out), !.start = Len(out)]
      /\ UNCHANGED <<buffer, head, tail, ppc, offered, cpc, taken, stats,
                     pushes, log, out>>
  BY DEF DepthLoadHead
<1>2. /\ Len(out) \in Nat /\ Len(log) \in Nat
      /\ Len(log) - Len(out) \in Nat /\ head \in Slots
  BY DEF RingTypeOK, IndexInv
<1>3. obs' = [pc |-> "tail", head |-> head, depth |-> obs.depth,
              backlog |-> Len(log) - Len(out), start |-> Len(out),
              popped |-> obs.popped]
  BY <1>1 DEF RingTypeOK
<1>4. RingTypeOK'
  BY <1>1, <1>2, <1>3 DEF RingTypeOK
<1>5. ObserverInv' /\ ObservedDepth'
  BY <1>1, <1>2, <1>3 DEF ObserverInv, ObservedDepth, IndexInv, RingTypeOK
<1> QED
  BY <1>1, <1>4, <1>5
  DEF IndexInv, SlotInv, ConsumerInv, ProducerInv, FifoDelivery,
      PushAccounting

\* The observer's second load preserves it.
LEMMA DepthLoadTailIInv ==
  ASSUME IInv, DepthLoadTail
  PROVE  IInv'
<1> USE DEF IInv
<1>1. /\ obs.pc = "tail"
      /\ obs' = [obs EXCEPT !.pc = "idle", !.depth = depth(obs.head, tail),
                            !.popped = Len(out) - obs.start]
      /\ UNCHANGED <<buffer, head, tail, ppc, offered, cpc, taken, stats,
                     pushes, log, out>>
  BY DEF DepthLoadTail
<1>2. /\ Len(out) \in Nat /\ obs.start \in Nat /\ obs.backlog \in Nat
      /\ Len(out) - obs.start \in Nat
      /\ obs.head \in Slots /\ tail \in Slots
  BY DEF RingTypeOK, ObserverInv
<1>3. depth(obs.head, tail) \in 0..Capacity
  BY <1>2, DepthRange
<1>4. obs' = [pc |-> "idle", head |-> obs.head,
              depth |-> depth(obs.head, tail), backlog |-> obs.backlog,
              start |-> obs.start, popped |-> Len(out) - obs.start]
  BY <1>1 DEF RingTypeOK
<1>5. RingTypeOK'
  BY <1>1, <1>2, <1>3, <1>4 DEF RingTypeOK
<1>6. ObserverInv' /\ ObservedDepth'
  BY <1>1, <1>2, <1>3, <1>4, CapacityAssumption
  DEF ObserverInv, ObservedDepth, usable_capacity, Size
<1> QED
  BY <1>1, <1>5, <1>6
  DEF IndexInv, SlotInv, ConsumerInv, ProducerInv, FifoDelivery,
      PushAccounting

---------------------------------------------------------------------------
\* Every step of the three threads preserves the invariant.
LEMMA StepIInv == IInv /\ [RingNext]_ringVars => IInv'
<1> SUFFICES ASSUME IInv, [RingNext]_ringVars PROVE IInv'
  OBVIOUS
<1>1. ASSUME NEW level \in OfferedLevels, Push(level) PROVE IInv'
  BY <1>1, PushIInv, LevelsAssumption
<1>2. CASE PushReserve
  BY <1>2, PushReserveIInv
<1>3. CASE PushWrite
  BY <1>3, PushWriteIInv
<1>4. CASE PushPublish
  BY <1>4, PushPublishIInv
<1>5. CASE PushWatermark
  BY <1>5, PushWatermarkIInv
<1>6. CASE Pop
  BY <1>6, PopIInv
<1>7. CASE PopMove
  BY <1>7, PopMoveIInv
<1>8. CASE PopAdvance
  BY <1>8, PopAdvanceIInv
<1>9. CASE DepthLoadHead
  BY <1>9, DepthLoadHeadIInv
<1>10. CASE DepthLoadTail
  BY <1>10, DepthLoadTailIInv
<1>11. CASE UNCHANGED ringVars
  <2>1. RingTypeOK'
    BY <1>11 DEF ringVars, IInv, RingTypeOK
  <2>2. IndexInv' /\ SlotInv'
    BY <1>11 DEF ringVars, IInv, IndexInv, SlotInv
  <2>3. ConsumerInv' /\ ProducerInv'
    BY <1>11 DEF ringVars, IInv, ConsumerInv, ProducerInv
  <2>4. ObserverInv' /\ ObservedDepth'
    BY <1>11 DEF ringVars, IInv, ObserverInv, ObservedDepth
  <2>5. FifoDelivery'
    BY <1>11 DEF ringVars, IInv, FifoDelivery
  <2>6. PushAccounting'
    BY <1>11 DEF ringVars, IInv, PushAccounting
  <2> QED BY <2>1, <2>2, <2>3, <2>4, <2>5, <2>6 DEF IInv
<1> QED
  BY <1>1, <1>2, <1>3, <1>4, <1>5, <1>6, <1>7, <1>8, <1>9, <1>10, <1>11
  DEF RingNext, Producer, Consumer, Observer

\* The ring keeps its inductive invariant.
THEOREM InductiveInvariant == RingSpec => []IInv
BY InitIInv, StepIInv, PTL DEF RingSpec

\* Every variable keeps its type, for every capacity.
THEOREM TypeCorrect == RingSpec => []RingTypeOK
<1>1. IInv => RingTypeOK
  BY DEF IInv
<1> QED BY <1>1, InductiveInvariant, PTL

\* pop returns the accepted events in push order, none lost or repeated.
THEOREM FifoCorrect == RingSpec => []FifoDelivery
<1>1. IInv => FifoDelivery
  BY DEF IInv
<1> QED BY <1>1, InductiveInvariant, PTL

\* The producer and the consumer never touch the same slot at the same time.
THEOREM RaceFree == RingSpec => []NoSlotRace
<1>1. IInv => NoSlotRace
  BY DEF IInv, ConsumerInv, NoSlotRace
<1> QED BY <1>1, InductiveInvariant, PTL

\* Every finished push is accepted or counted once as a failure.
THEOREM AccountingCorrect == RingSpec => []PushAccounting
<1>1. IInv => PushAccounting
  BY DEF IInv
<1> QED BY <1>1, InductiveInvariant, PTL

\* A third thread's depth() is exact unless the consumer overtakes it.
THEOREM ObservedDepthCorrect == RingSpec => []ObservedDepth
<1>1. IInv => ObservedDepth
  BY DEF IInv
<1> QED BY <1>1, InductiveInvariant, PTL

\* Held-back levels never eat into the slots kept for Critical events.
THEOREM ReserveCorrect == RingSpec => ReserveKept
<1>1. IInv /\ [RingNext]_ringVars
      => [head' # head /\ HeldBack(offered.level)
            => usable_capacity - depth(head', tail') >= reserved]_ringVars
  <2> SUFFICES ASSUME IInv, RingNext, head' # head, HeldBack(offered.level)
               PROVE  usable_capacity - depth(head', tail') >= reserved
    OBVIOUS
  <2>1. PushPublish
    BY DEF RingNext, Producer, Consumer, Observer, Push, PushReserve, PushWrite,
           PushWatermark, Pop, PopMove, PopAdvance, DepthLoadHead,
           DepthLoadTail
  <2>2. /\ head \in Slots /\ tail \in Slots /\ increment(head) # tail
        /\ ~should_reject_for_reserve(offered.level, depth(head, tail))
    BY <2>1 DEF PushPublish, IInv, RingTypeOK, ProducerInv
  <2>3. depth(head', tail') = depth(head, tail) + 1
    BY <2>1, <2>2, DepthAfterPublish DEF PushPublish
  <2>4. depth(head, tail) \in 0..Capacity
    BY <2>2, DepthRange
  <2> QED
    BY <2>2, <2>3, <2>4, CapacityAssumption, ReservedAssumption
    DEF should_reject_for_reserve, usable_capacity, Size, reserved
<1> QED
  BY <1>1, InductiveInvariant, PTL DEF RingSpec, ReserveKept

---------------------------------------------------------------------------
(***************************************************************************)
(* The ring implements the bounded FIFO.                                   *)
(***************************************************************************)
\* What is undelivered is the end of what was published.
LEMMA UndeliveredFacts ==
  ASSUME NEW l \in Seq(Items), NEW o \in Seq(Items), Len(o) <= Len(l)
  PROVE  /\ Undelivered(l, o) \in Seq(Items)
         /\ Len(Undelivered(l, o)) = Len(l) - Len(o)
         /\ \A i \in 1..(Len(l) - Len(o)) :
              Undelivered(l, o)[i] = l[Len(o) + i]
<1>1. Len(l) \in Nat /\ Len(o) \in Nat /\ Len(l) - Len(o) \in Nat
  OBVIOUS
<1>2. \A i \in 1..(Len(l) - Len(o)) : l[Len(o) + i] \in Items
  BY <1>1
<1> QED BY <1>1, <1>2 DEF Undelivered

\* What appending one element does to a sequence.
LEMMA AppendFacts ==
  ASSUME NEW S, NEW s \in Seq(S), NEW e \in S
  PROVE  /\ Append(s, e) \in Seq(S)
         /\ Len(Append(s, e)) = Len(s) + 1
         /\ \A i \in 1..Len(s) : Append(s, e)[i] = s[i]
         /\ Append(s, e)[Len(s) + 1] = e
OBVIOUS

\* Two sequences with the same length and elements are equal.
LEMMA SeqEqual ==
  ASSUME NEW S, NEW a \in Seq(S), NEW b \in Seq(S), Len(a) = Len(b),
         \A i \in 1..Len(a) : a[i] = b[i]
  PROVE  a = b
OBVIOUS

\* Accepting an item appends it to what is undelivered.
LEMMA UndeliveredAppend ==
  ASSUME NEW l \in Seq(Items), NEW o \in Seq(Items), Len(o) <= Len(l),
         NEW item \in Items
  PROVE  Undelivered(Append(l, item), o) = Append(Undelivered(l, o), item)
<1> DEFINE l2 == Append(l, item)
           q  == Undelivered(l, o)
           q2 == Undelivered(l2, o)
<1>1. /\ l2 \in Seq(Items) /\ Len(l2) = Len(l) + 1
      /\ \A i \in 1..Len(l) : l2[i] = l[i]
      /\ l2[Len(l) + 1] = item
      /\ Len(l) \in Nat /\ Len(o) \in Nat
  OBVIOUS
<1>2. /\ q \in Seq(Items) /\ Len(q) = Len(l) - Len(o)
      /\ \A i \in 1..(Len(l) - Len(o)) : q[i] = l[Len(o) + i]
  BY UndeliveredFacts
<1>3. /\ q2 \in Seq(Items) /\ Len(q2) = Len(l2) - Len(o)
      /\ \A i \in 1..(Len(l2) - Len(o)) : q2[i] = l2[Len(o) + i]
  <2>1. Len(o) <= Len(l2)
    BY <1>1
  <2> QED BY <1>1, <2>1, UndeliveredFacts
<1>4. /\ Append(q, item) \in Seq(Items) /\ Len(Append(q, item)) = Len(q2)
      /\ \A i \in 1..Len(q) : Append(q, item)[i] = q[i]
      /\ Append(q, item)[Len(q) + 1] = item
  <2> HIDE DEF q, q2, l2
  <2>1. Len(Append(q, item)) = Len(q) + 1
    BY <1>2, AppendFacts
  <2>2. Len(q2) = Len(q) + 1
    BY <1>1, <1>2, <1>3
  <2> QED BY <1>2, <2>1, <2>2, AppendFacts
<1>5. \A i \in 1..Len(q2) : q2[i] = Append(q, item)[i]
  <2> HIDE DEF q, q2, l2
  <2> SUFFICES ASSUME NEW i \in 1..Len(q2) PROVE q2[i] = Append(q, item)[i]
    OBVIOUS
  <2>1. CASE i \in 1..Len(q)
    <3>1. i \in 1..(Len(l) - Len(o)) /\ i \in 1..(Len(l2) - Len(o))
          /\ Len(o) + i \in 1..Len(l)
      BY <1>1, <1>2, <2>1
    <3>2. q2[i] = l2[Len(o) + i] /\ q[i] = l[Len(o) + i]
      BY <1>2, <1>3, <3>1
    <3> QED BY <1>1, <1>4, <2>1, <3>1, <3>2
  <2>2. CASE i = Len(q) + 1
    BY <1>1, <1>2, <1>3, <1>4, <2>2
  <2> QED BY <1>1, <1>2, <1>3, <2>1, <2>2
<1> QED
  <2> HIDE DEF q, q2, l2
  <2>1. q2 = Append(q, item)
    BY <1>3, <1>4, <1>5, SeqEqual
  <2> QED BY <2>1 DEF q, q2, l2

\* Popping the oldest item leaves the rest undelivered.
LEMMA UndeliveredTail ==
  ASSUME NEW l \in Seq(Items), NEW o \in Seq(Items), Len(o) < Len(l)
  PROVE  /\ Undelivered(l, o) # <<>>
         /\ Head(Undelivered(l, o)) = l[Len(o) + 1]
         /\ Undelivered(l, Append(o, l[Len(o) + 1])) = Tail(Undelivered(l, o))
<1> DEFINE x  == l[Len(o) + 1]
           o2 == Append(o, x)
           q  == Undelivered(l, o)
           q2 == Undelivered(l, o2)
<1>0. Len(l) \in Nat /\ Len(o) \in Nat /\ x \in Items
  OBVIOUS
<1>1. o2 \in Seq(Items) /\ Len(o2) = Len(o) + 1
  BY <1>0
<1>2. /\ q \in Seq(Items) /\ Len(q) = Len(l) - Len(o)
      /\ \A i \in 1..(Len(l) - Len(o)) : q[i] = l[Len(o) + i]
  BY <1>0, UndeliveredFacts
<1>3. /\ q2 \in Seq(Items) /\ Len(q2) = Len(l) - Len(o2)
      /\ \A i \in 1..(Len(l) - Len(o2)) : q2[i] = l[Len(o2) + i]
  <2>1. Len(o2) <= Len(l)
    BY <1>0, <1>1
  <2> QED BY <1>1, <2>1, UndeliveredFacts
<1> HIDE DEF q, q2, o2
<1>4. q # <<>> /\ Head(q) = x
  BY <1>0, <1>2
<1>5. /\ Tail(q) \in Seq(Items) /\ Len(Tail(q)) = Len(q2)
      /\ \A i \in 1..Len(q2) : Tail(q)[i] = q[i + 1]
  BY <1>0, <1>1, <1>2, <1>3, <1>4
<1>6. \A i \in 1..Len(q2) : q2[i] = Tail(q)[i]
  <2> SUFFICES ASSUME NEW i \in 1..Len(q2) PROVE q2[i] = Tail(q)[i]
    OBVIOUS
  <2>1. q2[i] = l[Len(o) + 1 + i] /\ q[i + 1] = l[Len(o) + (i + 1)]
    <3>1. i \in 1..(Len(l) - Len(o2)) /\ Len(o2) = Len(o) + 1
      BY <1>1, <1>3
    <3>2. i + 1 \in 1..(Len(l) - Len(o))
      BY <1>0, <3>1
    <3> QED BY <1>2, <1>3, <3>1, <3>2
  <2>2. Len(o) + 1 + i = Len(o) + (i + 1)
    BY <1>0, <1>3
  <2> QED BY <1>5, <2>1, <2>2
<1>7. q2 = Tail(q)
  BY <1>3, <1>5, <1>6, SeqEqual
<1> QED BY <1>4, <1>7 DEF q, q2, o2

\* The abstract queue is as long as depth() says.
LEMMA QueuedLength ==
  ASSUME IInv
  PROVE  Len(Queued) = depth(head, tail)
BY UndeliveredFacts DEF IInv, RingTypeOK, IndexInv, Queued

\* A step that moves neither head_ nor tail_ nor counts a drop leaves
\* the abstract queue alone.
LEMMA AbsUnchanged ==
  ASSUME UNCHANGED <<log, out, Dropped>>
  PROVE  UNCHANGED Abs!vars
BY DEF Abs!vars, Queued

\* What should_reject_for_reserve decides is what the abstract queue admits,
\* as long as a slot is free.
LEMMA ReserveDecision ==
  ASSUME NEW item, NEW d \in Nat, d < usable_capacity
  PROVE  should_reject_for_reserve(item.level, d) <=> ~Admits(item, d)
<1>1. reserved \in Int /\ usable_capacity \in Nat /\ usable_capacity # 0
  BY CapacityAssumption, ReservedAssumption
  DEF reserved, usable_capacity, Size
<1> QED
  BY <1>1 DEF should_reject_for_reserve, Admits

\* A refused push is a refusal of the abstract queue.
LEMMA AbsReject ==
  ASSUME IInv, NEW item \in Items, NEW by_reserve \in BOOLEAN,
         record_drop(item.level, by_reserve), UNCHANGED <<log, out>>,
         \/ increment(head) = tail
         \/ should_reject_for_reserve(item.level, depth(head, tail))
  PROVE  Abs!Next
<1>1. Dropped' = [Dropped EXCEPT ![Kind(item)] = @ + 1]
  <2>1. item.level \in EventLevel /\ stats \in QueueStats
    BY DEF Items, IInv, RingTypeOK, QueueStats
  <2> QED BY <2>1, RecordDrop DEF Kind
<1>2. Len(Queued) = depth(head, tail)
  BY QueuedLength
<1>3. Len(Queued) >= usable_capacity \/ ~Admits(item, Len(Queued))
  <2>1. CASE increment(head) = tail
    BY <1>2, <2>1, DepthRange, CapacityAssumption
    DEF usable_capacity, Size, IInv, RingTypeOK
  <2>2. CASE should_reject_for_reserve(item.level, depth(head, tail))
    <3>1. depth(head, tail) \in Nat /\ usable_capacity \in Nat
      BY DepthRange, CapacityAssumption
      DEF IInv, RingTypeOK, usable_capacity, Size
    <3>2. CASE depth(head, tail) < usable_capacity
      BY <1>2, <2>2, <3>1, <3>2, ReserveDecision
    <3> QED BY <1>2, <3>1, <3>2
  <2> QED BY <2>1, <2>2
<1>4. UNCHANGED <<Queued, out>>
  BY DEF Queued
<1>5. Abs!Reject(item)
  BY <1>1, <1>3, <1>4 DEF Abs!Reject
<1> QED BY <1>5 DEF Abs!Next

\* The store of head_ is an Enqueue of the abstract queue.
LEMMA AbsEnqueue ==
  ASSUME IInv, PushPublish
  PROVE  Abs!Next
<1>1. /\ offered \in Items /\ log' = Append(log, offered) /\ out' = out
      /\ stats' = stats /\ increment(head) # tail
      /\ ~should_reject_for_reserve(offered.level, depth(head, tail))
      /\ head \in Slots /\ tail \in Slots
      /\ log \in Seq(Items) /\ out \in Seq(Items) /\ Len(out) <= Len(log)
  BY DEF IInv, PushPublish, ProducerInv, RingTypeOK, IndexInv
<1>2. Queued' = Append(Queued, offered)
  BY <1>1, UndeliveredAppend DEF Queued
<1>3. Len(Queued) < usable_capacity /\ Admits(offered, Len(Queued))
  <2>1. Len(Queued) = depth(head, tail) /\ depth(head, tail) \in Nat
        /\ depth(head, tail) < usable_capacity
    BY <1>1, QueuedLength, DepthRange, CapacityAssumption
    DEF usable_capacity, Size
  <2> QED BY <1>1, <2>1, ReserveDecision
<1>4. Abs!Enqueue(offered)
  BY <1>1, <1>2, <1>3 DEF Abs!Enqueue, Dropped
<1> QED BY <1>1, <1>4 DEF Abs!Next

\* The store of tail_ is a Dequeue of the abstract queue.
LEMMA AbsDequeue ==
  ASSUME IInv, PopAdvance
  PROVE  Abs!Next
<1>1. /\ out' = Append(out, taken) /\ UNCHANGED <<log, stats>>
      /\ taken = log[Len(out) + 1] /\ head # tail
      /\ head \in Slots /\ tail \in Slots
      /\ log \in Seq(Items) /\ out \in Seq(Items)
      /\ Len(out) <= Len(log) /\ Len(log) - Len(out) = depth(head, tail)
  BY DEF IInv, PopAdvance, ConsumerInv, RingTypeOK, IndexInv
<1>2. Len(out) < Len(log)
  <2>1. depth(head, tail) # 0
    BY <1>1, DepthRange
  <2> QED BY <1>1, <2>1
<1>3. /\ Queued # <<>> /\ Head(Queued) = taken
      /\ Queued' = Tail(Queued)
  BY <1>1, <1>2, UndeliveredTail DEF Queued
<1>4. Abs!Dequeue
  BY <1>1, <1>3 DEF Abs!Dequeue, Dropped
<1> QED BY <1>4 DEF Abs!Next

\* Every step is a step of the abstract queue or leaves it alone.
LEMMA AbsStep == IInv /\ [RingNext]_ringVars => [Abs!Next]_(Abs!vars)
<1> SUFFICES ASSUME IInv, [RingNext]_ringVars
             PROVE  Abs!Next \/ UNCHANGED Abs!vars
  OBVIOUS
<1>1. ASSUME NEW level \in OfferedLevels, Push(level)
      PROVE  Abs!Next \/ UNCHANGED Abs!vars
  <2>1. CASE increment(head) = tail
    <3> DEFINE item == [id |-> pushes + 1, level |-> level]
    <3>1. item \in Items /\ item.level = level
      BY <1>1, LevelsAssumption, MaxPushesAssumption
      DEF Items, Push, IInv, RingTypeOK
    <3>2. record_drop(item.level, FALSE) /\ UNCHANGED <<log, out>>
      BY <1>1, <2>1, <3>1 DEF Push
    <3> HIDE DEF item
    <3> QED BY <2>1, <3>1, <3>2, AbsReject
  <2>2. CASE increment(head) # tail
    BY <1>1, <2>2, AbsUnchanged DEF Push, Dropped
  <2> QED BY <2>1, <2>2
<1>2. CASE PushReserve
  <2>1. CASE should_reject_for_reserve(offered.level, depth(head, tail))
    <3>1. offered \in Items /\ record_drop(offered.level, TRUE)
          /\ UNCHANGED <<log, out>>
      BY <1>2, <2>1 DEF PushReserve, IInv, ProducerInv
    <3> QED BY <2>1, <3>1, AbsReject
  <2>2. CASE ~should_reject_for_reserve(offered.level, depth(head, tail))
    BY <1>2, <2>2, AbsUnchanged DEF PushReserve, Dropped
  <2> QED BY <2>1, <2>2
<1>3. CASE PushPublish
  BY <1>3, AbsEnqueue
<1>4. CASE PopAdvance
  BY <1>4, AbsDequeue
<1>5. CASE PushWatermark
  <2>1. UNCHANGED <<log, out>> /\ \A k \in Kinds : stats'[k] = stats[k]
    BY <1>5 DEF PushWatermark, IInv, RingTypeOK, Kinds
  <2> QED BY <2>1, AbsUnchanged DEF Dropped
<1>6. CASE PushWrite \/ Pop \/ PopMove \/ DepthLoadHead \/ DepthLoadTail
           \/ UNCHANGED ringVars
  BY <1>6, AbsUnchanged
  DEF PushWrite, Pop, PopMove, DepthLoadHead, DepthLoadTail, ringVars, Dropped
<1> QED
  BY <1>1, <1>2, <1>3, <1>4, <1>5, <1>6
  DEF RingNext, Producer, Consumer, Observer

\* Every behaviour of the ring is a behaviour of the bounded FIFO.
THEOREM Refinement == RingSpec => ImplementsBoundedFifo
<1>1. RingInit => Abs!Init
  BY DEF RingInit, Abs!Init, Queued, Undelivered, Dropped, Kinds
<1> QED
  BY <1>1, AbsStep, InductiveInvariant, PTL
  DEF RingSpec, ImplementsBoundedFifo, Abs!Spec
=============================================================================
