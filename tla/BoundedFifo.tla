---------------------------- MODULE BoundedFifo ----------------------------
(***************************************************************************)
(* What an event queue promises to the two threads that share it: a FIFO   *)
(* of at most Usable items, whose last free slots are kept for Critical    *)
(* events.  A push either appends its item or is counted as rejected; a    *)
(* pop takes the oldest item.  SpscQueue (the ring buffer of               *)
(* spsc_ring_buffer.hpp) is shown to implement this module, and the        *)
(* modules above it use a queue the way this module describes it.          *)
(***************************************************************************)
EXTENDS Naturals, Sequences

CONSTANTS
  Items,          \* what may be queued
  Usable,         \* usable_capacity()
  Admits(_, _),   \* Admits(item, n): may item join a queue of length n?
  Kinds,          \* the kinds refused items are counted by
  Kind(_)         \* the kind of an item

VARIABLES
  queue,          \* the items in the queue, oldest first
  delivered,      \* the items popped so far, in order
  rejected        \* how many pushes of each kind have been refused

vars == <<queue, delivered, rejected>>

Init ==
  /\ queue = <<>>
  /\ delivered = <<>>
  /\ rejected = [k \in Kinds |-> 0]

\* A push succeeds exactly when the queue has room for an item of that kind.
Enqueue(item) ==
  /\ Len(queue) < Usable
  /\ Admits(item, Len(queue))
  /\ queue' = Append(queue, item)
  /\ UNCHANGED <<delivered, rejected>>

Reject(item) ==
  /\ Len(queue) >= Usable \/ ~Admits(item, Len(queue))
  /\ rejected' = [rejected EXCEPT ![Kind(item)] = @ + 1]
  /\ UNCHANGED <<queue, delivered>>

Dequeue ==
  /\ queue # <<>>
  /\ delivered' = Append(delivered, Head(queue))
  /\ queue' = Tail(queue)
  /\ UNCHANGED rejected

Next ==
  \/ \E item \in Items : Enqueue(item) \/ Reject(item)
  \/ Dequeue

Spec == Init /\ [][Next]_vars
=============================================================================
