------------------------------ MODULE Alerting ------------------------------
(***************************************************************************)
(* A collector thread's rule engine together with Monitor::publish_event   *)
(* (src/runtime/monitor.cpp) and the source queue it pushes into.  The     *)
(* engine changes its state before the event is pushed, and the collector  *)
(* loops ignore what publish_event returns.                                *)
(***************************************************************************)
EXTENDS RuleEngine

CONSTANT QueueCapacity   \* event_queue_capacity

VARIABLES
  depth,      \* events in the source queue
  published   \* history: the last event of each key that was really queued

alertVars == <<vars, depth, published>>

AlertInit ==
  /\ Init
  /\ depth = 0
  /\ published = [k \in Keys |-> "none"]

\* The event an evaluation returned is pushed in the same pass of the loop,
\* and dropped when the queue is full.
publish_event ==
  IF emitted' # NoEvent /\ depth < QueueCapacity
  THEN /\ depth' = depth + 1
       /\ published' = [published EXCEPT ![emitted'.key] = emitted'.level]
  ELSE UNCHANGED <<depth, published>>

Collect == Next /\ publish_event

\* The dispatcher takes an event.
DispatcherPops ==
  /\ depth > 0
  /\ depth' = depth - 1
  /\ UNCHANGED <<vars, published>>

AlertNext == Collect \/ DispatcherPops

AlertSpec == AlertInit /\ [][AlertNext]_alertVars

\* A Recovery is published only for an alert whose activation has really been
\* published.
RecoveryFollowsActivation ==
  [][\A k \in Keys :
       published'[k] = "Recovery" /\ published[k] # "Recovery"
         => published[k] \in {"Warning", "Critical"}]_alertVars
=============================================================================
