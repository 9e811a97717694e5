-------------------------- MODULE MCEventPipeline --------------------------
(***************************************************************************)
(* EventPipeline for TLC: the two source queues of Monitor, and two sinks  *)
(* of which the network sink may hang.                                     *)
(***************************************************************************)
EXTENDS EventPipeline

MCSources == <<"fast", "sched">>

MCSinks == <<"jsonl", "network">>
=============================================================================
