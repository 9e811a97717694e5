---------------------------- MODULE SchedTargets ----------------------------
(***************************************************************************)
(* What both scheduler-delay collectors, the one that reads /proc and the  *)
(* one with programs in the kernel, are configured to watch.               *)
(***************************************************************************)
CONSTANTS
  Programs,       \* names of programs
  WatchedPrograms \* sched_process_whitelist
=============================================================================
