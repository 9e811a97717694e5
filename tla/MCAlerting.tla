----------------------------- MODULE MCAlerting -----------------------------
(***************************************************************************)
(* Alerting for TLC: the memory rule and the process rule of the fast      *)
(* collector share one queue.                                              *)
(***************************************************************************)
EXTENDS Alerting

MCWindows == [r \in Rules |->
                [warning |-> 1, critical |-> 1, recovery |-> 1]]

MCConfigs == {{"memory", "process"}}
=============================================================================
