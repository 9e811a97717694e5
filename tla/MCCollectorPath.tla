-------------------------- MODULE MCCollectorPath --------------------------
(***************************************************************************)
(* The rules of a collector and the ring it pushes their events into, for  *)
(* TLC.  They share no state (Alerting composes what the push loses), so   *)
(* each is explored with the other at rest.                                *)
(*                                                                         *)
(* The rules share nothing but the pruning of old contexts, so each group  *)
(* is explored by itself, and cpu together with process, whose samples     *)
(* prune each other's contexts.  The ring is small enough to wrap and to   *)
(* fill, with one slot kept for Critical events.                           *)
(***************************************************************************)
EXTENDS RuleEngine, SpscQueue

VARIABLE path  \* "rules" or "ring": which is explored

pathVars == <<path, vars, ringVars>>

\* The scheduler rule is slow to raise and quick to recover.
MCWindows == [r \in Rules |->
                [warning  |-> IF r = "sched" THEN 3 ELSE 2,
                 critical |-> 2,
                 recovery |-> IF r = "sched" THEN 1 ELSE 2]]

MCConfigs == {{"memory"}, {"self_protection"}, {"sched"}, {"io"},
              {"cpu", "process"}}

---------------------------------------------------------------------------
PathInit ==
  /\ path \in {"rules", "ring"}
  /\ Init
  /\ path = "ring" => config = {"memory"}
  /\ RingInit

PathNext ==
  \/ path = "rules" /\ Next /\ UNCHANGED <<path, ringVars>>
  \/ path = "ring" /\ RingNext /\ UNCHANGED <<path, vars>>

PathSpec == PathInit /\ [][PathNext]_pathVars
=============================================================================
