---------------------------- MODULE MCRuleEngine ----------------------------
(***************************************************************************)
(* RuleEngine for TLC.  The rules share nothing but the pruning of old     *)
(* contexts, so each group is explored by itself, and cpu together with    *)
(* process, whose samples prune each other's contexts.                     *)
(***************************************************************************)
EXTENDS RuleEngine

\* The scheduler rule is slow to raise and quick to recover.
MCWindows == [r \in Rules |->
                [warning  |-> IF r = "sched" THEN 3 ELSE 2,
                 critical |-> 2,
                 recovery |-> IF r = "sched" THEN 1 ELSE 2]]

MCConfigs == {{"memory"}, {"self_protection"}, {"sched"}, {"io"},
              {"cpu", "process"}}
=============================================================================
