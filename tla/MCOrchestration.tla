--------------------------- MODULE MCOrchestration ---------------------------
(* Small instances of Orchestration: three trigger calls, one repository.   *)
EXTENDS Orchestration
CONSTANTS t1, t2, t3, r1
MCTriggers == {t1, t2, t3}
MCRepos == {r1}
MCTarget == [t \in MCTriggers |-> r1]
MCCachedHead == [r \in MCRepos |-> 1]
MixedKinds == [t \in MCTriggers |-> CASE t = t1 -> "manual" [] t = t2 -> "webhook" [] OTHER -> "scheduled"]
=============================================================================
