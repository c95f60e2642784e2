---------------------------- MODULE MCCapacity ----------------------------
(* Two missions share the workspace `shop` with one slot and two workers;   *)
(* a third mission of the workspace `lab` works on the same target.         *)
EXTENDS CapacityProperties

CONSTANTS shop, lab, first, second, third, draft, ship, urgent, probe,
          worker1, worker2, worker3, desk, site

MCWorkspaces == {shop, lab}
MCRuns == {first, second, third}
MCSteps == {draft, ship, urgent, probe}
MCWorkers == {worker1, worker2, worker3}
MCTargets == {desk, site}
MCOf == [x \in MCRuns \cup MCWorkers |-> IF x \in {third, worker3} THEN lab ELSE shop]
MCRunOf == [s \in MCSteps |-> CASE s = urgent -> second [] s = probe -> third
                                [] OTHER -> first]
MCDependsOn == [s \in MCSteps |-> IF s = ship THEN {draft} ELSE {}]
MCLocal == {draft}
MCRank == [s \in MCSteps |-> IF s = urgent THEN 0 ELSE 1]
MCOwn == [s \in MCSteps |-> IF s = urgent THEN worker1 ELSE NoWorker]
MCTargetOf == [s \in MCSteps |-> IF s = urgent THEN desk ELSE site]
MCGlobalMax == [w \in MCWorkspaces |-> 2]
MCWorkspaceMax == [w \in MCWorkspaces |-> 1]
==========================================================================
