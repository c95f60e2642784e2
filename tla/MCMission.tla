---------------------------- MODULE MCMission ----------------------------
(* A draft is submitted to the target and notes are made locally; the      *)
(* publication of both needs the same target and ends the mission.         *)
EXTENDS MissionProperties

CONSTANTS draft, notes, publish, worker1, worker2, target

MCSteps == {draft, notes, publish}
MCLocal == {notes}
MCDependsOn == [s \in MCSteps |-> IF s = publish THEN {draft, notes} ELSE {}]
MCAttempts == [s \in MCSteps |-> IF s = publish THEN 1 ELSE 2]
MCTerminal == {publish}
MCResources == {worker1, worker2, target}
MCNeeds == [s \in MCSteps |->
    CASE s = draft -> {worker1, target}
      [] s = publish -> {worker2, target}
      [] s = notes -> {}]
==========================================================================
