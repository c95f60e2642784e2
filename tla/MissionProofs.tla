-------------------------- MODULE MissionProofs --------------------------
(***************************************************************************)
(* Proofs about the S2 orchestrator, for any plan, any resources, any      *)
(* number of attempts of each step and any number of crashes: the          *)
(* inductive invariant MissionInv, the three invariants that follow, and   *)
(* the refinement of SupervisedExecution.                                  *)
(***************************************************************************)
EXTENDS MissionProperties, TLAPS

--------------------------------------------------------------------------
(* Attempts *)

\* An attempt is a step and a number; the following one is of the same step.
LEMMA AttemptParts ==
    /\ \A a \in Attempts : a[1] \in Steps /\ a[2] \in Nat /\ a[2] >= 1
    /\ \A s \in Steps : \A n \in Numbers(s) :
          <<s, n>> \in Attempts /\ <<s, n>>[1] = s /\ <<s, n>>[2] = n
    /\ \A s \in Steps : <<s, 1>> \in Attempts /\ <<s, 1>>[1] = s /\ <<s, 1>>[2] = 1
    /\ \A a \in Attempts : a[2] \in Numbers(a[1]) /\ a = <<a[1], a[2]>>
    /\ \A a \in Attempts : a[2] < MaxAttempts[a[1]] =>
          /\ Following(a) \in Attempts
          /\ Following(a)[1] = a[1] /\ Following(a)[2] = a[2] + 1
BY MissionAssumption DEF Attempts, Numbers, Following

--------------------------------------------------------------------------
(* Types *)

\* Every record of a mission stays in its range.
LEMMA TypeStep ==
    ASSUME TypeOK, CommandInv, [Next]_vars PROVE TypeOK'
<1> USE MissionAssumption DEF TypeOK, MissionState, AttemptState, RunState,
    Step, projections, kernel, control, ghosts
<1>1. CASE StartMission
  BY <1>1 DEF StartMission, Idle, Goto
<1>2. CASE PauseMission
  BY <1>2 DEF PauseMission, Idle
<1>3. CASE ResumeMission
  BY <1>3 DEF ResumeMission, Idle, Goto
<1>4. CASE CancelMission
  BY <1>4 DEF CancelMission, Idle, Goto
<1>5. ASSUME NEW a \in Attempts, ApproveGate(a) PROVE TypeOK'
  BY <1>5 DEF ApproveGate, Idle, Set
<1>6. ASSUME NEW a \in Attempts, ApproveRefused(a) PROVE TypeOK'
  BY <1>6 DEF ApproveRefused, Idle, Goto
<1>7. ASSUME NEW a \in Attempts, ApproveObserved(a) PROVE TypeOK'
  BY <1>7 DEF ApproveObserved, Idle, Goto
<1>8. ASSUME NEW a \in Attempts, RejectGate(a) PROVE TypeOK'
  BY <1>8 DEF RejectGate, Idle, Goto, Set
<1>9. ASSUME NEW a \in Attempts, ReviewAttempt(a) PROVE TypeOK'
  BY <1>9 DEF ReviewAttempt, Idle, Goto, Set, Reviewable
<1>10. CASE EndEvaluation
  BY <1>10 DEF EndEvaluation, Done, Goto
<1>11. CASE CancelRun
  BY <1>11 DEF CancelRun, Done, Goto
<1>12. CASE RecoverRun
  BY <1>12 DEF RecoverRun, Done, Goto
<1>13. ASSUME NEW s \in Steps, CreateAttempt(s) PROVE TypeOK'
  <2>1. PICK b \in Attempts : b = <<s, 1>> /\ b[1] = s /\ b[2] = 1
    <3>1. <<s, 1>> \in Attempts /\ <<s, 1>>[1] = s /\ <<s, 1>>[2] = 1
      BY AttemptParts
    <3>2. QED BY <3>1
  <2>2. QED BY <1>13, <2>1 DEF CreateAttempt, Goto, Set
<1>14. ASSUME NEW a \in Attempts, ScheduleBlocked(a) PROVE TypeOK'
  BY <1>14 DEF ScheduleBlocked, At, Goto, Set
<1>15. ASSUME NEW a \in Attempts, ScheduleFound(a) PROVE TypeOK'
  BY <1>15 DEF ScheduleFound, At, Goto
<1>16. ASSUME NEW a \in Attempts, ScheduleReserved(a) PROVE TypeOK'
  BY <1>16 DEF ScheduleReserved, At, Goto, Set
<1>17. ASSUME NEW a \in Attempts, ScheduleAsked(a) PROVE TypeOK'
  BY <1>17 DEF ScheduleAsked, At, Goto, Set
<1>18. ASSUME NEW a \in Attempts, LinkAttempt(a) PROVE TypeOK'
  BY <1>18 DEF LinkAttempt, At, Goto, Set
<1>19. ASSUME NEW a \in Attempts, StartLocal(a) PROVE TypeOK'
  BY <1>19 DEF StartLocal, At, Goto, Set
<1>20. ASSUME NEW a \in Attempts, ObserveResult(a) PROVE TypeOK'
  BY <1>20 DEF ObserveResult, At, Done, Goto, Set
<1>21. ASSUME NEW a \in Attempts, RecordOutputs(a) PROVE TypeOK'
  BY <1>21 DEF RecordOutputs, At, Goto
<1>22. ASSUME NEW a \in Attempts, CompleteAttempt(a) PROVE TypeOK'
  BY <1>22 DEF CompleteAttempt, At, Goto, Set
<1>23. ASSUME NEW a \in Attempts, RecordHandoffs(a) PROVE TypeOK'
  BY <1>23 DEF RecordHandoffs, At, Goto
<1>24. ASSUME NEW a \in Attempts, Contain(a) PROVE TypeOK'
  BY <1>24 DEF Contain, At, Done, Goto, Set
<1>25. ASSUME NEW a \in Attempts, ContainRun(a) PROVE TypeOK'
  BY <1>25 DEF ContainRun, At, Done, Goto
<1>26. ASSUME NEW a \in Attempts, RejectRun(a) PROVE TypeOK'
  BY <1>26 DEF RejectRun, At, Goto, Set
<1>27. ASSUME NEW a \in Attempts, CancelAttempt(a) PROVE TypeOK'
  BY <1>27 DEF CancelAttempt, At, Done, Goto, Set
<1>28. ASSUME NEW a \in Attempts, CancelGate(a) PROVE TypeOK'
  BY <1>28 DEF CancelGate, Goto, Set
<1>29. ASSUME NEW a \in Attempts, CancelStep(a) PROVE TypeOK'
  BY <1>29 DEF CancelStep, At, Goto, Set
<1>30. ASSUME NEW a \in Attempts, RetryRun(a) PROVE TypeOK'
  BY <1>30 DEF RetryRun, At, Done, Goto
<1>31. ASSUME NEW a \in Attempts, RetryAttempt(a) PROVE TypeOK'
  <2>1. PICK b \in Attempts : b = Following(a) /\ b[1] = a[1] /\ b[2] = a[2] + 1
    BY <1>31, AttemptParts DEF CommandInv, Retrying, RetryAttempt, At
  <2>2. QED BY <1>31, <2>1 DEF RetryAttempt, At, Goto, Set
<1>32. ASSUME NEW a \in Attempts, RecoverAttempt(a) PROVE TypeOK'
  BY <1>32 DEF RecoverAttempt, Goto, Set
<1>33. ASSUME NEW a \in Attempts, Submit(a) PROVE TypeOK'
  BY <1>33 DEF Submit, Set
<1>34. ASSUME NEW a \in Attempts, ResultObserved(a) PROVE TypeOK'
  BY <1>34 DEF ResultObserved, Settled, Idle, Done, Goto, Set
<1>35. ASSUME NEW a \in Attempts, ExecutionFails(a) PROVE TypeOK'
  BY <1>35 DEF ExecutionFails, Settled, Idle, Done, Goto, Set
<1>36. CASE Crash
  BY <1>36 DEF Crash, Done, Goto
<1>37. CASE UNCHANGED vars
  BY <1>37 DEF vars
<1>38. QED
  BY <1>1, <1>2, <1>3, <1>4, <1>5, <1>6, <1>7, <1>8, <1>9, <1>10, <1>11,
     <1>12, <1>13, <1>14, <1>15, <1>16, <1>17, <1>18, <1>19, <1>20, <1>21,
     <1>22, <1>23, <1>24, <1>25, <1>26, <1>27, <1>28, <1>29, <1>30, <1>31,
     <1>32, <1>33, <1>34, <1>35, <1>36, <1>37
  DEF Next, Operator, Continue, Execution

--------------------------------------------------------------------------
(* The command in progress *)

\* The command in progress finds what it left at its last save.
LEMMA CommandStep ==
    ASSUME TypeOK, CommandInv, KernelInv, PlanInv, [Next]_vars PROVE CommandInv'
<1> USE MissionAssumption DEF TypeOK, KernelInv, CommandInv, Replaceable,
    Scheduling, Completing, Rejecting, Retrying, projections, kernel,
    control, ghosts
<1>1. CASE StartMission
  BY <1>1 DEF StartMission, Idle, Goto
<1>2. CASE PauseMission
  BY <1>2 DEF PauseMission, Idle
<1>3. CASE ResumeMission
  BY <1>3 DEF ResumeMission, Idle, Goto
<1>4. CASE CancelMission
  BY <1>4 DEF CancelMission, Idle, Goto
<1>5. ASSUME NEW a \in Attempts, ApproveGate(a) PROVE CommandInv'
  BY <1>5 DEF ApproveGate, Idle, Set
<1>6. ASSUME NEW a \in Attempts, ApproveRefused(a) PROVE CommandInv'
  BY <1>6 DEF ApproveRefused, Idle, Goto
<1>7. ASSUME NEW a \in Attempts, ApproveObserved(a) PROVE CommandInv'
  BY <1>7 DEF ApproveObserved, Idle, Goto
<1>8. ASSUME NEW a \in Attempts, RejectGate(a) PROVE CommandInv'
  BY <1>8 DEF RejectGate, Idle, Goto, Set
<1>9. ASSUME NEW a \in Attempts, ReviewAttempt(a) PROVE CommandInv'
  BY <1>9 DEF ReviewAttempt, Idle, Goto, Set, Reviewable
<1>10. CASE EndEvaluation
  BY <1>10 DEF EndEvaluation, Done, Goto
<1>11. CASE CancelRun
  BY <1>11 DEF CancelRun, Done, Goto
<1>12. CASE RecoverRun
  BY <1>12 DEF RecoverRun, Done, Goto
<1>13. ASSUME NEW s \in Steps, CreateAttempt(s) PROVE CommandInv'
  <2>1. PICK b \in Attempts : b = <<s, 1>> /\ b[1] = s /\ b[2] = 1
    <3>1. <<s, 1>> \in Attempts /\ <<s, 1>>[1] = s /\ <<s, 1>>[2] = 1
      BY AttemptParts
    <3>2. QED BY <3>1
  <2>2. QED BY <1>13, <2>1 DEF External, CreateAttempt, Goto, Set
<1>14. ASSUME NEW a \in Attempts, ScheduleBlocked(a) PROVE CommandInv'
  BY <1>14 DEF ScheduleBlocked, At, Goto, Set
<1>15. ASSUME NEW a \in Attempts, ScheduleFound(a) PROVE CommandInv'
  BY <1>15 DEF ScheduleFound, At, Goto
<1>16. ASSUME NEW a \in Attempts, ScheduleReserved(a) PROVE CommandInv'
  BY <1>16 DEF ScheduleReserved, At, Goto, Set
<1>17. ASSUME NEW a \in Attempts, ScheduleAsked(a) PROVE CommandInv'
  BY <1>17 DEF ScheduleAsked, At, Goto, Set
<1>18. ASSUME NEW a \in Attempts, LinkAttempt(a) PROVE CommandInv'
  BY <1>18 DEF LinkAttempt, At, Goto, Set
<1>19. ASSUME NEW a \in Attempts, StartLocal(a) PROVE CommandInv'
  BY <1>19 DEF StartLocal, At, Goto, Set
<1>20. ASSUME NEW a \in Attempts, ObserveResult(a) PROVE CommandInv'
  BY <1>20 DEF ObserveResult, At, Done, Goto, Set
<1>21. ASSUME NEW a \in Attempts, RecordOutputs(a) PROVE CommandInv'
  BY <1>21 DEF RecordOutputs, At, Goto
<1>22. ASSUME NEW a \in Attempts, CompleteAttempt(a) PROVE CommandInv'
  BY <1>22 DEF CompleteAttempt, At, Goto, Set
<1>23. ASSUME NEW a \in Attempts, RecordHandoffs(a) PROVE CommandInv'
  BY <1>23 DEF RecordHandoffs, At, Goto
<1>24. ASSUME NEW a \in Attempts, Contain(a) PROVE CommandInv'
  BY <1>24 DEF Contain, At, Done, Goto, Set
<1>25. ASSUME NEW a \in Attempts, ContainRun(a) PROVE CommandInv'
  BY <1>25 DEF ContainRun, At, Done, Goto
<1>26. ASSUME NEW a \in Attempts, RejectRun(a) PROVE CommandInv'
  BY <1>26 DEF RejectRun, At, Goto, Set
<1>27. ASSUME NEW a \in Attempts, CancelAttempt(a) PROVE CommandInv'
  BY <1>27 DEF CancelAttempt, At, Done, Goto, Set
<1>28. ASSUME NEW a \in Attempts, CancelGate(a) PROVE CommandInv'
  BY <1>28 DEF CancelGate, Goto, Set
<1>29. ASSUME NEW a \in Attempts, CancelStep(a) PROVE CommandInv'
  BY <1>29 DEF CancelStep, At, Goto, Set
<1>30. ASSUME NEW a \in Attempts, RetryRun(a) PROVE CommandInv'
  BY <1>30 DEF RetryRun, At, Done, Goto
<1>31. ASSUME NEW a \in Attempts, RetryAttempt(a) PROVE CommandInv'
  <2>1. PICK b \in Attempts : b = Following(a) /\ b[1] = a[1] /\ b[2] = a[2] + 1
    BY <1>31, AttemptParts DEF CommandInv, Retrying, RetryAttempt, At
  <2>2. QED BY <1>31, <2>1 DEF External, RetryAttempt, At, Goto, Set
<1>32. ASSUME NEW a \in Attempts, RecoverAttempt(a) PROVE CommandInv'
  BY <1>32 DEF RecoverAttempt, Goto, Set
<1>33. ASSUME NEW a \in Attempts, Submit(a) PROVE CommandInv'
  BY <1>33 DEF Submit, Set
<1>34. ASSUME NEW a \in Attempts, ResultObserved(a) PROVE CommandInv'
  BY <1>34 DEF ResultObserved, Settled, Idle, Done, Goto, Set
<1>35. ASSUME NEW a \in Attempts, ExecutionFails(a) PROVE CommandInv'
  BY <1>35 DEF ExecutionFails, Settled, Idle, Done, Goto, Set
<1>36. CASE Crash
  BY <1>36 DEF Crash, Done, Goto
<1>37. CASE UNCHANGED vars
  BY <1>37 DEF vars
<1>38. QED
  BY <1>1, <1>2, <1>3, <1>4, <1>5, <1>6, <1>7, <1>8, <1>9, <1>10, <1>11,
     <1>12, <1>13, <1>14, <1>15, <1>16, <1>17, <1>18, <1>19, <1>20, <1>21,
     <1>22, <1>23, <1>24, <1>25, <1>26, <1>27, <1>28, <1>29, <1>30, <1>31,
     <1>32, <1>33, <1>34, <1>35, <1>36, <1>37
  DEF Next, Operator, Continue, Execution

--------------------------------------------------------------------------
(* The executions *)

\* Gate, call and effects of an execution go together.
LEMMA KernelStep ==
    ASSUME TypeOK, CommandInv, KernelInv, [Next]_vars PROVE KernelInv'
<1> USE MissionAssumption DEF TypeOK, KernelInv, projections, kernel,
    control, ghosts
<1>1. CASE StartMission
  BY <1>1 DEF StartMission, Idle, Goto
<1>2. CASE PauseMission
  BY <1>2 DEF PauseMission, Idle
<1>3. CASE ResumeMission
  BY <1>3 DEF ResumeMission, Idle, Goto
<1>4. CASE CancelMission
  BY <1>4 DEF CancelMission, Idle, Goto
<1>5. ASSUME NEW a \in Attempts, ApproveGate(a) PROVE KernelInv'
  BY <1>5 DEF ApproveGate, Idle, Set
<1>6. ASSUME NEW a \in Attempts, ApproveRefused(a) PROVE KernelInv'
  BY <1>6 DEF ApproveRefused, Idle, Goto
<1>7. ASSUME NEW a \in Attempts, ApproveObserved(a) PROVE KernelInv'
  BY <1>7 DEF ApproveObserved, Idle, Goto
<1>8. ASSUME NEW a \in Attempts, RejectGate(a) PROVE KernelInv'
  BY <1>8 DEF RejectGate, Idle, Goto, Set
<1>9. ASSUME NEW a \in Attempts, ReviewAttempt(a) PROVE KernelInv'
  BY <1>9 DEF ReviewAttempt, Idle, Goto, Set, Reviewable
<1>10. CASE EndEvaluation
  BY <1>10 DEF EndEvaluation, Done, Goto
<1>11. CASE CancelRun
  BY <1>11 DEF CancelRun, Done, Goto
<1>12. CASE RecoverRun
  BY <1>12 DEF RecoverRun, Done, Goto
<1>13. ASSUME NEW s \in Steps, CreateAttempt(s) PROVE KernelInv'
  <2>1. PICK b \in Attempts : b = <<s, 1>> /\ b[1] = s /\ b[2] = 1
    <3>1. <<s, 1>> \in Attempts /\ <<s, 1>>[1] = s /\ <<s, 1>>[2] = 1
      BY AttemptParts
    <3>2. QED BY <3>1
  <2>2. QED BY <1>13, <2>1 DEF CreateAttempt, Goto, Set
<1>14. ASSUME NEW a \in Attempts, ScheduleBlocked(a) PROVE KernelInv'
  BY <1>14 DEF CommandInv, Scheduling, Rejecting, ScheduleBlocked, At, Goto, Set
<1>15. ASSUME NEW a \in Attempts, ScheduleFound(a) PROVE KernelInv'
  BY <1>15 DEF ScheduleFound, At, Goto
<1>16. ASSUME NEW a \in Attempts, ScheduleReserved(a) PROVE KernelInv'
  BY <1>16 DEF CommandInv, Scheduling, Rejecting, ScheduleReserved, At, Goto, Set
<1>17. ASSUME NEW a \in Attempts, ScheduleAsked(a) PROVE KernelInv'
  BY <1>17 DEF CommandInv, Scheduling, Rejecting, ScheduleAsked, At, Goto, Set
<1>18. ASSUME NEW a \in Attempts, LinkAttempt(a) PROVE KernelInv'
  BY <1>18 DEF LinkAttempt, At, Goto, Set
<1>19. ASSUME NEW a \in Attempts, StartLocal(a) PROVE KernelInv'
  BY <1>19 DEF StartLocal, At, Goto, Set
<1>20. ASSUME NEW a \in Attempts, ObserveResult(a) PROVE KernelInv'
  BY <1>20 DEF ObserveResult, At, Done, Goto, Set
<1>21. ASSUME NEW a \in Attempts, RecordOutputs(a) PROVE KernelInv'
  BY <1>21 DEF RecordOutputs, At, Goto
<1>22. ASSUME NEW a \in Attempts, CompleteAttempt(a) PROVE KernelInv'
  BY <1>22 DEF CompleteAttempt, At, Goto, Set
<1>23. ASSUME NEW a \in Attempts, RecordHandoffs(a) PROVE KernelInv'
  BY <1>23 DEF RecordHandoffs, At, Goto
<1>24. ASSUME NEW a \in Attempts, Contain(a) PROVE KernelInv'
  BY <1>24 DEF Contain, At, Done, Goto, Set
<1>25. ASSUME NEW a \in Attempts, ContainRun(a) PROVE KernelInv'
  BY <1>25 DEF ContainRun, At, Done, Goto
<1>26. ASSUME NEW a \in Attempts, RejectRun(a) PROVE KernelInv'
  BY <1>26 DEF CommandInv, Scheduling, Rejecting, RejectRun, At, Goto, Set
<1>27. ASSUME NEW a \in Attempts, CancelAttempt(a) PROVE KernelInv'
  BY <1>27 DEF CancelAttempt, At, Done, Goto, Set
<1>28. ASSUME NEW a \in Attempts, CancelGate(a) PROVE KernelInv'
  BY <1>28 DEF CancelGate, Goto, Set
<1>29. ASSUME NEW a \in Attempts, CancelStep(a) PROVE KernelInv'
  BY <1>29 DEF CancelStep, At, Goto, Set
<1>30. ASSUME NEW a \in Attempts, RetryRun(a) PROVE KernelInv'
  BY <1>30 DEF RetryRun, At, Done, Goto
<1>31. ASSUME NEW a \in Attempts, RetryAttempt(a) PROVE KernelInv'
  <2>1. PICK b \in Attempts : b = Following(a) /\ b[1] = a[1] /\ b[2] = a[2] + 1
    BY <1>31, AttemptParts DEF CommandInv, Retrying, RetryAttempt, At
  <2>2. QED BY <1>31, <2>1 DEF RetryAttempt, At, Goto, Set
<1>32. ASSUME NEW a \in Attempts, RecoverAttempt(a) PROVE KernelInv'
  BY <1>32 DEF RecoverAttempt, Goto, Set
<1>33. ASSUME NEW a \in Attempts, Submit(a) PROVE KernelInv'
  BY <1>33 DEF Submit, Set
<1>34. ASSUME NEW a \in Attempts, ResultObserved(a) PROVE KernelInv'
  BY <1>34 DEF ResultObserved, Settled, Idle, Done, Goto, Set
<1>35. ASSUME NEW a \in Attempts, ExecutionFails(a) PROVE KernelInv'
  BY <1>35 DEF ExecutionFails, Settled, Idle, Done, Goto, Set
<1>36. CASE Crash
  BY <1>36 DEF Crash, Done, Goto
<1>37. CASE UNCHANGED vars
  BY <1>37 DEF vars
<1>38. QED
  BY <1>1, <1>2, <1>3, <1>4, <1>5, <1>6, <1>7, <1>8, <1>9, <1>10, <1>11,
     <1>12, <1>13, <1>14, <1>15, <1>16, <1>17, <1>18, <1>19, <1>20, <1>21,
     <1>22, <1>23, <1>24, <1>25, <1>26, <1>27, <1>28, <1>29, <1>30, <1>31,
     <1>32, <1>33, <1>34, <1>35, <1>36, <1>37
  DEF Next, Operator, Continue, Execution

--------------------------------------------------------------------------
(* The records *)

\* A step that only moves an attempt between states other than "none" and
\* "completed" disturbs nothing that the records say of each other.
LEMMA PlanFrame ==
    ASSUME TypeOK, PlanInv, UNCHANGED <<outputs, xrun, effects, stray, linked>>,
           NEW a \in Attempts, attempt[a] # "none",
           NEW v \in AttemptState \ {"none", "completed"},
           attempt' = attempt \/ attempt' = [attempt EXCEPT ![a] = v]
    PROVE  PlanInv'
<1>1. \A b \in Attempts : attempt'[b] # "none" => attempt[b] # "none"
  BY DEF TypeOK
<1>2. \A b \in Attempts : attempt'[b] = "completed" => attempt[b] = "completed"
  BY DEF TypeOK
<1>3. \A b \in Attempts : attempt[b] # "none" => attempt'[b] # "none"
  BY DEF TypeOK
<1>4. (linked \subseteq {b \in Attempts : attempt[b] # "none"})'
  BY <1>3 DEF PlanInv
<1>5. (\A b, c \in Attempts : Earlier(b, c) /\ attempt[c] # "none" => Replaceable(b))'
  BY <1>1 DEF PlanInv, Earlier, Replaceable, External
<1>6. (\A b \in Attempts : attempt[b] # "none" =>
          \A d \in DependsOn[b[1]] : \E n \in Numbers(d) : <<d, n>> \in outputs)'
  BY <1>1 DEF PlanInv
<1>7. CompletionIsBacked'
  BY <1>2 DEF PlanInv, CompletionIsBacked, External
<1>8. QED BY <1>4, <1>5, <1>6, <1>7 DEF PlanInv

\* The steps that only mark an attempt as contained, cancelled or started.
LEMMA PlanMoves ==
    ASSUME TypeOK, CommandInv, PlanInv, NEW x \in Attempts,
           ObserveResult(x) \/ Contain(x) \/ CancelStep(x) \/ RecoverAttempt(x)
    PROVE  PlanInv'
<1>1. ASSUME NEW a \in Attempts, ObserveResult(a) PROVE PlanInv'
  <2>1. attempt[a] # "none"
    BY <1>1 DEF CommandInv, Completing, Rejecting, ObserveResult, At
  <2>2. UNCHANGED <<outputs, xrun, effects, stray, linked>>
    BY <1>1 DEF ObserveResult, kernel, ghosts
  <2>3. \/ attempt' = attempt
        \/ attempt' = [attempt EXCEPT ![a] = "active"]
    BY <1>1, <2>1 DEF ObserveResult, At, Set
  <2>4. "active" \in AttemptState \ {"none", "completed"}
    BY DEF AttemptState
  <2>5. QED BY <2>1, <2>2, <2>3, <2>4, PlanFrame
<1>2. ASSUME NEW a \in Attempts, Contain(a) PROVE PlanInv'
  <2>1. attempt[a] # "none"
    BY <1>2 DEF CommandInv, Completing, Rejecting, Contain, At
  <2>2. UNCHANGED <<outputs, xrun, effects, stray, linked>>
    BY <1>2 DEF Contain, kernel, ghosts
  <2>3. \/ attempt' = attempt
        \/ attempt' = [attempt EXCEPT ![a] = "recovery_required"]
    BY <1>2, <2>1 DEF Contain, At, Set
  <2>4. "recovery_required" \in AttemptState \ {"none", "completed"}
    BY DEF AttemptState
  <2>5. QED BY <2>1, <2>2, <2>3, <2>4, PlanFrame
<1>3. ASSUME NEW a \in Attempts, CancelStep(a) PROVE PlanInv'
  <2>1. attempt[a] # "none"
    BY <1>3 DEF CommandInv, Completing, Rejecting, CancelStep, At
  <2>2. UNCHANGED <<outputs, xrun, effects, stray, linked>>
    BY <1>3 DEF CancelStep, kernel, ghosts
  <2>3. \/ attempt' = attempt
        \/ attempt' = [attempt EXCEPT ![a] = "recovery_required"]
        \/ attempt' = [attempt EXCEPT ![a] = "cancelled"]
    BY <1>3, <2>1 DEF CancelStep, At, Set
  <2>4. "recovery_required" \in AttemptState \ {"none", "completed"}
    BY DEF AttemptState
  <2>5. "cancelled" \in AttemptState \ {"none", "completed"}
    BY DEF AttemptState
  <2>6. QED BY <2>1, <2>2, <2>3, <2>4, <2>5, PlanFrame
<1>4. ASSUME NEW a \in Attempts, RecoverAttempt(a) PROVE PlanInv'
  <2>1. attempt[a] # "none"
    BY <1>4 DEF CommandInv, Completing, Rejecting, RecoverAttempt, At
  <2>2. UNCHANGED <<outputs, xrun, effects, stray, linked>>
    BY <1>4 DEF RecoverAttempt, kernel, ghosts
  <2>3. \/ attempt' = attempt
        \/ attempt' = [attempt EXCEPT ![a] = "recovery_required"]
    BY <1>4, <2>1 DEF RecoverAttempt, At, Set
  <2>4. "recovery_required" \in AttemptState \ {"none", "completed"}
    BY DEF AttemptState
  <2>5. QED BY <2>1, <2>2, <2>3, <2>4, PlanFrame
<1>5. QED BY <1>1, <1>2, <1>3, <1>4

\* The records of the attempts follow the plan.
LEMMA PlanStep ==
    ASSUME TypeOK, CommandInv, KernelInv, PlanInv, [Next]_vars PROVE PlanInv'
<1> USE MissionAssumption DEF TypeOK, CommandInv, PlanInv,
    CompletionIsBacked, Earlier, Replaceable, Scheduling, Completing,
    Rejecting, Retrying, External, projections, kernel, control, ghosts
<1>1. CASE StartMission
  BY <1>1 DEF StartMission, Idle, Goto
<1>2. CASE PauseMission
  BY <1>2 DEF PauseMission, Idle
<1>3. CASE ResumeMission
  BY <1>3 DEF ResumeMission, Idle, Goto
<1>4. CASE CancelMission
  BY <1>4 DEF CancelMission, Idle, Goto
<1>5. ASSUME NEW a \in Attempts, ApproveGate(a) PROVE PlanInv'
  BY <1>5 DEF KernelInv, ApproveGate, Idle, Set
<1>6. ASSUME NEW a \in Attempts, ApproveRefused(a) PROVE PlanInv'
  BY <1>6 DEF ApproveRefused, Idle, Goto
<1>7. ASSUME NEW a \in Attempts, ApproveObserved(a) PROVE PlanInv'
  BY <1>7 DEF ApproveObserved, Idle, Goto
<1>8. ASSUME NEW a \in Attempts, RejectGate(a) PROVE PlanInv'
  BY <1>8 DEF RejectGate, Idle, Goto, Set
<1>9. ASSUME NEW a \in Attempts, ReviewAttempt(a) PROVE PlanInv'
  BY <1>9 DEF ReviewAttempt, Idle, Goto, Set, Reviewable
<1>10. CASE EndEvaluation
  BY <1>10 DEF EndEvaluation, Done, Goto
<1>11. CASE CancelRun
  BY <1>11 DEF CancelRun, Done, Goto
<1>12. CASE RecoverRun
  BY <1>12 DEF RecoverRun, Done, Goto
<1>13. ASSUME NEW s \in Steps, CreateAttempt(s) PROVE PlanInv'
  <2>1. PICK b \in Attempts : b = <<s, 1>> /\ b[1] = s /\ b[2] = 1
    <3>1. <<s, 1>> \in Attempts /\ <<s, 1>>[1] = s /\ <<s, 1>>[2] = 1
      BY AttemptParts
    <3>2. QED BY <3>1
  <2>2. /\ attempt' = [attempt EXCEPT ![b] = "ready"]
        /\ UNCHANGED <<outputs, xrun, effects, stray, linked>>
    BY <1>13, <2>1 DEF CreateAttempt, Set
  <2>3. \A d \in DependsOn[s] : \E n \in Numbers(d) : <<d, n>> \in outputs
    <3>1. \A d \in DependsOn[s] : \E n \in Numbers(d) : attempt[<<d, n>>] = "completed"
      BY <1>13 DEF CreateAttempt, Ready, Completed
    <3>2. QED BY <3>1, AttemptParts
  <2>4. \A c \in Attempts : ~Earlier(c, b)
    BY <2>1, AttemptParts
  <2>5. CompletionIsBacked'
    BY <2>2
  <2>6. (linked \subseteq {c \in Attempts : attempt[c] # "none"})'
    BY <2>2
  <2>7. (\A c, e \in Attempts : Earlier(c, e) /\ attempt[e] # "none" => Replaceable(c))'
    BY <2>1, <2>2, <2>4
  <2>8. (\A c \in Attempts : attempt[c] # "none" =>
            \A d \in DependsOn[c[1]] : \E n \in Numbers(d) : <<d, n>> \in outputs)'
    BY <2>1, <2>2, <2>3
  <2>9. QED BY <2>5, <2>6, <2>7, <2>8
<1>14. ASSUME NEW a \in Attempts, ScheduleBlocked(a) PROVE PlanInv'
  BY <1>14 DEF KernelInv, ScheduleBlocked, At, Goto, Set
<1>15. ASSUME NEW a \in Attempts, ScheduleFound(a) PROVE PlanInv'
  BY <1>15 DEF ScheduleFound, At, Goto
<1>16. ASSUME NEW a \in Attempts, ScheduleReserved(a) PROVE PlanInv'
  BY <1>16 DEF KernelInv, ScheduleReserved, At, Goto, Set
<1>17. ASSUME NEW a \in Attempts, ScheduleAsked(a) PROVE PlanInv'
  BY <1>17 DEF ScheduleAsked, At, Goto, Set
<1>18. ASSUME NEW a \in Attempts, LinkAttempt(a) PROVE PlanInv'
  BY <1>18 DEF LinkAttempt, At, Goto, Set
<1>19. ASSUME NEW a \in Attempts, StartLocal(a) PROVE PlanInv'
  BY <1>19 DEF StartLocal, At, Goto, Set
<1>20. ASSUME NEW a \in Attempts, ObserveResult(a) PROVE PlanInv'
  BY <1>20, PlanMoves
<1>21. ASSUME NEW a \in Attempts, RecordOutputs(a) PROVE PlanInv'
  BY <1>21 DEF RecordOutputs, At, Goto
<1>22. ASSUME NEW a \in Attempts, CompleteAttempt(a) PROVE PlanInv'
  BY <1>22 DEF KernelInv, CompleteAttempt, At, Goto, Set
<1>23. ASSUME NEW a \in Attempts, RecordHandoffs(a) PROVE PlanInv'
  BY <1>23 DEF RecordHandoffs, At, Goto
<1>24. ASSUME NEW a \in Attempts, Contain(a) PROVE PlanInv'
  BY <1>24, PlanMoves
<1>25. ASSUME NEW a \in Attempts, ContainRun(a) PROVE PlanInv'
  BY <1>25 DEF ContainRun, At, Done, Goto
<1>26. ASSUME NEW a \in Attempts, RejectRun(a) PROVE PlanInv'
  BY <1>26 DEF KernelInv, RejectRun, At, Goto, Set
<1>27. ASSUME NEW a \in Attempts, CancelAttempt(a) PROVE PlanInv'
  BY <1>27 DEF CancelAttempt, At, Done, Goto, Set
<1>28. ASSUME NEW a \in Attempts, CancelGate(a) PROVE PlanInv'
  BY <1>28 DEF CancelGate, Goto, Set
<1>29. ASSUME NEW a \in Attempts, CancelStep(a) PROVE PlanInv'
  BY <1>29, PlanMoves
<1>30. ASSUME NEW a \in Attempts, RetryRun(a) PROVE PlanInv'
  BY <1>30 DEF RetryRun, At, Done, Goto
<1>31. ASSUME NEW a \in Attempts, RetryAttempt(a) PROVE PlanInv'
  <2>1. PICK b \in Attempts : b = Following(a) /\ b[1] = a[1] /\ b[2] = a[2] + 1
    BY <1>31, AttemptParts DEF RetryAttempt, At
  <2>2. /\ attempt' = [attempt EXCEPT ![b] = "ready"] /\ linked' = linked \ {b}
        /\ UNCHANGED <<outputs, xrun, effects, stray>>
        /\ attempt[a] # "none" /\ Replaceable(a)
    BY <1>31, <2>1 DEF RetryAttempt, At, Set
  <2>3. \A c \in Attempts : Earlier(c, b) => Replaceable(c)
    <3>1. \A c \in Attempts : Earlier(c, b) => c = a \/ Earlier(c, a)
      <4>1. SUFFICES ASSUME NEW c \in Attempts, Earlier(c, b), c # a PROVE Earlier(c, a)
        OBVIOUS
      <4>2. c[2] # a[2]
        BY <4>1, <2>1, AttemptParts
      <4>3. a[2] \in Nat /\ c[2] \in Nat
        BY AttemptParts
      <4>4. c[1] = a[1] /\ c[2] < a[2] + 1
        BY <4>1, <2>1
      <4>5. QED BY <4>2, <4>3, <4>4
    <3>2. QED BY <3>1, <2>2
  <2>4. CompletionIsBacked'
    BY <2>2
  <2>6. (linked \subseteq {c \in Attempts : attempt[c] # "none"})'
    BY <2>2
  <2>7. (\A c, e \in Attempts : Earlier(c, e) /\ attempt[e] # "none" => Replaceable(c))'
    BY <2>1, <2>2, <2>3
  <2>8. (\A c \in Attempts : attempt[c] # "none" =>
            \A d \in DependsOn[c[1]] : \E n \in Numbers(d) : <<d, n>> \in outputs)'
    BY <2>1, <2>2
  <2>9. QED BY <2>4, <2>6, <2>7, <2>8
<1>32. ASSUME NEW a \in Attempts, RecoverAttempt(a) PROVE PlanInv'
  BY <1>32, PlanMoves
<1>33. ASSUME NEW a \in Attempts, Submit(a) PROVE PlanInv'
  <2>1. xrun[a] = "active" /\ attempt[a] # "completed"
    BY <1>33 DEF KernelInv, Submit
  <2>2. QED BY <1>33, <2>1 DEF Submit, Set
<1>34. ASSUME NEW a \in Attempts, ResultObserved(a) PROVE PlanInv'
  BY <1>34 DEF KernelInv, ResultObserved, Settled, Idle, Set
<1>35. ASSUME NEW a \in Attempts, ExecutionFails(a) PROVE PlanInv'
  BY <1>35 DEF KernelInv, ExecutionFails, Settled, Idle, Set
<1>36. CASE Crash
  BY <1>36 DEF Crash, Done, Goto
<1>37. CASE UNCHANGED vars
  BY <1>37 DEF vars
<1>38. QED
  BY <1>1, <1>2, <1>3, <1>4, <1>5, <1>6, <1>7, <1>8, <1>9, <1>10, <1>11,
     <1>12, <1>13, <1>14, <1>15, <1>16, <1>17, <1>18, <1>19, <1>20, <1>21,
     <1>22, <1>23, <1>24, <1>25, <1>26, <1>27, <1>28, <1>29, <1>30, <1>31,
     <1>32, <1>33, <1>34, <1>35, <1>36, <1>37
  DEF Next, Operator, Continue, Execution

--------------------------------------------------------------------------
(* The theorems *)

\* Every reachable state satisfies the inductive invariant.
THEOREM MissionInvariant == Spec => []MissionInv
<1>1. Init => MissionInv
  BY MissionAssumption
  DEF Init, MissionInv, TypeOK, MissionState, AttemptState, RunState, Step, CommandInv,
      KernelInv, PlanInv, CompletionIsBacked, Scheduling, Completing, Rejecting, Retrying
<1>2. MissionInv /\ [Next]_vars => MissionInv'
  BY TypeStep, CommandStep, KernelStep, PlanStep DEF MissionInv
<1>3. QED BY <1>1, <1>2, PTL DEF Spec

\* When a reviewed retry exists, the executions of all earlier attempts of
\* the step are superseded, but for those reviewed before they were known.
THEOREM RetryFollowsContainmentHolds == Spec => []RetryFollowsContainment
<1>1. MissionInv => RetryFollowsContainment
  BY DEF MissionInv, PlanInv, KernelInv, Replaceable, RetryFollowsContainment, Contained,
         TypeOK, RunState
<1>2. QED BY <1>1, MissionInvariant, PTL

\* A completed attempt has its outputs, and an external one exactly one
\* submission, whose result was observed.
THEOREM CompletionIsBackedHolds == Spec => []CompletionIsBacked
<1>1. MissionInv => CompletionIsBacked
  BY DEF MissionInv, PlanInv
<1>2. QED BY <1>1, MissionInvariant, PTL

\* Nothing is submitted for a step before the outputs of its dependencies.
THEOREM EffectsFollowPlanHolds == Spec => []EffectsFollowPlan
<1>1. MissionInv => EffectsFollowPlan
  <2>1. SUFFICES ASSUME MissionInv, NEW s \in Steps, NEW n \in Numbers(s), effects[<<s, n>>] > 0,
                        NEW d \in DependsOn[s]
                 PROVE  \E m \in Numbers(d) : <<d, m>> \in outputs
    BY DEF EffectsFollowPlan
  <2>2. <<s, n>> \in Attempts /\ <<s, n>>[1] = s
    BY AttemptParts
  <2>3. xrun[<<s, n>>] # "none"
    BY <2>1, <2>2 DEF MissionInv, KernelInv
  <2>4. attempt[<<s, n>>] # "none"
    BY <2>1, <2>2, <2>3 DEF MissionInv, KernelInv
  <2>5. QED BY <2>1, <2>2, <2>4 DEF MissionInv, PlanInv
<1>2. QED BY <1>1, MissionInvariant, PTL

\* The orchestrator keeps the kernel's promise: whatever it does with gates, runs and
\* submissions is one step of SupervisedExecution or none.  A gate is decided once,
\* an approved attempt is submitted once while it owns its resources, and they are
\* given up only after the decision.
THEOREM KernelPromiseKeptHolds == Spec => KernelPromiseKept
<1>1. Init => Promise!Init
  BY DEF Init, Promise!Init, Holders
<1>2. TypeOK /\ CommandInv /\ KernelInv /\ [Next]_vars => [Promise!Next]_(Promise!vars)
  <2> SUFFICES ASSUME TypeOK, CommandInv, KernelInv, [Next]_vars
               PROVE  Promise!Next \/ UNCHANGED Promise!vars
    OBVIOUS
  <2> USE DEF TypeOK, Promise!vars, projections, kernel, control, ghosts
  <2>1. ASSUME UNCHANGED <<xrun, gate, effects>> PROVE UNCHANGED Promise!vars
    BY <2>1 DEF Holders
  <2>2. ASSUME NEW a \in Attempts, NEW v \in RunState, xrun' = [xrun EXCEPT ![a] = v],
               v \in {"waiting", "active", "uncertain"}
        PROVE  Holders' = Holders \cup {a}
    BY <2>2 DEF Holders
  <2>3. ASSUME NEW a \in Attempts, NEW v \in RunState, xrun' = [xrun EXCEPT ![a] = v],
               v \notin {"waiting", "active", "uncertain"}
        PROVE  Holders' = Holders \ {a}
    BY <2>3 DEF Holders
  <2>4. ASSUME NEW a \in Attempts, ApproveGate(a) PROVE Promise!Next \/ UNCHANGED Promise!vars
    <3>1. xrun' = [xrun EXCEPT ![a] = "active"] /\ a \in Holders
      BY <2>4 DEF ApproveGate, Set, Holders
    <3>2. Holders' = Holders
      BY <2>2, <3>1 DEF RunState
    <3>3. CASE gate[a] = "requested"
      <4>1. Promise!Decide(a)
        BY <2>4, <3>2, <3>3 DEF ApproveGate, Set, Promise!Decide
      <4>2. QED BY <4>1 DEF Promise!Next
    <3>4. CASE gate[a] = "approved"
      BY <2>4, <3>2, <3>4 DEF ApproveGate, Set
    <3>5. QED BY <2>4, <3>3, <3>4 DEF ApproveGate
  <2>5. ASSUME NEW a \in Attempts, RejectGate(a) \/ CancelGate(a)
        PROVE  Promise!Next \/ UNCHANGED Promise!vars
    <3>1. /\ gate' = [gate EXCEPT ![a] = "rejected"] /\ gate[a] \in {"requested", "rejected"}
          /\ UNCHANGED <<xrun, effects>>
      BY <2>5 DEF RejectGate, CancelGate, Set
    <3>2. Holders' = Holders
      BY <3>1 DEF Holders
    <3>3. CASE gate[a] = "requested"
      <4>1. Promise!Decide(a)
        BY <3>1, <3>2, <3>3 DEF Promise!Decide
      <4>2. QED BY <4>1 DEF Promise!Next
    <3>4. CASE gate[a] = "rejected"
      BY <3>1, <3>2, <3>4
    <3>5. QED BY <3>1, <3>3, <3>4
  <2>6. ASSUME NEW a \in Attempts, ScheduleReserved(a) PROVE Promise!Next \/ UNCHANGED Promise!vars
    <3>1. xrun[a] = "none" /\ xrun' = [xrun EXCEPT ![a] = "waiting"] /\ ~Conflict(a)
          /\ UNCHANGED <<gate, effects>>
      BY <2>6 DEF ScheduleReserved, Set
    <3>2. a \notin Holders /\ gate[a] = "none"
      BY <3>1 DEF Holders, KernelInv
    <3>3. Holders' = Holders \cup {a}
      BY <2>2, <3>1 DEF RunState
    <3>4. \A u \in Holders : Promise!Disjoint(a, u)
      BY <3>1, <3>2 DEF Conflict, Holders, Promise!Disjoint
    <3>5. Promise!Reserve(a)
      BY <3>1, <3>2, <3>3, <3>4 DEF Promise!Reserve
    <3>6. QED BY <3>5 DEF Promise!Next
  <2>7. ASSUME NEW a \in Attempts, ScheduleAsked(a) PROVE Promise!Next \/ UNCHANGED Promise!vars
    <3>1. /\ xrun[a] = "waiting" /\ gate[a] = "none" /\ gate' = [gate EXCEPT ![a] = "requested"]
          /\ UNCHANGED <<xrun, effects>>
      BY <2>7 DEF ScheduleAsked, At, CommandInv, Set
    <3>2. a \in Holders /\ Holders' = Holders
      BY <3>1 DEF Holders
    <3>3. Promise!Ask(a)
      BY <3>1, <3>2 DEF Promise!Ask
    <3>4. QED BY <3>3 DEF Promise!Next
  <2>8. ASSUME NEW a \in Attempts, Submit(a) PROVE Promise!Next \/ UNCHANGED Promise!vars
    <3>1. xrun[a] = "active" /\ gate[a] = "approved" /\ effects[a] = 0
      BY <2>8 DEF Submit, KernelInv
    <3>2. effects' = [effects EXCEPT ![a] = 1] /\ UNCHANGED <<xrun, gate>>
      BY <2>8, <3>1 DEF Submit, Set
    <3>3. a \in Holders /\ Holders' = Holders
      BY <3>1, <3>2 DEF Holders
    <3>4. Promise!Perform(a)
      BY <3>1, <3>2, <3>3 DEF Promise!Perform
    <3>5. QED BY <3>4 DEF Promise!Next
  <2>9. ASSUME NEW a \in Attempts, NEW v \in RunState, xrun' = [xrun EXCEPT ![a] = v],
               v \notin {"waiting", "active", "uncertain"}, UNCHANGED <<gate, effects>>,
               a \in Holders => gate[a] \in {"approved", "rejected"}
        PROVE  Promise!Next \/ UNCHANGED Promise!vars
    <3>1. Holders' = Holders \ {a}
      BY <2>3, <2>9
    <3>2. CASE a \in Holders
      <4>1. Promise!Release(a)
        BY <2>9, <3>1, <3>2 DEF Promise!Release
      <4>2. QED BY <4>1 DEF Promise!Next
    <3>3. CASE a \notin Holders
      BY <2>9, <3>1, <3>3
    <3>4. QED BY <3>2, <3>3
  <2>10. ASSUME NEW a \in Attempts, ResultObserved(a) PROVE Promise!Next \/ UNCHANGED Promise!vars
    <3>1. xrun' = [xrun EXCEPT ![a] = "observed"] /\ UNCHANGED <<gate, effects>> /\ gate[a] = "approved"
      BY <2>10 DEF ResultObserved, Settled, Set, KernelInv
    <3>2. QED BY <2>9, <3>1 DEF RunState
  <2>11. ASSUME NEW a \in Attempts, RejectRun(a) PROVE Promise!Next \/ UNCHANGED Promise!vars
    <3>1. xrun' = [xrun EXCEPT ![a] = "cancelled"] /\ UNCHANGED <<gate, effects>> /\ gate[a] = "rejected"
      BY <2>11 DEF RejectRun, At, Set, CommandInv
    <3>2. QED BY <2>9, <3>1 DEF RunState
  <2>12. ASSUME NEW a \in Attempts, ReviewAttempt(a) PROVE Promise!Next \/ UNCHANGED Promise!vars
    <3>1. CASE a \in linked
      <4>1. /\ xrun' = [xrun EXCEPT ![a] = "superseded"] /\ UNCHANGED <<gate, effects>>
            /\ a \in Holders => gate[a] = "approved"
        BY <2>12, <3>1 DEF ReviewAttempt, Set, KernelInv, Holders
      <4>2. QED BY <2>9, <4>1 DEF RunState
    <3>2. CASE a \notin linked
      BY <2>1, <2>12, <3>2 DEF ReviewAttempt
    <3>3. QED BY <3>1, <3>2
  <2>13. ASSUME NEW a \in Attempts, ScheduleBlocked(a) PROVE Promise!Next \/ UNCHANGED Promise!vars
    <3>1. xrun' = [xrun EXCEPT ![a] = "blocked"] /\ UNCHANGED <<gate, effects>> /\ a \notin Holders
      BY <2>13 DEF ScheduleBlocked, Set, Holders
    <3>2. QED BY <2>9, <3>1 DEF RunState
  <2>14. ASSUME NEW a \in Attempts, ExecutionFails(a) PROVE UNCHANGED Promise!vars
    <3>1. xrun' = [xrun EXCEPT ![a] = "uncertain"] /\ UNCHANGED <<gate, effects>> /\ a \in Holders
      BY <2>14 DEF ExecutionFails, Settled, Set, Holders, KernelInv
    <3>2. Holders' = Holders
      BY <2>2, <3>1 DEF RunState
    <3>3. QED BY <3>1, <3>2
  <2>15. ASSUME Crash PROVE UNCHANGED Promise!vars
    <3>1. Holders' = Holders
      BY <2>15 DEF Crash, Holders
    <3>2. QED BY <2>15, <3>1 DEF Crash
  <2>16. CASE \/ StartMission \/ PauseMission \/ ResumeMission \/ CancelMission
              \/ EndEvaluation \/ CancelRun \/ RecoverRun \/ UNCHANGED vars
              \/ \E s \in Steps : CreateAttempt(s)
    <3>1. UNCHANGED <<xrun, gate, effects>>
      BY <2>16 DEF StartMission, PauseMission, ResumeMission, CancelMission, EndEvaluation, CancelRun,
                   RecoverRun, CreateAttempt, vars
    <3>2. QED BY <2>1, <3>1
  <2>17. ASSUME NEW a \in Attempts,
                \/ ApproveRefused(a) \/ ApproveObserved(a) \/ ScheduleFound(a) \/ LinkAttempt(a)
                \/ StartLocal(a) \/ ObserveResult(a) \/ RecordOutputs(a) \/ CompleteAttempt(a)
                \/ RecordHandoffs(a) \/ Contain(a) \/ ContainRun(a) \/ CancelAttempt(a) \/ CancelStep(a)
                \/ RetryRun(a) \/ RetryAttempt(a) \/ RecoverAttempt(a)
         PROVE  UNCHANGED Promise!vars
    <3>1. UNCHANGED <<xrun, gate, effects>>
      BY <2>17 DEF ApproveRefused, ApproveObserved, ScheduleFound, LinkAttempt, StartLocal, ObserveResult,
                   RecordOutputs, CompleteAttempt, RecordHandoffs, Contain, ContainRun, CancelAttempt,
                   CancelStep, RetryRun, RetryAttempt, RecoverAttempt
    <3>2. QED BY <2>1, <3>1
  <2>18. QED
    BY <2>4, <2>5, <2>6, <2>7, <2>8, <2>10, <2>11, <2>12, <2>13, <2>14, <2>15, <2>16, <2>17
    DEF Next, Operator, Continue, Execution
<1>3. MissionInv => TypeOK /\ CommandInv /\ KernelInv
  BY DEF MissionInv
<1>4. QED BY <1>1, <1>2, <1>3, MissionInvariant, PTL DEF Spec, KernelPromiseKept, Promise!Spec

--------------------------------------------------------------------------
(* What the promise says of the mission *)

\* Nobody owns a browser profile or a provider surface together with another attempt,
\* and what reached a target was approved by a human and reached it once.
Supervised ==
    /\ gate \in [Attempts -> {"none", "requested", "approved", "rejected"}]
    /\ effects \in [Attempts -> {0, 1}] /\ Holders \subseteq Attempts
    /\ \A a, b \in Holders : a # b => Needs[a[1]] \cap Needs[b[1]] = {}
    /\ \A a \in Attempts : effects[a] = 1 => gate[a] = "approved"

\* The promise alone is enough for that: no step of SupervisedExecution breaks it.
LEMMA PromiseSupervises == Promise!Spec => []Supervised
<1> USE DEF Supervised
<1>1. Promise!Init => Supervised
  BY DEF Promise!Init
<1>2. Supervised /\ [Promise!Next]_(Promise!vars) => Supervised'
  <2> SUFFICES ASSUME Supervised, [Promise!Next]_(Promise!vars) PROVE Supervised'
    OBVIOUS
  <2>1. ASSUME NEW a \in Attempts, Promise!Reserve(a) PROVE Supervised'
    <3>1. /\ Holders' = Holders \cup {a} /\ UNCHANGED <<gate, effects>>
          /\ \A u \in Holders : Promise!Disjoint(a, u)
      BY <2>1 DEF Promise!Reserve
    <3>2. \A u \in Holders : Needs[a[1]] \cap Needs[u[1]] = {}
      BY <3>1 DEF Promise!Disjoint
    <3>3. QED BY <3>1, <3>2
  <2>2. ASSUME NEW a \in Attempts, Promise!Ask(a) \/ Promise!Decide(a) PROVE Supervised'
    <3>1. PICK d \in {"requested", "approved", "rejected"} :
             /\ gate' = [gate EXCEPT ![a] = d] /\ gate[a] \in {"none", "requested"}
             /\ UNCHANGED <<Holders, effects>>
      BY <2>2 DEF Promise!Ask, Promise!Decide
    <3>2. QED BY <3>1
  <2>3. ASSUME NEW a \in Attempts, Promise!Perform(a) PROVE Supervised'
    BY <2>3 DEF Promise!Perform
  <2>4. ASSUME NEW a \in Attempts, Promise!Release(a) PROVE Supervised'
    BY <2>4 DEF Promise!Release
  <2>5. CASE UNCHANGED Promise!vars
    BY <2>5 DEF Promise!vars
  <2>6. QED BY <2>1, <2>2, <2>3, <2>4, <2>5 DEF Promise!Next
<1>3. QED BY <1>1, <1>2, PTL DEF Promise!Spec

\* The mission's executions own their resources alone and submit once, when approved:
\* what holds of the promise holds of the orchestrator that keeps it.
THEOREM MissionIsSupervised == Spec => []Supervised
<1>1. Spec => Promise!Spec
  BY KernelPromiseKeptHolds DEF KernelPromiseKept
<1>2. QED BY <1>1, PromiseSupervises, PTL
==========================================================================
