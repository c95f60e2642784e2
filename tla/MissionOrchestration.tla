---------------------- MODULE MissionOrchestration ----------------------
(***************************************************************************)
(* The S2 mission orchestrator over the S1 execution kernel: one           *)
(* MissionRun, its StepAttempts, the handoffs between them, and for each   *)
(* external attempt the execution the kernel keeps for it.                 *)
(*                                                                         *)
(* As in ExecutionKernel, a command is a chain of saves the process may    *)
(* die between: `at`, `cur` and `back` say which save comes next, for      *)
(* which attempt, and where the chain goes on.  Of the kernel's own chain  *)
(* only the steps SupervisedExecution tells apart are kept.                *)
(***************************************************************************)
EXTENDS Naturals, FiniteSets

CONSTANTS Steps,        \* the steps of the frozen plan
          LocalSteps,   \* those the service executes itself (local:// targets)
          DependsOn,    \* each step's dependencies; every one hands an output over
          Terminal,     \* terminalStepIds
          Resources,
          Needs,        \* the resources an external step's execution owns
          MaxAttempts,  \* bound: attempts of each step
          MaxCrashes    \* bound: how often the process may die

ASSUME MissionAssumption ==
    /\ LocalSteps \subseteq Steps
    /\ DependsOn \in [Steps -> SUBSET Steps]
    /\ Terminal \subseteq Steps
    /\ Needs \in [Steps -> SUBSET Resources]
    /\ MaxAttempts \in [Steps -> Nat \ {0}] /\ MaxCrashes \in Nat

Numbers(s) == 1..MaxAttempts[s]
Attempts == UNION {{s} \X Numbers(s) : s \in Steps}
NoAttempt == <<>>
External(a) == a[1] \notin LocalSteps
Following(a) == <<a[1], a[2] + 1>>
Edges == {e \in Steps \X Steps : e[1] \in DependsOn[e[2]]}

VARIABLES
    \* projections in SQLite
    mission,    \* missionRun.state
    attempt,    \* stepAttempt.state
    reason,     \* attempts that carry a recoveryReason
    linked,     \* attempts saved with the ids of their execution run and gate
    outputs,    \* attempts whose StepOutputs and evidence are recorded
    handoffs,   \* plan edges whose AgentHandoff is recorded
    \* the execution kernel
    xrun,       \* executionRun.state, with its recovery reason
    gate,       \* humanGate.state
    effects,    \* submissions the target received for the attempt
    \* memory of the main process
    exec,       \* the awaited approve call, and whether it knows its attempt
    submitted,  \* in-flight executions whose submission reached the target
    at, cur, back, \* the command in progress
    todo,       \* attempts cancelMission or the recovery has yet to visit
    \* ghost
    stray,      \* external attempts reviewed before they knew their execution
    crashes

projections == <<mission, attempt, reason, linked, outputs, handoffs>>
kernel == <<xrun, gate, effects, exec, submitted>>
control == <<at, cur, back, todo>>
ghosts == <<stray, crashes>>
vars == <<projections, kernel, control, ghosts>>

MissionState == {"none", "running", "paused", "recovery_required", "completed", "cancelled"}
AttemptState == {"none", "ready", "waiting_human", "blocked", "active",
                 "completed", "cancelled", "recovery_required"}
RunState == {"none", "blocked", "waiting", "active", "observed",
             "uncertain", "cancelled", "superseded"}
Step == {"idle", "evaluate", "reserve", "ask", "link", "start", "record", "complete",
         "handoff", "observe", "contain", "contain_run", "reject_run",
         "cancel_attempt", "cancel", "cancel_step", "retry_run", "retry",
         "recover", "recover_run"}

TypeOK ==
    /\ mission \in MissionState
    /\ attempt \in [Attempts -> AttemptState]
    /\ reason \subseteq Attempts /\ linked \subseteq Attempts
    /\ outputs \subseteq Attempts /\ handoffs \subseteq Edges
    /\ xrun \in [Attempts -> RunState]
    /\ gate \in [Attempts -> {"none", "requested", "approved", "rejected"}]
    /\ effects \in [Attempts -> 0..2]
    /\ exec \in [Attempts -> {"none", "tracked", "untracked"}]
    /\ submitted \subseteq Attempts
    /\ at \in Step /\ cur \in Attempts \cup {NoAttempt}
    /\ back \in {"idle", "evaluate", "cancel_attempt", "cancel_step"}
    /\ todo \subseteq Attempts /\ stray \subseteq Attempts
    /\ crashes \in 0..MaxCrashes

--------------------------------------------------------------------------
Set(f, a, v) == [f EXCEPT ![a] = v]
Idle == at = "idle"
At(s, a) == at = s /\ cur = a
Goto(s, a, b) == at' = s /\ cur' = a /\ back' = b
Done == Goto("idle", NoAttempt, "idle")

Tried(s) == \E n \in Numbers(s) : attempt[<<s, n>>] # "none"
Completed(s) == \E n \in Numbers(s) : attempt[<<s, n>>] = "completed"

\* Mutation: a dependency counts as soon as it was tried.
ReadyWhenTried(s) ==
    /\ mission = "running"
    /\ ~Tried(s)
    /\ \A d \in DependsOn[s] : Tried(d)

\* deriveReadySet, with the latestAttempt test of evaluateRun: a step that
\* was ever tried is never picked up again by an evaluation.
Ready(s) ==
    /\ mission = "running"
    /\ ~Tried(s)
    /\ \A d \in DependsOn[s] : Completed(d) /\ <<d, s>> \in handoffs

\* The executions that own their resources in the kernel's lock table.
Holders == {a \in Attempts : xrun[a] \in {"waiting", "active", "uncertain"}}
Conflict(a) == \E b \in Holders : b # a /\ Needs[a[1]] \cap Needs[b[1]] # {}

Init ==
    /\ mission = "none"
    /\ attempt = [a \in Attempts |-> "none"]
    /\ reason = {} /\ linked = {} /\ outputs = {} /\ handoffs = {}
    /\ xrun = [a \in Attempts |-> "none"]
    /\ gate = [a \in Attempts |-> "none"]
    /\ effects = [a \in Attempts |-> 0]
    /\ exec = [a \in Attempts |-> "none"]
    /\ submitted = {}
    /\ at = "idle" /\ cur = NoAttempt /\ back = "idle"
    /\ todo = {} /\ stray = {}
    /\ crashes = 0

--------------------------------------------------------------------------
(* startMission, pauseMission, resumeMission *)

StartMission ==
    /\ Idle /\ mission = "none"
    /\ mission' = "running"
    /\ Goto("evaluate", NoAttempt, "idle")
    /\ UNCHANGED <<attempt, reason, linked, outputs, handoffs, kernel, todo, ghosts>>

PauseMission ==
    /\ Idle /\ mission = "running"
    /\ mission' = "paused"
    /\ UNCHANGED <<attempt, reason, linked, outputs, handoffs, kernel, control, ghosts>>

ResumeMission ==
    /\ Idle /\ mission \in {"running", "paused", "recovery_required"}
    /\ mission' = "running"
    /\ Goto("evaluate", NoAttempt, "idle")
    /\ UNCHANGED <<attempt, reason, linked, outputs, handoffs, kernel, todo, ghosts>>

--------------------------------------------------------------------------
(* evaluateRun *)

CreateAttempt(s) ==
    /\ at = "evaluate" /\ Ready(s)
    /\ attempt' = Set(attempt, <<s, 1>>, "ready")
    /\ Goto(IF s \in LocalSteps THEN "start" ELSE "reserve", <<s, 1>>, "evaluate")
    /\ UNCHANGED <<mission, reason, linked, outputs, handoffs, kernel, todo, ghosts>>

\* maybeCompleteMission, once nothing is ready any more.
EndEvaluation ==
    /\ at = "evaluate" /\ \A s \in Steps : ~Ready(s)
    /\ mission' = IF mission = "running" /\ \A s \in Terminal : Completed(s)
                  THEN "completed" ELSE mission
    /\ Done
    /\ UNCHANGED <<attempt, reason, linked, outputs, handoffs, kernel, todo, ghosts>>

\* scheduleExternalAttempt: createTask takes the locks and requests the
\* gate, or leaves the run blocked, or finds the run it made before.
ScheduleBlocked(a) ==
    /\ At("reserve", a)
    /\ xrun[a] = "none"
    /\ xrun' = Set(xrun, a, "blocked")
    /\ Goto("link", a, back)
    /\ UNCHANGED <<projections, gate, effects, exec, submitted, todo, ghosts>>

ScheduleFound(a) ==
    /\ At("reserve", a)
    /\ xrun[a] # "none"
    /\ Goto("link", a, back)
    /\ UNCHANGED <<projections, kernel, todo, ghosts>>

ScheduleReserved(a) ==
    /\ At("reserve", a)
    /\ xrun[a] = "none" /\ ~Conflict(a)
    /\ xrun' = Set(xrun, a, "waiting")
    /\ Goto("ask", a, back)
    /\ UNCHANGED <<projections, gate, effects, exec, submitted, todo, ghosts>>

ScheduleAsked(a) ==
    /\ At("ask", a)
    /\ gate' = Set(gate, a, "requested")
    /\ Goto("link", a, back)
    /\ UNCHANGED <<projections, xrun, effects, exec, submitted, todo, ghosts>>

\* The attempt is saved with the ids of its run and gate.
LinkAttempt(a) ==
    /\ At("link", a)
    /\ attempt' = IF gate[a] # "none" THEN Set(attempt, a, "waiting_human")
                  ELSE IF xrun[a] = "blocked" THEN Set(attempt, a, "blocked")
                  ELSE attempt
    /\ linked' = linked \cup {a}
    /\ Goto(back, NoAttempt, "idle")
    /\ UNCHANGED <<mission, reason, outputs, handoffs, kernel, todo, ghosts>>

\* executeLocalAttempt
StartLocal(a) ==
    /\ At("start", a)
    /\ attempt' = Set(attempt, a, "active")
    /\ Goto("record", a, back)
    /\ UNCHANGED <<mission, reason, linked, outputs, handoffs, kernel, todo, ghosts>>

--------------------------------------------------------------------------
(* Completion of an attempt, local or external *)

RecordOutputs(a) ==
    /\ At("record", a)
    /\ outputs' = outputs \cup {a}
    /\ Goto("complete", a, back)
    /\ UNCHANGED <<mission, attempt, reason, linked, handoffs, kernel, todo, ghosts>>

CompleteAttempt(a) ==
    /\ At("complete", a)
    /\ attempt' = Set(attempt, a, "completed")
    /\ Goto("handoff", a, back)
    /\ UNCHANGED <<mission, reason, linked, outputs, handoffs, kernel, todo, ghosts>>

RecordHandoffs(a) ==
    /\ At("handoff", a)
    /\ handoffs' = handoffs \cup {e \in Edges : e[1] = a[1]}
    /\ Goto(back, NoAttempt, "idle")
    /\ UNCHANGED <<mission, attempt, reason, linked, outputs, kernel, todo, ghosts>>

--------------------------------------------------------------------------
(* approveHumanGate *)

\* What S2 refuses before it asks the kernel, for a gate whose attempt it
\* finds by the execution run's id.
Refused(a) ==
    /\ a \in linked
    /\ mission \in {"paused", "cancelled"} \/ a \in reason
        \/ attempt[a] = "recovery_required"

\* Mutation: an uncertain run may be approved again.
ApproveGateAgain(a) ==
    /\ Idle
    /\ xrun[a] \in {"waiting", "uncertain"} /\ gate[a] \in {"requested", "approved"}
    /\ gate' = Set(gate, a, "approved")
    /\ xrun' = Set(xrun, a, "active")
    /\ exec' = Set(exec, a, IF a \in linked THEN "tracked" ELSE "untracked")
    /\ UNCHANGED <<projections, effects, submitted, control, ghosts>>

ApproveGate(a) ==
    /\ Idle
    /\ ~Refused(a)
    /\ xrun[a] = "waiting" /\ gate[a] \in {"requested", "approved"}
    /\ gate' = Set(gate, a, "approved")
    /\ xrun' = Set(xrun, a, "active")
    /\ exec' = Set(exec, a, IF a \in linked THEN "tracked" ELSE "untracked")
    /\ UNCHANGED <<projections, effects, submitted, control, ghosts>>

\* The kernel throws without starting anything: the run is uncertain,
\* cancelled or superseded, the gate was rejected, or the provider contract
\* no longer holds.  A gate without an attempt changes nothing here.
ApproveRefused(a) ==
    /\ Idle
    /\ a \in linked /\ ~Refused(a)
    /\ gate[a] # "none" /\ xrun[a] \in {"waiting", "uncertain", "cancelled", "superseded"}
    /\ Goto("contain", a, "idle")
    /\ UNCHANGED <<projections, kernel, todo, ghosts>>

\* Mutation: an execution in progress is taken for an observed result.
ApproveInProgress(a) ==
    /\ Idle
    /\ a \in linked /\ ~Refused(a)
    /\ xrun[a] \in {"active", "observed"}
    /\ Goto("observe", a, "evaluate")
    /\ UNCHANGED <<projections, kernel, todo, ghosts>>

\* The kernel answers that the result is already there.
ApproveObserved(a) ==
    /\ Idle
    /\ a \in linked /\ ~Refused(a)
    /\ xrun[a] = "observed"
    /\ Goto("observe", a, "evaluate")
    /\ UNCHANGED <<projections, kernel, todo, ghosts>>

Submit(a) ==
    /\ exec[a] # "none" /\ a \notin submitted
    /\ submitted' = submitted \cup {a}
    /\ effects' = Set(effects, a, IF effects[a] = 0 THEN 1 ELSE 2)
    /\ UNCHANGED <<projections, xrun, gate, exec, control, ghosts>>

Settled(a) ==
    /\ Idle
    /\ exec' = Set(exec, a, "none")
    /\ submitted' = submitted \ {a}
    /\ UNCHANGED <<projections, gate, effects, todo, ghosts>>

ResultObserved(a) ==
    /\ Settled(a)
    /\ a \in submitted
    /\ xrun' = Set(xrun, a, "observed")
    /\ IF exec[a] = "tracked" THEN Goto("observe", a, "evaluate") ELSE Done

ExecutionFails(a) ==
    /\ Settled(a)
    /\ exec[a] # "none"
    /\ xrun' = Set(xrun, a, "uncertain")
    /\ IF exec[a] = "tracked" THEN Goto("contain", a, "idle") ELSE Done

\* markExternalStart: an attempt that is no longer waiting cannot be marked
\* as started, although its execution was; the command ends in its catch.
ObserveResult(a) ==
    /\ At("observe", a)
    /\ IF attempt[a] \in {"ready", "waiting_human", "active"}
       THEN attempt' = Set(attempt, a, "active") /\ Goto("record", a, back)
       ELSE attempt' = attempt /\ IF attempt[a] = "completed" THEN Done
                                  ELSE Goto("contain", a, "idle")
    /\ UNCHANGED <<mission, reason, linked, outputs, handoffs, kernel, todo, ghosts>>

\* The catch of approveHumanGate.
Contain(a) ==
    /\ At("contain", a)
    /\ IF attempt[a] \in {"completed", "recovery_required"}
       THEN UNCHANGED <<attempt, reason>> /\ Done
       ELSE /\ attempt' = Set(attempt, a, "recovery_required")
            /\ reason' = reason \cup {a}
            /\ Goto("contain_run", a, "idle")
    /\ UNCHANGED <<mission, linked, outputs, handoffs, kernel, todo, ghosts>>

ContainRun(a) ==
    /\ At("contain_run", a)
    /\ mission' = IF mission = "running" THEN "recovery_required" ELSE mission
    /\ Done
    /\ UNCHANGED <<attempt, reason, linked, outputs, handoffs, kernel, todo, ghosts>>

--------------------------------------------------------------------------
(* rejectHumanGate *)

RejectGate(a) ==
    /\ Idle
    /\ gate[a] \in {"requested", "rejected"}
    /\ gate' = Set(gate, a, "rejected")
    /\ Goto(IF gate[a] = "requested" THEN "reject_run" ELSE "cancel_attempt", a, "cancel_attempt")
    /\ UNCHANGED <<projections, xrun, effects, exec, submitted, todo, ghosts>>

\* The kernel cancels the run and gives its locks back.
RejectRun(a) ==
    /\ At("reject_run", a)
    /\ xrun' = Set(xrun, a, "cancelled")
    /\ Goto(back, a, "idle")
    /\ UNCHANGED <<projections, gate, effects, exec, submitted, todo, ghosts>>

CancelAttempt(a) ==
    /\ At("cancel_attempt", a)
    /\ IF a \in linked /\ attempt[a] = "waiting_human"
       THEN attempt' = Set(attempt, a, "cancelled") /\ Goto("evaluate", NoAttempt, "idle")
       ELSE attempt' = attempt /\ Done
    /\ UNCHANGED <<mission, reason, linked, outputs, handoffs, kernel, todo, ghosts>>

--------------------------------------------------------------------------
(* cancelMission *)

CancelMission ==
    /\ Idle /\ mission \notin {"none", "cancelled"}
    /\ todo' = {a \in Attempts : attempt[a] # "none"}
    /\ Goto("cancel", NoAttempt, "idle")
    /\ UNCHANGED <<projections, kernel, ghosts>>

CancelGate(a) ==
    /\ at = "cancel" /\ a \in todo
    /\ attempt[a] = "waiting_human" /\ a \in linked /\ gate[a] = "requested"
    /\ gate' = Set(gate, a, "rejected")
    /\ Goto("reject_run", a, "cancel_step")
    /\ UNCHANGED <<projections, xrun, effects, exec, submitted, todo, ghosts>>

CancelStep(a) ==
    /\ \/ /\ at = "cancel" /\ a \in todo
          /\ ~(attempt[a] = "waiting_human" /\ a \in linked /\ gate[a] = "requested")
       \/ At("cancel_step", a)
    /\ todo' = todo \ {a}
    /\ attempt' = CASE attempt[a] \in {"completed", "cancelled"} -> attempt
                    [] attempt[a] = "active" -> Set(attempt, a, "recovery_required")
                    [] OTHER -> Set(attempt, a, "cancelled")
    /\ reason' = IF attempt[a] = "active" THEN reason \cup {a} ELSE reason
    /\ Goto("cancel", NoAttempt, "idle")
    /\ UNCHANGED <<mission, linked, outputs, handoffs, kernel, ghosts>>

\* A completed mission cannot be cancelled, but that is found out last.
CancelRun ==
    /\ at = "cancel" /\ todo = {}
    /\ mission' = IF mission = "completed" THEN mission ELSE "cancelled"
    /\ Done
    /\ UNCHANGED <<attempt, reason, linked, outputs, handoffs, kernel, todo, ghosts>>
--------------------------------------------------------------------------
(* retryStepAfterReview *)

\* Attempts a human may have reviewed: they are over, or contained.
Reviewable(a) ==
    \/ attempt[a] \in {"recovery_required", "cancelled"}
    \/ attempt[a] = "waiting_human" /\ a \in reason

\* Mutation: the retry leaves the old execution run as it is.
ReviewWithoutContainment(a) ==
    /\ Idle /\ mission # "none"
    /\ Reviewable(a) /\ a[2] < MaxAttempts[a[1]]
    /\ Goto("retry_run", a, "idle")
    /\ UNCHANGED <<projections, kernel, todo, ghosts>>

\* reconcileReviewedExternalAttempt: the old run gives its locks back and
\* can never be approved again.  The mission's state is looked at later.
ReviewAttempt(a) ==
    /\ Idle /\ mission # "none"
    /\ Reviewable(a) /\ a[2] < MaxAttempts[a[1]]
    /\ a \in linked => xrun[a] \in {"uncertain", "cancelled", "superseded"}
    /\ xrun' = IF a \in linked THEN Set(xrun, a, "superseded") ELSE xrun
    /\ stray' = IF External(a) /\ a \notin linked THEN stray \cup {a} ELSE stray
    /\ Goto("retry_run", a, "idle")
    /\ UNCHANGED <<projections, gate, effects, exec, submitted, todo, crashes>>

RetryRun(a) ==
    /\ At("retry_run", a)
    /\ mission' = IF mission = "recovery_required" THEN "running" ELSE mission
    /\ IF mission' = "running" THEN Goto("retry", a, "idle") ELSE Done
    /\ UNCHANGED <<attempt, reason, linked, outputs, handoffs, kernel, todo, ghosts>>

\* The new attempt's id follows from the old one's number: retrying the same
\* attempt again writes the record afresh, whatever became of it.
RetryAttempt(a) ==
    /\ At("retry", a)
    /\ attempt' = Set(attempt, Following(a), "ready")
    /\ reason' = reason \ {Following(a)}
    /\ linked' = linked \ {Following(a)}
    /\ Goto(IF External(a) THEN "reserve" ELSE "start", Following(a), "idle")
    /\ UNCHANGED <<mission, outputs, handoffs, kernel, todo, ghosts>>

--------------------------------------------------------------------------
(* The process dies, and the constructors recover what it left *)

\* The kernel's own recovery, which ExecutionKernel opens, is part of this
\* step: whatever was active is uncertain now.
Crash ==
    /\ crashes < MaxCrashes
    /\ crashes' = crashes + 1
    /\ xrun' = [a \in Attempts |-> IF xrun[a] = "active" THEN "uncertain" ELSE xrun[a]]
    /\ exec' = [a \in Attempts |-> "none"]
    /\ submitted' = {}
    /\ todo' = {a \in Attempts : attempt[a] = "active"}
    /\ IF todo' = {} THEN Done ELSE Goto("recover", NoAttempt, "idle")
    /\ UNCHANGED <<projections, gate, effects, stray>>

\* recoverS2Uncertain
RecoverAttempt(a) ==
    /\ at = "recover" /\ a \in todo
    /\ attempt' = Set(attempt, a, "recovery_required")
    /\ reason' = reason \cup {a}
    /\ todo' = todo \ {a}
    /\ Goto(IF todo' = {} THEN "recover_run" ELSE "recover", NoAttempt, "idle")
    /\ UNCHANGED <<mission, linked, outputs, handoffs, kernel, ghosts>>

RecoverRun ==
    /\ at = "recover_run"
    /\ mission' = IF mission = "running" THEN "recovery_required" ELSE mission
    /\ Done
    /\ UNCHANGED <<attempt, reason, linked, outputs, handoffs, kernel, todo, ghosts>>

--------------------------------------------------------------------------
(* The specification *)

Operator ==
    \/ StartMission \/ PauseMission \/ ResumeMission \/ CancelMission
    \/ \E a \in Attempts :
        ApproveGate(a) \/ ApproveRefused(a) \/ ApproveObserved(a)
        \/ RejectGate(a) \/ ReviewAttempt(a)

Continue ==
    \/ EndEvaluation \/ CancelRun \/ RecoverRun
    \/ \E s \in Steps : CreateAttempt(s)
    \/ \E a \in Attempts :
        \/ ScheduleBlocked(a) \/ ScheduleFound(a) \/ ScheduleReserved(a)
        \/ ScheduleAsked(a) \/ LinkAttempt(a) \/ StartLocal(a)
        \/ ObserveResult(a) \/ RecordOutputs(a) \/ CompleteAttempt(a)
        \/ RecordHandoffs(a) \/ Contain(a) \/ ContainRun(a)
        \/ RejectRun(a) \/ CancelAttempt(a) \/ CancelGate(a) \/ CancelStep(a)
        \/ RetryRun(a) \/ RetryAttempt(a) \/ RecoverAttempt(a)

Execution == \E a \in Attempts : Submit(a) \/ ResultObserved(a) \/ ExecutionFails(a)

Next == Operator \/ Continue \/ Execution \/ Crash

Spec == Init /\ [][Next]_vars
==========================================================================
