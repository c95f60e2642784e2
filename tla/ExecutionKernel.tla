------------------------- MODULE ExecutionKernel -------------------------
(***************************************************************************)
(* The S1 local execution kernel: ExecutionCoordinator, HumanGateService,  *)
(* ResourceLockManager and the S1ApplicationService commands around them,  *)
(* with the reviewed-retry reconciliation of the S2 service.               *)
(*                                                                         *)
(* Every save of a projection and every append of an event is a SQLite     *)
(* transaction of its own, and the process may die between two of them.    *)
(* A command is therefore a chain of steps; `at` and `cur` say which step  *)
(* of which task's command the main process takes next.  JavaScript runs   *)
(* the chain without interleaving other commands, except where the code    *)
(* awaits the browser worker: there the command parks in `exec` and the    *)
(* process is free again.  A run, its gate and its task have ids derived   *)
(* from one another, so all three are indexed by the task.                 *)
(***************************************************************************)
EXTENDS Naturals

CONSTANTS Tasks,       \* task ids; each has one execution run and one gate
          Resources,   \* normalized resource keys
          Needs,       \* the resources createTask lists for the task
          NoTask,      \* nobody
          MaxCrashes   \* bound: how often the process may die

ASSUME KernelAssumption ==
    /\ Needs \in [Tasks -> SUBSET Resources]
    /\ NoTask \notin Tasks
    /\ MaxCrashes \in Nat

VARIABLES
    \* projections and events in SQLite: survive a crash
    run,        \* executionRun.state
    recovery,   \* executionRun.recoveryReason
    gate,       \* humanGate.state
    task,       \* task.state
    reserved,   \* runs with a resource.reserved event
    started,    \* runs with an execution.started event
    released,   \* runs with a resource.released event
    evidence,   \* runs with an evidence record
    \* memory of the main process: lost in a crash
    up,         \* the process is running
    owner,      \* ResourceLockManager.locks
    exec,       \* the awaited runtime.execute call of the run
    at, cur,    \* the next step of the command being executed, and its task
    recovered,  \* runs recoverUncertain returned, whose tasks are not saved yet
    \* the world
    effects,    \* submissions the target has received, saturating at two
    crashes     \* crashes so far

log == <<reserved, started, released, evidence>>
durable == <<run, recovery, gate, task, log>>
memory == <<up, owner, exec, at, cur, recovered>>
vars == <<durable, memory, effects, crashes>>

RunState == {"none", "blocked", "waiting_human", "active", "result_observed", "cancelled"}
RecoveryReason == {"none", "execution_uncertain", "application_recovery", "reviewed_retry_superseded"}
GateState == {"none", "requested", "approved", "rejected"}
TaskState == {"none", "queued", "waiting_resource", "waiting_human", "cancelled"}
ExecState == {"none", "submitting", "submitted"}
Step == {"idle", "request", "reserve", "ask", "link",
         "reject_run", "reject_released", "cancel_task",
         "start", "activate", "release", "observe_task", "evidence", "review_task",
         "supersede", "supersede_task", "recover"}

TypeOK ==
    /\ run \in [Tasks -> RunState]
    /\ recovery \in [Tasks -> RecoveryReason]
    /\ gate \in [Tasks -> GateState]
    /\ task \in [Tasks -> TaskState]
    /\ reserved \subseteq Tasks /\ started \subseteq Tasks
    /\ released \subseteq Tasks /\ evidence \subseteq Tasks
    /\ up \in BOOLEAN
    /\ owner \in [Resources -> Tasks \cup {NoTask}]
    /\ exec \in [Tasks -> ExecState]
    /\ at \in Step /\ cur \in Tasks \cup {NoTask}
    /\ (at \notin {"idle", "recover"}) => cur \in Tasks
    /\ recovered \subseteq Tasks
    /\ effects \in [Tasks -> 0..2]
    /\ crashes \in 0..MaxCrashes

--------------------------------------------------------------------------
(* The lock table *)

HoldsAll(t) == \A r \in Needs[t] : owner[r] = t
HoldsSome(t) == \E r \in Resources : owner[r] = t
Conflict(t) == \E r \in Needs[t] : owner[r] # NoTask
Acquired(t) == [r \in Resources |-> IF r \in Needs[t] THEN t ELSE owner[r]]

\* Mutation: releaseAll clears the table instead of one run's locks.
ReleasedByAnyone(t) == [r \in Resources |-> NoTask]

ReleasedBy(t) == [r \in Resources |-> IF owner[r] = t THEN NoTask ELSE owner[r]]

\* The runs whose reservation the event log still carries: rehydrateLocks
\* takes the locks of exactly these.
SettledRun == {"result_observed", "cancelled"}
LoggedHolders == {t \in reserved \ released : run[t] \notin SettledRun}

\* Two logged reservations that exclude each other: acquireAll would throw
\* in the constructor and the application could not start again.
ReplayConflict ==
    \E t, u \in LoggedHolders : t # u /\ Needs[t] \cap Needs[u] # {}

--------------------------------------------------------------------------
(* Control *)

Idle == up /\ at = "idle"
At(s, t) == up /\ at = s /\ cur = t
Goto(s, t) == at' = s /\ cur' = t
Done == Goto("idle", NoTask)
Set(f, t, v) == [f EXCEPT ![t] = v]

Init ==
    /\ run = [t \in Tasks |-> "none"]
    /\ recovery = [t \in Tasks |-> "none"]
    /\ gate = [t \in Tasks |-> "none"]
    /\ task = [t \in Tasks |-> "none"]
    /\ reserved = {} /\ started = {} /\ released = {} /\ evidence = {}
    /\ up = TRUE
    /\ owner = [r \in Resources |-> NoTask]
    /\ exec = [t \in Tasks |-> "none"]
    /\ at = "idle" /\ cur = NoTask
    /\ recovered = {}
    /\ effects = [t \in Tasks |-> 0]
    /\ crashes = 0

\* What a step of a command leaves alone: the world, and the parts of the
\* process only Crash and Restart touch.
Quiet == UNCHANGED <<up, recovered, effects, crashes>>

--------------------------------------------------------------------------
(* createTask, with the coordinator's request inside it *)

CreateTask(t) ==
    /\ Idle
    /\ task[t] = "none"
    /\ task' = Set(task, t, "queued")
    /\ Goto("request", t)
    /\ UNCHANGED <<run, recovery, gate, log, owner, exec>> /\ Quiet

\* Blocked: a resource is taken, or the authorization, the provider
\* contract or the worker's status refuses the request.
RequestBlocked(t) ==
    /\ At("request", t)
    /\ run' = Set(run, t, "blocked")
    /\ Goto("link", t)
    /\ UNCHANGED <<recovery, gate, task, log, owner, exec>> /\ Quiet

RequestReady(t) ==
    /\ At("request", t)
    /\ ~Conflict(t)
    /\ owner' = Acquired(t)
    /\ run' = Set(run, t, "waiting_human")
    /\ Goto("reserve", t)
    /\ UNCHANGED <<recovery, gate, task, log, exec>> /\ Quiet

RecordReservation(t) ==
    /\ At("reserve", t)
    /\ reserved' = reserved \cup {t}
    /\ Goto("ask", t)
    /\ UNCHANGED <<run, recovery, gate, task, started, released, evidence, owner, exec>> /\ Quiet

RequestGate(t) ==
    /\ At("ask", t)
    /\ gate' = Set(gate, t, "requested")
    /\ Goto("link", t)
    /\ UNCHANGED <<run, recovery, task, log, owner, exec>> /\ Quiet

LinkTask(t) ==
    /\ At("link", t)
    /\ task' = Set(task, t, IF run[t] = "blocked" THEN "waiting_resource" ELSE "waiting_human")
    /\ Done
    /\ UNCHANGED <<run, recovery, gate, log, owner, exec>> /\ Quiet

--------------------------------------------------------------------------
(* rejectHumanGate *)

RejectGate(t) ==
    /\ Idle
    /\ gate[t] = "requested"
    /\ gate' = Set(gate, t, "rejected")
    /\ Goto("reject_run", t)
    /\ UNCHANGED <<run, recovery, task, log, owner, exec>> /\ Quiet

\* The run is saved before its locks leave the table.
RejectRun(t) ==
    /\ At("reject_run", t)
    /\ run' = Set(run, t, "cancelled")
    /\ owner' = ReleasedBy(t)
    /\ Goto("reject_released", t)
    /\ UNCHANGED <<recovery, gate, task, log, exec>> /\ Quiet

RecordRejectRelease(t) ==
    /\ At("reject_released", t)
    /\ released' = released \cup {t}
    /\ Goto("cancel_task", t)
    /\ UNCHANGED <<run, recovery, gate, task, reserved, started, evidence, owner, exec>> /\ Quiet

CancelTask(t) ==
    /\ At("cancel_task", t)
    /\ task' = Set(task, t, "cancelled")
    /\ Done
    /\ UNCHANGED <<run, recovery, gate, log, owner, exec>> /\ Quiet

\* The gate is already rejected: the coordinator changes nothing and the
\* service saves the task again.
RejectAgain(t) ==
    /\ Idle
    /\ gate[t] = "rejected"
    /\ task' = Set(task, t, "cancelled")
    /\ UNCHANGED <<run, recovery, gate, log, owner, exec, at, cur>> /\ Quiet

--------------------------------------------------------------------------
(* approveHumanGate *)

\* Mutation: the recovery reason is not looked at before approving.
ApprovableAgain(t) == gate[t] # "none"

\* The service refuses a run that carries a recovery reason, whatever the
\* coordinator would do with it.
Approvable(t) == gate[t] # "none" /\ recovery[t] = "none"

\* An approval interrupted by a crash leaves the gate approved and the run
\* waiting; approving again finds the same decision and goes on.
ApproveGate(t) ==
    /\ Idle
    /\ Approvable(t)
    /\ run[t] = "waiting_human"
    /\ gate[t] \in {"requested", "approved"}
    /\ gate' = Set(gate, t, "approved")
    /\ Goto("start", t)
    /\ UNCHANGED <<run, recovery, task, log, owner, exec>> /\ Quiet

\* The coordinator throws before it changed anything: the run is cancelled,
\* the gate was rejected, or the provider contract no longer holds.
ApproveRefused(t) ==
    /\ Idle
    /\ Approvable(t)
    /\ run[t] \in {"waiting_human", "cancelled"}
    /\ task' = Set(task, t, "waiting_human")
    /\ UNCHANGED <<run, recovery, gate, log, owner, exec, at, cur>> /\ Quiet

RecordStart(t) ==
    /\ At("start", t)
    /\ started' = started \cup {t}
    /\ Goto("activate", t)
    /\ UNCHANGED <<run, recovery, gate, task, reserved, released, evidence, owner, exec>> /\ Quiet

\* The run is saved as active and runtime.execute is called; the command
\* awaits it, so the process goes back to its event loop.
Activate(t) ==
    /\ At("activate", t)
    /\ run' = Set(run, t, "active")
    /\ exec' = Set(exec, t, "submitting")
    /\ Done
    /\ UNCHANGED <<recovery, gate, task, log, owner>> /\ Quiet

\* The browser submits the form: the external effect.
Submit(t) ==
    /\ up
    /\ exec[t] = "submitting"
    /\ exec' = Set(exec, t, "submitted")
    /\ effects' = Set(effects, t, IF effects[t] = 0 THEN 1 ELSE 2)
    /\ UNCHANGED <<durable, up, owner, at, cur, recovered, crashes>>

ResultObserved(t) ==
    /\ Idle
    /\ exec[t] = "submitted"
    /\ run' = Set(run, t, "result_observed")
    /\ exec' = Set(exec, t, "none")
    /\ Goto("release", t)
    /\ UNCHANGED <<recovery, gate, task, log, owner>> /\ Quiet

ReleaseLocks(t) ==
    /\ At("release", t)
    /\ owner' = ReleasedBy(t)
    /\ released' = released \cup {t}
    /\ Goto("observe_task", t)
    /\ UNCHANGED <<run, recovery, gate, task, reserved, started, evidence, exec>> /\ Quiet

\* Approving a run whose result is known only saves the task and the
\* evidence again.
ApproveObserved(t) ==
    /\ Idle
    /\ Approvable(t)
    /\ run[t] = "result_observed"
    /\ Goto("observe_task", t)
    /\ UNCHANGED <<durable, owner, exec>> /\ Quiet

ObserveTask(t) ==
    /\ At("observe_task", t)
    /\ task' = Set(task, t, "waiting_human")
    /\ Goto("evidence", t)
    /\ UNCHANGED <<run, recovery, gate, log, owner, exec>> /\ Quiet

RecordEvidence(t) ==
    /\ At("evidence", t)
    /\ evidence' = evidence \cup {t}
    /\ Done
    /\ UNCHANGED <<run, recovery, gate, task, reserved, started, released, owner, exec>> /\ Quiet

\* Mutation: a failed execution gives its locks back (try ... finally).
ExecutionFailsAndReleases(t) ==
    /\ Idle
    /\ exec[t] # "none"
    /\ run' = Set(run, t, "waiting_human")
    /\ recovery' = Set(recovery, t, "execution_uncertain")
    /\ exec' = Set(exec, t, "none")
    /\ owner' = ReleasedBy(t)
    /\ Goto("review_task", t)
    /\ UNCHANGED <<gate, task, log>> /\ Quiet

\* runtime.execute throws, before or after the submission reached the
\* target: the run keeps its locks and waits for a human.
ExecutionFails(t) ==
    /\ Idle
    /\ exec[t] # "none"
    /\ run' = Set(run, t, "waiting_human")
    /\ recovery' = Set(recovery, t, "execution_uncertain")
    /\ exec' = Set(exec, t, "none")
    /\ Goto("review_task", t)
    /\ UNCHANGED <<gate, task, log, owner>> /\ Quiet

MarkTaskForReview(t) ==
    /\ At("review_task", t)
    /\ task' = Set(task, t, "waiting_human")
    /\ Done
    /\ UNCHANGED <<run, recovery, gate, log, owner, exec>> /\ Quiet

--------------------------------------------------------------------------
(* reconcileReviewedExternalAttempt: a human reviewed the contained run *)

\* Mutation: the retry does not ask whether the run is contained.
ReviewReleaseUncontained(t) ==
    /\ Idle
    /\ run[t] # "none"
    /\ recovery[t] # "reviewed_retry_superseded"
    /\ owner' = ReleasedBy(t)
    /\ released' = IF HoldsSome(t) THEN released \cup {t} ELSE released
    /\ Goto("supersede", t)
    /\ UNCHANGED <<run, recovery, gate, task, reserved, started, evidence, exec>> /\ Quiet

ReviewRelease(t) ==
    /\ Idle
    /\ run[t] # "none"
    /\ recovery[t] # "none" \/ run[t] = "cancelled"
    /\ recovery[t] # "reviewed_retry_superseded"
    /\ owner' = ReleasedBy(t)
    /\ released' = IF HoldsSome(t) THEN released \cup {t} ELSE released
    /\ Goto("supersede", t)
    /\ UNCHANGED <<run, recovery, gate, task, reserved, started, evidence, exec>> /\ Quiet

SupersedeRun(t) ==
    /\ At("supersede", t)
    /\ run' = Set(run, t, "cancelled")
    /\ recovery' = Set(recovery, t, "reviewed_retry_superseded")
    /\ Goto("supersede_task", t)
    /\ UNCHANGED <<gate, task, log, owner, exec>> /\ Quiet

SupersedeTask(t) ==
    /\ At("supersede_task", t)
    /\ task' = Set(task, t, "cancelled")
    /\ Done
    /\ UNCHANGED <<run, recovery, gate, log, owner, exec>> /\ Quiet

--------------------------------------------------------------------------
(* The process dies and starts again *)

Crash ==
    /\ up
    /\ crashes < MaxCrashes
    /\ up' = FALSE
    /\ owner' = [r \in Resources |-> NoTask]
    /\ exec' = [t \in Tasks |-> "none"]
    /\ Done
    /\ recovered' = {}
    /\ crashes' = crashes + 1
    /\ UNCHANGED <<durable, effects>>

\* Mutation: the application starts without recovering active runs.
RestartUnrecovered ==
    /\ ~up
    /\ ~ReplayConflict
    /\ up' = TRUE
    /\ owner' = [r \in Resources |->
                    IF \E t \in LoggedHolders : r \in Needs[t]
                    THEN CHOOSE t \in LoggedHolders : r \in Needs[t]
                    ELSE NoTask]
    /\ Goto("idle", NoTask)
    /\ UNCHANGED <<durable, exec, recovered, effects, crashes>>

\* rehydrateLocks; recoverUncertain follows before any command is taken.
Restart ==
    /\ ~up
    /\ ~ReplayConflict
    /\ up' = TRUE
    /\ owner' = [r \in Resources |->
                    IF \E t \in LoggedHolders : r \in Needs[t]
                    THEN CHOOSE t \in LoggedHolders : r \in Needs[t]
                    ELSE NoTask]
    /\ Goto("recover", NoTask)
    /\ UNCHANGED <<durable, exec, recovered, effects, crashes>>

RecoverRun(t) ==
    /\ up /\ at = "recover"
    /\ run[t] = "active"
    /\ run' = Set(run, t, "waiting_human")
    /\ recovery' = Set(recovery, t, "application_recovery")
    /\ recovered' = recovered \cup {t}
    /\ UNCHANGED <<gate, task, log, up, owner, exec, at, cur, effects, crashes>>

\* The coordinator has returned the recovered runs: save their tasks.
RecoverTask(t) ==
    /\ up /\ at = "recover"
    /\ \A u \in Tasks : run[u] # "active"
    /\ t \in recovered
    /\ task' = Set(task, t, "waiting_human")
    /\ recovered' = recovered \ {t}
    /\ UNCHANGED <<run, recovery, gate, log, up, owner, exec, at, cur, effects, crashes>>

FinishRestart ==
    /\ up /\ at = "recover"
    /\ \A u \in Tasks : run[u] # "active"
    /\ recovered = {}
    /\ Done
    /\ UNCHANGED <<durable, up, owner, exec, recovered, effects, crashes>>

--------------------------------------------------------------------------
(* The specification *)

\* Commands the operator may or may not give.
Operator(t) ==
    \/ CreateTask(t) \/ RejectGate(t) \/ RejectAgain(t)
    \/ ApproveGate(t) \/ ApproveRefused(t) \/ ApproveObserved(t)
    \/ ReviewRelease(t)

\* Steps the process takes by itself once a command has begun.
Continue(t) ==
    \/ RequestBlocked(t) \/ RequestReady(t) \/ RecordReservation(t)
    \/ RequestGate(t) \/ LinkTask(t)
    \/ RejectRun(t) \/ RecordRejectRelease(t) \/ CancelTask(t)
    \/ RecordStart(t) \/ Activate(t)
    \/ ReleaseLocks(t) \/ ObserveTask(t) \/ RecordEvidence(t)
    \/ MarkTaskForReview(t) \/ SupersedeRun(t) \/ SupersedeTask(t)
    \/ RecoverRun(t) \/ RecoverTask(t)

\* The awaited call ends, one way or the other.
Settle(t) == ResultObserved(t) \/ ExecutionFails(t)

Next ==
    \/ \E t \in Tasks : Operator(t) \/ Continue(t) \/ Submit(t) \/ Settle(t)
    \/ Crash \/ Restart \/ FinishRestart

Spec == Init /\ [][Next]_vars

\* A step chain runs to its end unless the process dies, every Playwright
\* call ends by a result or by its time-out, and the event loop serves the
\* settled promise although the operator keeps giving commands.
FairSpec ==
    /\ Spec
    /\ WF_vars((\E t \in Tasks : Continue(t)) \/ Restart \/ FinishRestart)
    /\ \A t \in Tasks : SF_vars(Settle(t))
==========================================================================
