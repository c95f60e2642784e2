----------------------- MODULE CapacityScheduling -----------------------
(***************************************************************************)
(* The S6 scheduler: in a workspace with an active policy it decides which *)
(* ready step of the workspace's running missions starts next, and on      *)
(* which browser worker.  S2 owns the readiness and S1 the locks; the      *)
(* scheduler reads both, records a decision and a proposal, has the        *)
(* proposal revalidated, and only then lets S2 create the attempt.         *)
(*                                                                         *)
(* An evaluation is synchronous: only a crash comes between its saves.     *)
(* `at` and `cur` say which save comes next and for which mission run.     *)
(* One attempt's execution is a single step here (Finish, Fail, Reject);   *)
(* what happens inside it is the subject of ExecutionKernel.               *)
(***************************************************************************)
EXTENDS Naturals, FiniteSets

CONSTANTS Workspaces, Runs, Steps, Workers, Targets,
          Of,           \* the workspace of a run and of a worker binding
          RunOf,        \* the mission run a step belongs to
          DependsOn,
          LocalSteps,   \* executed by the service itself, without locks
          RemoteSteps,  \* their target is not on this machine
          Rank,         \* index of a step's priority in priorityOrder
          Own,          \* step.workerId, or NoWorker
          TargetOf,
          GlobalMax, WorkspaceMax, \* per workspace, of its policy
          Interval, MaxBoost,      \* of every policy's fairness
          NoStep, NoWorker, NoRun,
          MaxTries,     \* bound: attempts per step
          MaxTime,      \* bound: the clock
          MaxMishaps    \* bound: crashes, failures, rejections, pauses, lost
                        \* browsers and lost authority in one behaviour

ASSUME CapacityAssumption ==
    /\ Of \in [Runs \cup Workers -> Workspaces]
    /\ RunOf \in [Steps -> Runs]
    /\ DependsOn \in [Steps -> SUBSET Steps]
    /\ LocalSteps \subseteq Steps /\ RemoteSteps \subseteq Steps \ LocalSteps
    /\ Rank \in [Steps -> 0..3]
    /\ Own \in [Steps -> Workers \cup {NoWorker}]
    /\ TargetOf \in [Steps -> Targets]
    /\ GlobalMax \in [Workspaces -> Nat \ {0}]
    /\ WorkspaceMax \in [Workspaces -> Nat \ {0}]
    /\ \A w \in Workspaces : WorkspaceMax[w] <= GlobalMax[w]
    /\ IsFiniteSet(Workers)
    \* one of the policies has the widest global budget
    /\ \E w \in Workspaces : \A v \in Workspaces : GlobalMax[v] <= GlobalMax[w]
    /\ Interval \in Nat \ {0} /\ MaxBoost \in 0..3
    /\ NoStep \notin Steps /\ NoWorker \notin Workers /\ NoRun \notin Runs
    /\ MaxTries \in Nat \ {0} /\ MaxTime \in Nat /\ MaxMishaps \in Nat

VARIABLES
    run,       \* missionRun.state
    since,     \* missionRun.startedAt
    attempt,   \* state of the step's latest attempt
    tries,     \* its attemptNumber
    policy,    \* workspaces whose policy is recorded
    profile,   \* lock table: the step that holds a worker's browser profile
    surface,   \* lock table: the step that holds a target
    live,      \* workers whose browser is idle or active
    authorized, \* steps whose binding still validates
    admitted,  \* ghost: attempts started from an accepted proposal
    now, at, cur, mishaps

kernel == <<profile, surface>>
outside == <<live, authorized, now, policy>>
vars == <<run, since, attempt, tries, policy, profile, surface,
          live, authorized, admitted, now, at, cur, mishaps>>

TypeOK ==
    /\ run \in [Runs -> {"none", "running", "paused", "recovery_required", "completed"}]
    /\ since \in [Runs -> 0..MaxTime]
    /\ attempt \in [Steps -> {"none", "ready", "waiting_human", "blocked",
                              "completed", "cancelled", "recovery_required"}]
    /\ tries \in [Steps -> 0..MaxTries]
    /\ policy \subseteq Workspaces
    /\ profile \in [Workers -> Steps \cup {NoStep}]
    /\ surface \in [Targets -> Steps \cup {NoStep}]
    /\ live \subseteq Workers
    /\ authorized \subseteq Steps
    /\ admitted \subseteq Steps
    /\ now \in 0..MaxTime
    /\ at \in {"idle", "evaluate", "revalidate", "create", "schedule", "end", "retry"}
    /\ cur \in [run : Runs \cup {NoRun}, step : Steps \cup {NoStep},
                worker : Workers \cup {NoWorker}]
    /\ mishaps \in 0..MaxMishaps

--------------------------------------------------------------------------
Home(s) == Of[RunOf[s]]
StepsOf(r) == {s \in Steps : RunOf[s] = r}

Mishap == mishaps < MaxMishaps /\ mishaps' = mishaps + 1
Goto(place, r, s, w) == at' = place /\ cur' = [run |-> r, step |-> s, worker |-> w]
Done == Goto("idle", NoRun, NoStep, NoWorker)
Evaluate(r) == Goto("evaluate", r, NoStep, NoWorker)

\* deriveReadySet, and the step states queryMissionState derives from it.
Ready(s) ==
    /\ run[RunOf[s]] = "running"
    /\ attempt[s] = "none"
    /\ \A d \in DependsOn[s] : attempt[d] = "completed"

\* sourceRecordForStep through canonicalReadiness: what is left of it for a
\* ready step is the binding's authority.
Candidate(s) == Ready(s) /\ s \in authorized

\* concurrencyBudgets: locked browser profiles are what counts as active.
Locked == {w \in Workers : profile[w] # NoStep}
LockedFor(ws) == {w \in Locked : Home(profile[w]) = ws}
\* Mutation: the budget admits one assignment more than it holds.
WithinBudgetsOffByOne(ws) ==
    /\ Cardinality(Locked) <= GlobalMax[ws]
    /\ Cardinality(LockedFor(ws)) <= WorkspaceMax[ws]
WithinBudgets(ws) ==
    /\ Cardinality(Locked) < GlobalMax[ws]
    /\ Cardinality(LockedFor(ws)) < WorkspaceMax[ws]

\* workerCompatibility.  A remote target asks for a provider key no worker
\* snapshot carries.
\* Mutation: only the worker is looked at, not the resources of the step.
SuitsByWorker(s, w) == Own[s] \in {w, NoWorker} /\ s \notin RemoteSteps
Suits(s, w) ==
    /\ Own[s] \in {w, NoWorker}
    /\ s \notin RemoteSteps
    /\ surface[TargetOf[s]] = NoStep

\* safeWorkerSnapshots: what is bound to the workspace, runs and holds no
\* assignment is eligible.
Compatible(s) ==
    {w \in live : Of[w] = Home(s) /\ profile[w] = NoStep /\ Suits(s, w)}
Eligible(s) == Candidate(s) /\ WithinBudgets(Home(s)) /\ Compatible(s) # {}

\* computeEffectivePriority
Least(a, b) == IF a < b THEN a ELSE b
Bucket(s) == (now - since[RunOf[s]]) \div Interval
\* Mutation: the boost lowers a priority instead of raising it.
EffectiveRankSunk(s) == Rank[s] + Least(MaxBoost, Bucket(s))
EffectiveRank(s) ==
    LET boost == Least(MaxBoost, Bucket(s))
    IN  IF boost > Rank[s] THEN 0 ELSE Rank[s] - boost

\* rankSchedulingCandidates, up to the final order by id: within one
\* workspace the active count is the same for all, and no candidate is ever
\* marked as compatible with a reusable session.
Before(s, t) ==
    \/ EffectiveRank(s) < EffectiveRank(t)
    \/ /\ EffectiveRank(s) = EffectiveRank(t)
       /\ \/ Bucket(s) > Bucket(t)
          \/ Bucket(s) = Bucket(t) /\ since[RunOf[s]] < since[RunOf[t]]

\* computeSchedulingDecision: the first eligible candidate in that order.
Choices(ws) ==
    LET eligible == {s \in Steps : Home(s) = ws /\ Eligible(s)}
    IN  {s \in eligible : \A t \in eligible : ~Before(t, s)}

Init ==
    /\ run = [r \in Runs |-> "none"] /\ since = [r \in Runs |-> 0]
    /\ attempt = [s \in Steps |-> "none"] /\ tries = [s \in Steps |-> 0]
    /\ policy = {}
    /\ profile = [w \in Workers |-> NoStep]
    /\ surface = [t \in Targets |-> NoStep]
    /\ live = {} /\ authorized = Steps
    /\ admitted = {}
    /\ now = 0
    /\ at = "idle" /\ cur = [run |-> NoRun, step |-> NoStep, worker |-> NoWorker]
    /\ mishaps = 0

--------------------------------------------------------------------------
(* What happens around the scheduler *)

Tick ==
    /\ at = "idle" /\ now < MaxTime
    /\ now' = now + 1
    /\ UNCHANGED <<run, since, attempt, tries, policy, kernel, live,
                   authorized, admitted, at, cur, mishaps>>

\* A worker's browser comes up or goes away.
WorkerChanges(w) ==
    /\ at = "idle"
    /\ \/ w \notin live /\ live' = live \cup {w} /\ UNCHANGED mishaps
       \/ w \in live /\ live' = live \ {w} /\ Mishap
    /\ UNCHANGED <<run, since, attempt, tries, policy, kernel,
                   authorized, admitted, now, at, cur>>

\* The grant or the provider snapshot of a step's binding runs out.
LoseAuthority(s) ==
    /\ at = "idle" /\ s \in authorized
    /\ authorized' = authorized \ {s}
    /\ Mishap
    /\ UNCHANGED <<run, since, attempt, tries, policy, kernel, live,
                   admitted, now, at, cur>>

\* recordSchedulingPolicy: a workspace has one active policy and keeps it.
RecordSchedulingPolicy(ws) ==
    /\ at = "idle" /\ ws \notin policy
    /\ policy' = policy \cup {ws}
    /\ UNCHANGED <<run, since, attempt, tries, kernel, live,
                   authorized, admitted, now, at, cur, mishaps>>

StartMission(r) ==
    /\ at = "idle" /\ run[r] = "none"
    /\ run' = [run EXCEPT ![r] = "running"]
    /\ since' = [since EXCEPT ![r] = now]
    /\ Evaluate(r)
    /\ UNCHANGED <<attempt, tries, kernel, outside, admitted, mishaps>>

PauseMission(r) ==
    /\ at = "idle" /\ run[r] = "running"
    /\ run' = [run EXCEPT ![r] = "paused"]
    /\ Mishap
    /\ UNCHANGED <<since, attempt, tries, kernel, outside, admitted, at, cur>>

\* Resuming evaluates the run, one that is running already included.
ResumeMission(r) ==
    /\ at = "idle" /\ run[r] \in {"running", "paused", "recovery_required"}
    /\ run' = [run EXCEPT ![r] = "running"]
    /\ Evaluate(r)
    /\ UNCHANGED <<since, attempt, tries, kernel, outside, admitted, mishaps>>

Release(s) ==
    /\ profile' = [w \in Workers |-> IF profile[w] = s THEN NoStep ELSE profile[w]]
    /\ surface' = [t \in Targets |-> IF surface[t] = s THEN NoStep ELSE surface[t]]

\* The execution was approved and its result observed, or its gate rejected.
Settle(s, outcome) ==
    /\ at = "idle" /\ attempt[s] = "waiting_human"
    /\ attempt' = [attempt EXCEPT ![s] = outcome]
    /\ Release(s)
    /\ Evaluate(RunOf[s])
    /\ UNCHANGED <<run, since, tries, outside, admitted>>
Finish(s) == Settle(s, "completed") /\ UNCHANGED mishaps
Reject(s) == Settle(s, "cancelled") /\ Mishap

\* Its outcome is uncertain: the locks stay, and the mission is stopped.
Fail(s) ==
    /\ at = "idle" /\ attempt[s] = "waiting_human"
    /\ attempt' = [attempt EXCEPT ![s] = "recovery_required"]
    /\ run' = IF run[RunOf[s]] = "running"
              THEN [run EXCEPT ![RunOf[s]] = "recovery_required"] ELSE run
    /\ Mishap
    /\ UNCHANGED <<since, tries, kernel, outside, admitted, at, cur>>

--------------------------------------------------------------------------
(* evaluateRun *)

\* Without a policy S2 starts every ready step; a step that names no worker
\* gets an idle one, or any that is bound to the workspace.
AnyWorker(s) ==
    LET bound == {w \in Workers : Of[w] = Home(s)}
    IN  IF Own[s] # NoWorker THEN {Own[s]}
        ELSE IF bound \cap live # {} THEN bound \cap live ELSE bound

StartUnscheduled(s) ==
    /\ at = "evaluate" /\ cur.run = RunOf[s]
    /\ Home(s) \notin policy /\ Ready(s)
    /\ attempt' = [attempt EXCEPT ![s] = "ready"]
    /\ tries' = [tries EXCEPT ![s] = 1]
    /\ \E w \in AnyWorker(s) : Goto("schedule", cur.run, s, w)
    /\ UNCHANGED <<run, since, kernel, outside, admitted, mishaps>>

\* The proposal binds the step to the worker the decision selected.
Propose(s, w) == Goto("revalidate", cur.run, s, w)

\* computeSchedulingDecisionForWorkspace saves the decision and the proposal
\* it selects; `cur` is the proposal.
Decide(s) ==
    /\ at = "evaluate" /\ Of[cur.run] \in policy
    /\ \E t \in StepsOf(cur.run) : Ready(t)
    /\ s \in Choices(Of[cur.run])
    /\ \E w \in Compatible(s) : Propose(s, w)
    /\ UNCHANGED <<run, since, attempt, tries, kernel, outside, admitted, mishaps>>

\* revalidateSchedulingProposal: the candidate is still there, its resources
\* are free, the budgets hold and some worker is compatible.
StillAcceptable(s) == Eligible(s)

\* The accepted step may be one of another run: then nothing is started.
Accept ==
    /\ at = "revalidate"
    /\ IF StillAcceptable(cur.step) /\ RunOf[cur.step] = cur.run
       THEN Goto("create", cur.run, cur.step, cur.worker)
       ELSE Goto("end", cur.run, NoStep, NoWorker)
    /\ UNCHANGED <<run, since, attempt, tries, kernel, outside, admitted, mishaps>>

CreateAttempt ==
    /\ at = "create"
    /\ attempt' = [attempt EXCEPT ![cur.step] = "ready"]
    /\ tries' = [tries EXCEPT ![cur.step] = 1]
    /\ admitted' = admitted \cup {cur.step}
    /\ Goto("schedule", cur.run, cur.step, cur.worker)
    /\ UNCHANGED <<run, since, kernel, outside, mishaps>>

\* executeLocalAttempt, or scheduleExternalAttempt through S1's createTask,
\* which checks the authority again and takes both locks or neither.
Free(s, w) == profile[w] = NoStep /\ surface[TargetOf[s]] = NoStep

ExecuteLocal ==
    /\ at = "schedule" /\ cur.step \in LocalSteps
    /\ attempt' = [attempt EXCEPT ![cur.step] = "completed"]
    /\ IF cur.run = NoRun THEN Done ELSE Evaluate(cur.run)
    /\ UNCHANGED <<run, since, tries, kernel, outside, admitted, mishaps>>

ScheduleReserved ==
    /\ at = "schedule" /\ cur.step \notin LocalSteps
    /\ cur.step \in authorized /\ Free(cur.step, cur.worker)
    /\ attempt' = [attempt EXCEPT ![cur.step] = "waiting_human"]
    /\ profile' = [profile EXCEPT ![cur.worker] = cur.step]
    /\ surface' = [surface EXCEPT ![TargetOf[cur.step]] = cur.step]
    /\ IF cur.run = NoRun THEN Done ELSE Evaluate(cur.run)
    /\ UNCHANGED <<run, since, tries, outside, admitted, mishaps>>

ScheduleBlocked ==
    /\ at = "schedule" /\ cur.step \notin LocalSteps
    /\ cur.step \in authorized /\ ~Free(cur.step, cur.worker)
    /\ attempt' = [attempt EXCEPT ![cur.step] = "blocked"]
    /\ IF cur.run = NoRun THEN Done ELSE Evaluate(cur.run)
    /\ UNCHANGED <<run, since, tries, kernel, outside, admitted, mishaps>>

\* createTask throws and the attempt is left as it is.
ScheduleDenied ==
    /\ at = "schedule" /\ cur.step \notin LocalSteps
    /\ cur.step \notin authorized
    /\ Done
    /\ UNCHANGED <<run, since, attempt, tries, kernel, outside, admitted, mishaps>>

\* Nothing can be selected, or the loop was left: maybeCompleteMission.
Undecided(r) ==
    \/ Of[r] \notin policy /\ \A s \in StepsOf(r) : ~Ready(s)
    \/ /\ Of[r] \in policy
       /\ (\A s \in StepsOf(r) : ~Ready(s)) \/ Choices(Of[r]) = {}
EndEvaluation ==
    /\ \/ at = "evaluate" /\ (run[cur.run] # "running" \/ Undecided(cur.run))
       \/ at = "end"
    /\ run' = IF /\ run[cur.run] = "running"
                 /\ \A s \in StepsOf(cur.run) : attempt[s] = "completed"
              THEN [run EXCEPT ![cur.run] = "completed"] ELSE run
    /\ Done
    /\ UNCHANGED <<since, attempt, tries, kernel, outside, admitted, mishaps>>

--------------------------------------------------------------------------
(* retryStepAfterReview *)

\* The old execution gives its locks back, then S2
\* starts the new attempt itself.  The scheduler is not asked.
ReviewAttempt(s) ==
    /\ at = "idle"
    /\ attempt[s] \in {"cancelled", "recovery_required"} /\ tries[s] < MaxTries
    /\ Release(s)
    /\ Goto("retry", NoRun, s, NoWorker)
    /\ UNCHANGED <<run, since, attempt, tries, outside, admitted, mishaps>>

RetryAttempt ==
    /\ at = "retry"
    /\ run' = IF run[RunOf[cur.step]] = "recovery_required"
              THEN [run EXCEPT ![RunOf[cur.step]] = "running"] ELSE run
    /\ IF run'[RunOf[cur.step]] # "running"
       THEN UNCHANGED <<attempt, tries, admitted>> /\ Done
       ELSE /\ attempt' = [attempt EXCEPT ![cur.step] = "ready"]
            /\ tries' = [tries EXCEPT ![cur.step] = @ + 1]
            /\ admitted' = admitted \ {cur.step}
            /\ \E w \in AnyWorker(cur.step) : Goto("schedule", NoRun, cur.step, w)
    /\ UNCHANGED <<since, kernel, outside, mishaps>>

\* The process dies.  The records and the lock table come back with it.
Crash ==
    /\ at # "idle" /\ Mishap
    /\ live' = {}
    /\ Done
    /\ UNCHANGED <<run, since, attempt, tries, kernel, authorized,
                   now, policy, admitted>>

--------------------------------------------------------------------------
\* What the service does by itself once a command is under way.
Evaluation ==
    \/ \E s \in Steps : StartUnscheduled(s) \/ Decide(s)
    \/ Accept \/ CreateAttempt
    \/ ExecuteLocal \/ ScheduleReserved \/ ScheduleBlocked \/ ScheduleDenied
    \/ EndEvaluation \/ RetryAttempt

\* What operators, browsers and time do.
Environment ==
    \/ Tick
    \/ \E w \in Workers : WorkerChanges(w)
    \/ \E ws \in Workspaces : RecordSchedulingPolicy(ws)
    \/ \E r \in Runs : StartMission(r) \/ PauseMission(r) \/ ResumeMission(r)
    \/ \E s \in Steps : \/ Finish(s) \/ Reject(s) \/ Fail(s)
                        \/ ReviewAttempt(s) \/ LoseAuthority(s)

Next == Evaluation \/ Environment \/ Crash
Spec == Init /\ [][Next]_vars
==========================================================================
