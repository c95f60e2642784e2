-------------------- MODULE ExecutionKernelProperties --------------------
(***************************************************************************)
(* The properties of the S1 execution kernel, and the refinement that      *)
(* shows it implements SupervisedExecution.                                *)
(***************************************************************************)
EXTENDS ExecutionKernel

\* An execution the process awaits owns every resource of its task: two
\* tasks that share a browser profile or a provider surface never execute
\* at the same time, whatever crashed before.
ExecutionOwnsResources == \A t \in Tasks : exec[t] # "none" => HoldsAll(t)

\* A run whose outcome is uncertain keeps its resources until a human has
\* reviewed it: nothing else executes on them meanwhile.
UncertainRunBlocksOthers ==
    \A t, u \in Tasks :
        /\ t # u /\ Needs[t] \cap Needs[u] # {}
        /\ run[t] = "waiting_human" /\ recovery[t] # "none" /\ t \notin released
        => exec[u] = "none"

\* The target receives the submission of a task at most once, over any
\* number of approvals, failures, restarts and reviewed retries.
EffectAtMostOnce == \A t \in Tasks : effects[t] <= 1

\* A submission was approved by a human and announced in the event log, and
\* evidence is never recorded for a submission that did not happen.
EffectIsAuthorized ==
    \A t \in Tasks :
        /\ effects[t] > 0 => gate[t] = "approved" /\ t \in started \cap reserved
        /\ t \in evidence => effects[t] > 0 /\ run[t] = "result_observed"

\* Whenever the process has no command in progress, the lock table in memory
\* is exactly what a restart would rebuild from the event log.
LockTableMatchesLog ==
    Idle => \A t \in Tasks :
        IF t \in LoggedHolders THEN HoldsAll(t) ELSE ~HoldsSome(t)

\* At whatever step the process dies, the log it leaves can be replayed:
\* rehydrateLocks never meets two reservations of one resource.
RestartIsPossible == ~ReplayConflict

\* Once a run carries a recovery reason its effect is never attempted again.
ReplaysNothing == \A t \in Tasks :
    recovery[t] # "none" => effects'[t] = effects[t] /\ exec'[t] = "none"
NeverReplayed == [][ReplaysNothing]_vars

\* The kernel implements the supervised execution it promises; crashes and
\* restarts are invisible there, because ownership is read off the log.
Promise == INSTANCE SupervisedExecution
    WITH decision <- gate, holding <- LoggedHolders, effects <- effects
PromiseKept == Promise!Spec

\* An execution that was started is settled: its result is observed or it
\* is put before a human, also when the process dies meanwhile.
ActiveRunSettles ==
    \A t \in Tasks :
        run[t] = "active" ~> run[t] \in {"result_observed", "waiting_human"}

--------------------------------------------------------------------------
(* The inductive strengthening of the safety properties                    *)

\* What the step about to be taken may rely on.
StepInv ==
    /\ at = "request" => run[cur] = "none" /\ task[cur] # "none"
    /\ at \in {"reserve", "ask"} =>
        /\ run[cur] = "waiting_human" /\ recovery[cur] = "none"
        /\ gate[cur] = "none" /\ effects[cur] = 0
        /\ at = "ask" <=> cur \in reserved
    /\ at = "reserve" => HoldsAll(cur)
    /\ at = "reject_run" =>
        run[cur] = "waiting_human" /\ recovery[cur] = "none" /\ gate[cur] = "rejected"
    /\ at = "reject_released" => run[cur] = "cancelled"
    /\ at \in {"start", "activate"} =>
        run[cur] = "waiting_human" /\ recovery[cur] = "none" /\ gate[cur] = "approved"
    /\ at = "activate" => cur \in started
    /\ at \in {"release", "observe_task", "evidence"} => run[cur] = "result_observed"
    /\ at = "supersede" =>
        /\ recovery[cur] # "none" \/ run[cur] = "cancelled"
        /\ run[cur] \in {"waiting_human", "cancelled"} /\ gate[cur] # "none"
        /\ ~HoldsSome(cur)
    /\ at = "recover" => \A t \in Tasks : exec[t] = "none"
    /\ ~up => at = "idle"

\* How the records of one task depend on one another.
RecordInv(t) ==
    /\ task[t] = "none" => run[t] = "none"
    /\ run[t] \in {"none", "blocked"} => gate[t] = "none" /\ t \notin reserved
    /\ gate[t] = "none" => recovery[t] = "none" /\ effects[t] = 0 /\ run[t] \in {"none", "blocked", "waiting_human"}
    /\ gate[t] # "none" => t \in reserved
    /\ gate[t] = "requested" => run[t] = "waiting_human" /\ recovery[t] = "none"
    /\ run[t] \in {"active", "result_observed"} =>
        gate[t] = "approved" /\ recovery[t] = "none" /\ t \in started
    /\ run[t] = "active" => t \notin released
    /\ run[t] = "result_observed" => effects[t] = 1
    /\ recovery[t] # "none" => run[t] \in {"waiting_human", "cancelled"}
    /\ run[t] = "cancelled" /\ recovery[t] = "none" => gate[t] = "rejected"
    /\ t \in released => run[t] \in SettledRun \/ recovery[t] # "none"
    /\ t \in evidence => run[t] = "result_observed"
    /\ effects[t] > 0 =>
        /\ gate[t] = "approved" /\ t \in started
        /\ run[t] \in {"active", "result_observed"} \/ recovery[t] # "none"

ExecInv(t) ==
    /\ exec[t] # "none" => up /\ run[t] = "active"
    /\ exec[t] = "submitting" => effects[t] = 0
    /\ exec[t] = "submitted" => effects[t] = 1
    /\ effects[t] <= 1

\* The table holds what the log says, except for a reservation not yet
\* logged and for a result whose locks are about to be released.
LockInv ==
    /\ ~ReplayConflict
    /\ up => \A t \in Tasks :
        /\ t \in LoggedHolders => HoldsAll(t)
        /\ HoldsSome(t) => t \in LoggedHolders \/ (at \in {"reserve", "release"} /\ cur = t)

KernelInv ==
    /\ StepInv
    /\ \A t \in Tasks : RecordInv(t) /\ ExecInv(t)
    /\ LockInv
==========================================================================
