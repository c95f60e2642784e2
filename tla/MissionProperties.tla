------------------------ MODULE MissionProperties ------------------------
(***************************************************************************)
(* The properties of the S2 mission orchestrator.                          *)
(***************************************************************************)
EXTENDS MissionOrchestration

Earlier(a, b) == a[1] = b[1] /\ a[2] < b[2]
\* Outcomes after which the target can receive nothing more for the attempt.
Contained(a) == xrun[a] \in {"none", "superseded"}

\* A reviewed retry never competes with the attempt it replaces: every
\* earlier attempt of the step is superseded and cannot reach the target,
\* unless it was reviewed before it knew its execution.
RetryFollowsContainment ==
    \A a, b \in Attempts :
        Earlier(a, b) /\ attempt[b] # "none" /\ a \notin stray => Contained(a)

\* No success is fabricated: a completed external attempt is backed by one
\* submission whose result was observed, and its outputs are recorded.
CompletionIsBacked ==
    \A a \in Attempts : attempt[a] = "completed" =>
        /\ a \in outputs
        /\ External(a) => xrun[a] = "observed" /\ effects[a] = 1

\* A handed-over output was produced, and nobody starts a step whose inputs
\* were not: the submissions follow the plan's dependencies.
EffectsFollowPlan ==
    \A s \in Steps : (\E n \in Numbers(s) : effects[<<s, n>>] > 0) =>
        \A d \in DependsOn[s] : \E n \in Numbers(d) : <<d, n>> \in outputs

\* The orchestrator uses the kernel as the kernel promises to be used.
Promise == INSTANCE SupervisedExecution
    WITH Tasks <- Attempts, Needs <- [a \in Attempts |-> Needs[a[1]]],
         decision <- gate, holding <- Holders
KernelPromiseKept == Promise!Spec

--------------------------------------------------------------------------
(* The inductive invariant *)

Scheduling == {"reserve", "ask", "link"}
Completing == {"observe", "record", "complete", "handoff"}
Rejecting == {"reject_run", "cancel_attempt", "cancel_step"}
Retrying == {"retry_run", "retry"}

\* Nothing reaches the target for this attempt any more, unless nobody knew
\* of its execution when it was reviewed.
Replaceable(a) == External(a) /\ a \notin stray => xrun[a] = "superseded"

\* What the command in progress may rely on.
CommandInv ==
    /\ at \in Scheduling \cup Completing \cup Rejecting \cup Retrying
             \cup {"start", "contain", "contain_run"} => cur \in Attempts /\ attempt[cur] # "none"
    /\ at \in Scheduling \cup Completing \cup {"start"} => back \in {"idle", "evaluate"}
    /\ at \in Scheduling => External(cur)
    /\ at = "ask" => xrun[cur] = "waiting" /\ gate[cur] = "none"
    /\ at = "start" => ~External(cur)
    /\ at \in Completing /\ External(cur) => xrun[cur] = "observed"
    /\ at = "complete" => cur \in outputs
    /\ at = "reject_run" => /\ back \in {"cancel_attempt", "cancel_step"}
                            /\ xrun[cur] = "waiting" /\ gate[cur] = "rejected"
    /\ at \in Retrying => Replaceable(cur) /\ cur[2] < MaxAttempts[cur[1]]
    /\ \A a \in todo : attempt[a] # "none"

\* How far an execution got: its gate, the call and what reached the target.
KernelInv ==
    \A a \in Attempts :
        /\ xrun[a] = "none" => gate[a] = "none"
        /\ gate[a] = "requested" => xrun[a] = "waiting"
        /\ xrun[a] \in {"active", "observed", "uncertain"} => gate[a] = "approved"
        /\ xrun[a] # "none" => External(a) /\ attempt[a] # "none"
        /\ exec[a] # "none" <=> xrun[a] = "active"
        /\ a \in submitted => xrun[a] = "active"
        /\ xrun[a] = "active" => effects[a] = (IF a \in submitted THEN 1 ELSE 0)
        /\ xrun[a] = "observed" => effects[a] = 1
        /\ xrun[a] \in {"none", "blocked", "waiting"} => effects[a] = 0

\* What the records of the attempts say of the plan and of each other.
PlanInv ==
    /\ linked \subseteq {a \in Attempts : attempt[a] # "none"}
    /\ \A a, b \in Attempts : Earlier(a, b) /\ attempt[b] # "none" => Replaceable(a)
    /\ \A a \in Attempts : attempt[a] # "none" =>
          \A d \in DependsOn[a[1]] : \E n \in Numbers(d) : <<d, n>> \in outputs
    /\ CompletionIsBacked

MissionInv == TypeOK /\ CommandInv /\ KernelInv /\ PlanInv

==========================================================================
