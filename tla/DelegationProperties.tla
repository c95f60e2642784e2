----------------------- MODULE DelegationProperties -----------------------
(* What has to hold of controlled delegation between two instances.        *)
EXTENDS ControlledDelegation

\* classifyDelegationRequestAppend: however the exchange delays, repeats or
\* loses requests, the destination holds a prefix of what the source asked.
InboundIsPrefix ==
    /\ \A q \in inbound : asks[q] # NotAsked
    /\ \A q \in inbound : 1..q \subseteq inbound

\* approveDelegationProposal: there is local work only for a request that
\* was asked, under a policy the destination recorded, and that a human of
\* the destination approved; neither a later refusal, an expiry of gate or
\* policy nor a crash takes the approval back.
RemoteWorkIsAuthorized ==
    \A q \in Requests : work[q] # "none" =>
        gate[q] = "approved" /\ asks[q] # NotAsked /\ policy # "missing"

\* Delegated work takes effect once, and once more only after a review,
\* through crashes of both instances and repeated approvals.
EffectsAreReviewed ==
    \A q \in Requests : effects[q] <= IF q \in reviewed THEN 2 ELSE 1

\* currentAdmission: the requests that wait for a decision stay below the
\* limit of the policy, and so does the accepted work that has not started.
CapsHold ==
    /\ Cardinality({q \in Requests : proposal[q] = "waiting_human"}) < MaxPending
    /\ Cardinality(NotStarted) <= MaxNotStarted

\* validateSourceStepBindingInput and evaluateRun: the source itself never
\* executes a step it delegated, unless a human retried the step.
DelegatedStepStaysRemote ==
    \A s \in localEffects : Delegated(s) => attempt[s] = "retried"

\* consumeDelegationReceipt: of all the receipts of a request that was made
\* for a step, at most one is ever consumed.
ConsumedOnce ==
    \A q \in bound, r1, r2 \in Revisions :
        <<q, r1>> \in consumed /\ <<q, r2>> \in consumed => r1 = r2

GateDecision(g) == CASE g = "approved" -> "accepted" [] g = "rejected" -> "rejected" [] OTHER -> "none"

Promise == INSTANCE DelegationPromise WITH
    asked <- asks,
    decision <- [q \in Requests |-> GateDecision(gate[q])],
    performed <- {q \in Requests : effects[q] > 0},
    released <- {s \in Steps : attempt[s] = "completed"}

\* Two instances, their crashes and the exchange keep the promise: every
\* request is decided once, at the destination, before its work, and the
\* source goes on only with work that was performed for it.
PromiseKept == Promise!Spec

--------------------------------------------------------------------------
(* The inductive invariant *)

AttemptState == {"none", "created", "blocked", "local", "released", "active", "completed",
                 "recovery_required", "retried"}
WorkState == {"none", "deferred", "waiting", "active", "submitted", "observed", "uncertain", "cancelled"}
ProposalState == {"none", "received", "inadmissible", "waiting_human", "rejected", "bound",
                  "cancelled_before_start"}
SourceAt == {"idle", "bind", "ensure", "block", "evaluate", "consume", "activate", "complete", "record"}
DestinationStep == {"idle", "propose", "admit", "ask", "wait", "deny", "expire", "approve", "create",
                    "bind", "bound", "reject", "cancel", "publish"}

SourceTypeOK ==
    /\ asks \in [Requests -> Steps \cup {NoStep, NotAsked}] /\ bound \subseteq Requests
    /\ mission \in {"none", "running", "recovery_required"} /\ attempt \in [Steps -> AttemptState]
    /\ mirror \subseteq Requests \X Revisions /\ consumed \subseteq Requests \X Revisions
    /\ requested \subseteq Requests /\ withdrawn \subseteq Requests
    /\ src \in [at : SourceAt, req : 0..MaxRequests, rev : 0..MaxReceipts]
    /\ localEffects \subseteq Steps

DestinationTypeOK ==
    /\ peers \subseteq Roles /\ policy \in {"missing", "current", "expired"}
    /\ inbound \subseteq Requests /\ proposal \in [Requests -> ProposalState]
    /\ admission \in [Requests -> {"none", "admissible", "inadmissible"}]
    /\ gate \in [Requests -> {"none", "requested", "approved", "rejected", "expired"}]
    /\ work \in [Requests -> WorkState] /\ binding \in [Requests -> {"none", "deferred", "started"}]
    /\ reviewed \subseteq Requests
    /\ cancel \in [Requests -> {"none", "pending_local_decision", "rejected_locally",
                                "non_authoritative_after_start", "accepted_locally"}]
    /\ receipts \in [Requests -> Seq({"running", "completed"})]
    /\ delivered \subseteq Requests \X Revisions
    /\ dst \in [at : DestinationStep, req : 0..MaxRequests]
    /\ effects \in [Requests -> Nat]

TypeOK == SourceTypeOK /\ DestinationTypeOK /\ crashes \in Nat

\* What an instance holds of a request was asked for by the source.
InboxInv ==
    /\ \A q \in requested : asks[q] # NotAsked
    /\ InboundIsPrefix
    /\ \A q \in Requests : proposal[q] # "none" \/ gate[q] # "none" => q \in inbound
    /\ RemoteWorkIsAuthorized

\* What the chain of the destination in progress may rely on.
ChainInv ==
    /\ dst.at # "idle" => dst.req \in inbound
    /\ dst.at \in {"propose", "admit", "ask"} => gate[dst.req] = "none"
    /\ dst.at \in {"admit", "ask", "wait"} => proposal[dst.req] = "received"
    /\ dst.at \in {"ask", "wait"} => Cardinality(Pending) < MaxPending
    /\ dst.at = "approve" => gate[dst.req] = "requested"
    /\ dst.at = "create" => gate[dst.req] = "approved" /\ work[dst.req] = "none"
    /\ dst.at \in {"approve", "create", "bind"} =>
          policy # "missing" /\ Cardinality(NotStarted) < MaxNotStarted
    /\ dst.at \in {"bind", "publish"} => work[dst.req] # "none"

\* How often delegated work took effect, by how far it got.
WorkInv ==
    /\ \A q \in Requests : work[q] = "none" => effects[q] = 0 /\ q \notin reviewed
    /\ \A q \in Requests : work[q] \in {"submitted", "observed"} => effects[q] > 0
    /\ \A q \in Requests : work[q] \in {"deferred", "waiting", "active", "cancelled"} =>
          effects[q] <= IF q \in reviewed THEN 1 ELSE 0
    /\ EffectsAreReviewed

\* A receipt anywhere was published for work; a final one for performed work.
ReceiptInv ==
    /\ \A q \in Requests : receipts[q] # <<>> => work[q] # "none"
    /\ \A q \in Requests, r \in Revisions : <<q, r>> \in delivered => r \in DOMAIN receipts[q]
    /\ \A q \in Requests : \A r \in DOMAIN receipts[q] : receipts[q][r] = "completed" => effects[q] > 0
    /\ mirror \subseteq delivered /\ consumed \subseteq mirror

\* Delegation comes before the mission; what runs by itself was not delegated.
AttemptInv ==
    /\ mission = "none" => \A s \in Steps : attempt[s] = "none"
    /\ src.at \notin {"idle", "bind"} => mission # "none"
    /\ \A q \in bound : asks[q] \in Steps
    /\ src.at = "bind" => mission = "none" /\ src.req # 0 /\ asks[src.req] \in Steps
    /\ src.at = "evaluate" => \A q \in bound : attempt[asks[q]] # "none"
    /\ \A s \in Steps : attempt[s] = "local" => ~Delegated(s)
    /\ \A s \in localEffects : attempt[s] \in {"local", "retried"}

\* The receipt in hand is final and the first one for its request.
ConsumptionInv ==
    /\ src.at \in {"ensure", "block"} /\ src.req # 0 => src.req \in bound /\ src.rev # 0
    /\ src.at \in {"consume", "activate", "complete", "record"} => src.req \in bound /\ src.rev # 0
    /\ src.at \notin {"idle", "bind"} /\ src.req # 0 =>
          effects[src.req] > 0 /\ <<src.req, src.rev>> \in mirror
    /\ src.at = "activate" => attempt[asks[src.req]] = "released"
    /\ src.at = "complete" => attempt[asks[src.req]] = "active"
    /\ src.at = "record" => attempt[asks[src.req]] = "completed"
    /\ src.at \in {"bind", "activate", "complete", "record"} =>
          \A r \in Revisions : <<src.req, r>> \notin consumed
    /\ \A q \in bound, r \in Revisions : <<q, r>> \in consumed => attempt[asks[q]] = "completed"
    /\ ConsumedOnce

DelegationInv ==
    /\ TypeOK /\ InboxInv /\ ChainInv /\ WorkInv /\ ReceiptInv /\ AttemptInv /\ ConsumptionInv
    /\ CapsHold
===========================================================================
