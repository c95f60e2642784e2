----------------------- MODULE ControlledDelegation -----------------------
(***************************************************************************)
(* S8 controlled delegation: a source instance asks a destination instance *)
(* to do the work of a mission step, over an exchange both poll.           *)
(*                                                                         *)
(* The exchange is the set of what was ever submitted to it, so a message  *)
(* may arrive late, more than once, out of order or never; reading it      *)
(* again changes nothing that is already stored.  The request with number  *)
(* q is the one with sequence q: ids and digests follow from the sequence. *)
(* Each instance runs its commands as chains of saves (src and dst say     *)
(* which comes next) and may die between two of them.                      *)
(***************************************************************************)
EXTENDS Naturals, Sequences, FiniteSets

CONSTANTS
    Steps,          \* delegable steps of the source mission
    NoStep,         \* a request for no particular step
    NotAsked,
    MaxRequests,    \* bound: requests of the source
    MaxPending,     \* policy.maxPendingRequests
    MaxNotStarted,  \* policy.maxAcceptedNotStarted
    MaxReceipts,    \* bound: receipt revisions of a request
    MaxCrashes      \* bound: crashes of the two instances

ASSUME DelegationAssumption ==
    /\ NoStep \notin Steps /\ NotAsked \notin Steps /\ NoStep # NotAsked
    /\ MaxRequests \in Nat /\ MaxPending \in Nat \ {0} /\ MaxNotStarted \in Nat \ {0}
    /\ MaxReceipts \in Nat \ {0} /\ MaxCrashes \in Nat

Requests == 1..MaxRequests
Revisions == 1..MaxReceipts

VARIABLES
    \* what the operators of both instances set up
    peers,      \* instances with a delegationPeerBinding of this peer
    policy,     \* the destination's delegationPolicy for this peer
    \* SQLite of the source
    asks,       \* delegationRequest, with its sourcePlanStepId
    bound,      \* requests with a delegationSourceStepBinding
    mission,    \* state of the run of the source mission
    attempt,    \* the latest attempt of a source step
    mirror,     \* receipts in delegationReceiptMirror
    consumed,   \* receipts in delegationReceiptConsumption
    \* SQLite of the destination
    inbound,    \* delegationRequest, direction inbound
    proposal,   \* delegationProposal.state
    admission,  \* the latest admission snapshot
    gate,       \* delegationHumanGate.state
    work,       \* the destination-local mission of the request
    binding,    \* delegatedExecutionBinding: with or without a localExecutionRunId
    reviewed,   \* requests whose work was retried after a review
    cancel,     \* delegationCancellation, direction inbound
    receipts,   \* delegationReceipt, by revision
    \* what was submitted to the exchange
    requested, delivered, withdrawn,
    \* the commands in progress
    src, dst,
    \* the world
    effects,        \* submissions of the delegated work
    localEffects,   \* source steps whose own execution submitted
    crashes

source == <<asks, bound, mission, attempt, mirror, consumed>>
destination == <<inbound, proposal, admission, gate, work, binding, reviewed, cancel, receipts>>
exchange == <<requested, delivered, withdrawn>>
world == <<effects, localEffects, crashes>>
setup == <<peers, policy>>
vars == <<setup, source, destination, exchange, src, dst, world>>

Set(f, x, v) == [f EXCEPT ![x] = v]
Idle == [at |-> "idle", req |-> 0, rev |-> 0]
SourceIdle == src = Idle
DestinationIdle == dst = [at |-> "idle", req |-> 0]
DestinationAt(s, q) == dst = [at |-> s, req |-> q]
DestinationGoto(s, q) == dst' = [at |-> s, req |-> q]
DestinationDone == DestinationGoto("idle", 0)

Init ==
    /\ peers = {} /\ policy = "missing"
    /\ asks = [q \in Requests |-> NotAsked] /\ bound = {}
    /\ mission = "none" /\ attempt = [s \in Steps |-> "none"]
    /\ mirror = {} /\ consumed = {}
    /\ inbound = {}
    /\ proposal = [q \in Requests |-> "none"] /\ admission = [q \in Requests |-> "none"]
    /\ gate = [q \in Requests |-> "none"] /\ work = [q \in Requests |-> "none"]
    /\ binding = [q \in Requests |-> "none"] /\ reviewed = {}
    /\ cancel = [q \in Requests |-> "none"] /\ receipts = [q \in Requests |-> <<>>]
    /\ requested = {} /\ delivered = {} /\ withdrawn = {}
    /\ src = Idle /\ dst = [at |-> "idle", req |-> 0]
    /\ effects = [q \in Requests |-> 0] /\ localEffects = {} /\ crashes = 0

--------------------------------------------------------------------------
(* The two instances are set up                                            *)

Roles == {"source", "destination"}

\* createDelegationPolicySnapshot: an expiry lies after the creation.
NewPolicy == "current"

\* recordPeerBinding: every instance records the peer for itself, as the
\* source or as the destination, and never changes it again.
RecordPeerBinding(i) ==
    /\ i \notin peers /\ peers' = peers \cup {i}
    /\ UNCHANGED <<policy, source, destination, exchange, src, dst, world>>

\* recordDelegationPolicy: only the destination has policies, for a peer it knows.
RecordDelegationPolicy ==
    /\ "destination" \in peers /\ policy = "missing"
    /\ policy' = NewPolicy
    /\ UNCHANGED <<peers, source, destination, exchange, src, dst, world>>

\* The clock passes the policy's expiresAt.
ExpirePolicy ==
    /\ policy = "current" /\ policy' = "expired"
    /\ UNCHANGED <<peers, source, destination, exchange, src, dst, world>>
--------------------------------------------------------------------------
(* The exchange keeps what it is given, each message once                  *)

AppendRequest(q) == requested' = requested \cup {q}
AppendReceipt(q, r) == delivered' = delivered \cup {<<q, r>>}

\* A cancellation of a request the exchange has not seen is refused.
AppendCancellation(q) == q \in requested /\ withdrawn' = withdrawn \cup {q}

ReadInbox == requested
ReadReceipts == delivered
ReadCancellations == withdrawn
--------------------------------------------------------------------------
(* The source asks                                                         *)

Delegated(s) == \E q \in bound : asks[q] = s
IsNextSequence(q) == asks[q] = NotAsked /\ \A p \in 1..(q - 1) : asks[p] # NotAsked

\* createDelegationRequest: what was asked never changes again.
NewRequest(q, s) == Set(asks, q, s)

\* Mutation: a step may be delegated although its mission has started.
CreateRequestAnyTime(q, s) ==
    /\ SourceIdle /\ "source" \in peers /\ IsNextSequence(q)
    /\ s # NoStep => ~Delegated(s)
    /\ asks' = NewRequest(q, s)
    /\ src' = IF s = NoStep THEN Idle ELSE [src EXCEPT !.at = "bind", !.req = q]
    /\ UNCHANGED <<setup, bound, mission, attempt, mirror, consumed, destination, exchange, dst, world>>

\* createDelegationRequest: a step is delegated before its mission starts.
CreateRequest(q, s) ==
    /\ SourceIdle /\ "source" \in peers /\ IsNextSequence(q)
    /\ s # NoStep => mission = "none" /\ ~Delegated(s)
    /\ asks' = NewRequest(q, s)
    /\ src' = IF s = NoStep THEN Idle ELSE [src EXCEPT !.at = "bind", !.req = q]
    /\ UNCHANGED <<setup, bound, mission, attempt, mirror, consumed, destination, exchange, dst, world>>

BindStep ==
    /\ src.at = "bind"
    /\ bound' = bound \cup {src.req}
    /\ src' = Idle
    /\ UNCHANGED <<setup, asks, mission, attempt, mirror, consumed, destination, exchange, dst, world>>

\* pushDelegationRequest, as often as the operator likes.
PushRequest(q) ==
    /\ asks[q] # NotAsked
    /\ ~(src.at = "bind" /\ src.req = q)
    /\ AppendRequest(q)
    /\ UNCHANGED <<setup, source, destination, delivered, withdrawn, src, dst, world>>

\* proposeDelegationCancellation
ProposeCancellation(q) ==
    /\ asks[q] # NotAsked /\ AppendCancellation(q)
    /\ UNCHANGED <<setup, source, destination, requested, delivered, src, dst, world>>

--------------------------------------------------------------------------
(* The source mission                                                      *)

StartMission ==
    /\ SourceIdle /\ mission = "none"
    /\ mission' = "running" /\ src' = [src EXCEPT !.at = "ensure"]
    /\ UNCHANGED <<setup, asks, bound, attempt, mirror, consumed, destination, exchange, dst, world>>

ResumeMission ==
    /\ SourceIdle /\ mission \in {"running", "recovery_required"}
    /\ mission' = "running" /\ src' = [src EXCEPT !.at = "ensure"]
    /\ UNCHANGED <<setup, asks, bound, attempt, mirror, consumed, destination, exchange, dst, world>>

\* ensureDelegatedSourceAttemptsBlocked saves the attempt of a delegated
\* step as ready and then as blocked.
EnsureAttempt(q) ==
    /\ src.at = "ensure" /\ q \in bound /\ attempt[asks[q]] = "none"
    /\ attempt' = Set(attempt, asks[q], "created")
    /\ src' = [src EXCEPT !.at = "block"]
    /\ UNCHANGED <<setup, asks, bound, mission, mirror, consumed, destination, exchange, dst, world>>

\* The rest of a crash, an attempt created and never blocked, stays as it is.
BlockAttempt(s) ==
    /\ src.at = "block" /\ attempt[s] = "created"
    /\ attempt' = Set(attempt, s, "blocked")
    /\ src' = [src EXCEPT !.at = "ensure"]
    /\ UNCHANGED <<setup, asks, bound, mission, mirror, consumed, destination, exchange, dst, world>>

Ensured ==
    /\ src.at = "ensure" /\ \A q \in bound : attempt[asks[q]] # "none"
    /\ src' = [src EXCEPT !.at = IF src.req = 0 THEN "evaluate" ELSE "consume"]
    /\ UNCHANGED <<setup, source, destination, exchange, dst, world>>

\* evaluateRun schedules every other step for an execution of its own.
ScheduleStep(s) ==
    /\ src.at = "evaluate" /\ attempt[s] = "none"
    /\ attempt' = Set(attempt, s, "local")
    /\ UNCHANGED <<setup, asks, bound, mission, mirror, consumed, destination, exchange, src, dst, world>>

EndEvaluation ==
    /\ src.at = "evaluate" /\ \A s \in Steps : attempt[s] # "none"
    /\ src' = Idle
    /\ UNCHANGED <<setup, source, destination, exchange, dst, world>>

\* What the kernel does for an attempt that has an execution run.
LocalSubmit(s) ==
    /\ attempt[s] \in {"local", "retried"}
    /\ localEffects' = localEffects \cup {s}
    /\ UNCHANGED <<setup, source, destination, exchange, src, dst, effects, crashes>>

\* retryStepAfterReview gives the step an attempt that nothing blocks.
RetryStep(s) ==
    /\ SourceIdle /\ mission \in {"running", "recovery_required"}
    /\ attempt[s] = "recovery_required"
    /\ mission' = "running" /\ attempt' = Set(attempt, s, "retried")
    /\ UNCHANGED <<setup, asks, bound, mirror, consumed, destination, exchange, src, dst, world>>
--------------------------------------------------------------------------
(* The source takes receipts                                               *)

\* pullDelegationReceipts
PullReceipt(q, r) ==
    /\ SourceIdle /\ <<q, r>> \in ReadReceipts
    /\ mirror' = mirror \cup {<<q, r>>}
    /\ UNCHANGED <<setup, asks, bound, mission, attempt, consumed, destination, exchange, src, dst, world>>

Consumable(q, r) == <<q, r>> \in mirror \ consumed /\ receipts[q][r] = "completed"

\* consumeDelegationReceipt: a request without a bound step only has its
\* receipt recorded.
ConsumeUnbound(q, r) ==
    /\ SourceIdle /\ Consumable(q, r) /\ q \notin bound
    /\ consumed' = consumed \cup {<<q, r>>}
    /\ UNCHANGED <<setup, asks, bound, mission, attempt, mirror, destination, exchange, src, dst, world>>

ConsumeBound(q, r) ==
    /\ SourceIdle /\ Consumable(q, r) /\ q \in bound
    /\ mission = "running"
    /\ src' = [at |-> "ensure", req |-> q, rev |-> r]
    /\ UNCHANGED <<setup, source, destination, exchange, dst, world>>

\* Mutation: a completed attempt is good enough for another receipt.
ReleaseAttemptAgain ==
    /\ src.at = "consume"
    /\ LET s == asks[src.req] IN
       IF attempt[s] \in {"blocked", "completed"}
       THEN attempt' = Set(attempt, s, "released") /\ src' = [src EXCEPT !.at = "activate"]
       ELSE UNCHANGED attempt /\ src' = Idle
    /\ UNCHANGED <<setup, asks, bound, mission, mirror, consumed, destination, exchange, dst, world>>

\* Only the attempt that waits for a receipt takes one: blocked to ready.
ReleaseAttempt ==
    /\ src.at = "consume"
    /\ LET s == asks[src.req] IN
       IF attempt[s] = "blocked"
       THEN attempt' = Set(attempt, s, "released") /\ src' = [src EXCEPT !.at = "activate"]
       ELSE UNCHANGED attempt /\ src' = Idle
    /\ UNCHANGED <<setup, asks, bound, mission, mirror, consumed, destination, exchange, dst, world>>

ActivateAttempt ==
    /\ src.at = "activate"
    /\ attempt' = Set(attempt, asks[src.req], "active") /\ src' = [src EXCEPT !.at = "complete"]
    /\ UNCHANGED <<setup, asks, bound, mission, mirror, consumed, destination, exchange, dst, world>>

CompleteAttempt ==
    /\ src.at = "complete"
    /\ attempt' = Set(attempt, asks[src.req], "completed") /\ src' = [src EXCEPT !.at = "record"]
    /\ UNCHANGED <<setup, asks, bound, mission, mirror, consumed, destination, exchange, dst, world>>

RecordConsumption ==
    /\ src.at = "record"
    /\ consumed' = consumed \cup {<<src.req, src.rev>>}
    /\ src' = [Idle EXCEPT !.at = "ensure"]
    /\ UNCHANGED <<setup, asks, bound, mission, attempt, mirror, destination, exchange, dst, world>>
--------------------------------------------------------------------------
(* The destination receives a request                                      *)

\* Mutation: a gap in the sequence is accepted.
FollowsWithGap(q) == q \notin inbound /\ \A p \in inbound : p < q

\* classifyDelegationRequestAppend: known requests are duplicates, older
\* ones are divergent, and a gap is refused.
Follows(q) == q \notin inbound /\ (\A p \in inbound : p < q) /\ (q = 1 \/ q - 1 \in inbound)

ReceiveRequest(q) ==
    /\ DestinationIdle /\ q \in ReadInbox /\ "destination" \in peers /\ Follows(q)
    /\ inbound' = inbound \cup {q}
    /\ DestinationGoto("propose", q)
    /\ UNCHANGED <<setup, source, proposal, admission, gate, work, binding, reviewed, cancel, receipts, exchange, src, world>>

NewProposal(q) == Set(proposal, q, "received")
SaveProposal(q) ==
    /\ DestinationAt("propose", q)
    /\ proposal' = NewProposal(q)
    /\ DestinationGoto("admit", q)
    /\ UNCHANGED <<setup, source, inbound, admission, gate, work, binding, reviewed, cancel, receipts, exchange, src, world>>

Pending == {q \in Requests : proposal[q] \in {"received", "inadmissible", "waiting_human"}}
NotStarted == {q \in Requests : binding[q] = "deferred"}

\* Mutation: the caps of the policy are not looked at.
WithoutCaps == TRUE

\* The caps count what is stored, the proposal in question included.
WithinCaps == Cardinality(Pending) < MaxPending /\ Cardinality(NotStarted) < MaxNotStarted

\* The policy is of this peer, active and not expired.
PolicyAllows == "destination" \in peers /\ policy = "current"

\* currentAdmission: without a policy that allows the request, and beyond its
\* limits, there is no admission; the local installation, grant, provider,
\* resources and scheduling may refuse as well, at any time.
Evaluate(q) == \E a \in {"admissible", "inadmissible"} :
    /\ a = "admissible" => PolicyAllows /\ WithinCaps
    /\ admission' = Set(admission, q, a)

AdmitProposal(q) ==
    /\ DestinationAt("admit", q)
    /\ Evaluate(q)
    /\ DestinationGoto(IF admission'[q] = "admissible" THEN "ask" ELSE "deny", q)
    /\ UNCHANGED <<setup, source, inbound, proposal, gate, work, binding, reviewed, cancel, receipts, exchange, src, world>>

RequestGate(q) ==
    /\ DestinationAt("ask", q)
    /\ gate' = Set(gate, q, "requested")
    /\ DestinationGoto("wait", q)
    /\ UNCHANGED <<setup, source, inbound, proposal, admission, work, binding, reviewed, cancel, receipts, exchange, src, world>>

\* The last save of a chain that only changes the proposal.
Verdict == [wait |-> "waiting_human", deny |-> "inadmissible", reject |-> "rejected", bound |-> "bound"]
SettleProposal(q) ==
    /\ \E s \in DOMAIN Verdict : DestinationAt(s, q) /\ proposal' = Set(proposal, q, Verdict[s])
    /\ DestinationDone
    /\ UNCHANGED <<setup, source, inbound, admission, gate, work, binding, reviewed, cancel, receipts, exchange, src, world>>
--------------------------------------------------------------------------
(* The destination decides                                                 *)

\* Mutation: an approval does not ask whether the gate is still open.
RevalidateDecided(q) ==
    /\ DestinationIdle /\ proposal[q] = "waiting_human"
    /\ Evaluate(q)
    /\ IF admission'[q] = "inadmissible" THEN DestinationGoto("expire", q) ELSE DestinationGoto("approve", q)
    /\ UNCHANGED <<setup, source, inbound, proposal, gate, work, binding, reviewed, cancel, receipts, exchange, src, world>>

\* approveDelegationProposal: the admission is evaluated again, and an
\* approval needs a gate nobody has decided.
RevalidateProposal(q) ==
    /\ DestinationIdle /\ proposal[q] = "waiting_human" /\ binding[q] = "none"
    /\ Evaluate(q)
    /\ CASE admission'[q] = "inadmissible" -> DestinationGoto("expire", q)
         [] admission'[q] = "admissible" /\ gate[q] = "requested" -> DestinationGoto("approve", q)
         [] OTHER -> DestinationDone
    /\ UNCHANGED <<setup, source, inbound, proposal, gate, work, binding, reviewed, cancel, receipts, exchange, src, world>>

ExpireGate(q) ==
    /\ DestinationAt("expire", q)
    /\ gate' = Set(gate, q, IF gate[q] = "requested" THEN "expired" ELSE gate[q])
    /\ DestinationGoto("deny", q)
    /\ UNCHANGED <<setup, source, inbound, proposal, admission, work, binding, reviewed, cancel, receipts, exchange, src, world>>

ApproveGate(q) ==
    /\ DestinationAt("approve", q)
    /\ gate' = Set(gate, q, "approved")
    /\ DestinationGoto("create", q)
    /\ UNCHANGED <<setup, source, inbound, proposal, admission, work, binding, reviewed, cancel, receipts, exchange, src, world>>

\* createLocalDelegatedMission starts a mission of one step; scheduling may
\* leave the step for later.
CreateWork(q) ==
    /\ DestinationAt("create", q)
    /\ \E w \in {"waiting", "deferred"} : work' = Set(work, q, w)
    /\ DestinationGoto("bind", q)
    /\ UNCHANGED <<setup, source, inbound, proposal, admission, gate, binding, reviewed, cancel, receipts, exchange, src, world>>

\* Bound to the local mission, started or not.
NewBinding(q) == Set(binding, q, IF work[q] = "deferred" THEN "deferred" ELSE "started")
BindWork(q) ==
    /\ DestinationAt("bind", q)
    /\ binding' = NewBinding(q)
    /\ DestinationGoto("bound", q)
    /\ UNCHANGED <<setup, source, inbound, proposal, admission, gate, work, reviewed, cancel, receipts, exchange, src, world>>

\* What createDelegationAcceptance asks of a proposal that is decided
Decidable(q) == proposal[q] = "waiting_human" /\ admission[q] = "admissible"

\* Mutation: a rejection does not ask whether the gate is still open.
RejectDecided(q) ==
    /\ DestinationIdle /\ Decidable(q)
    /\ gate' = Set(gate, q, "rejected")
    /\ DestinationGoto("reject", q)
    /\ UNCHANGED <<setup, source, inbound, proposal, admission, work, binding, reviewed, cancel, receipts, exchange, src, world>>

RejectProposal(q) ==
    /\ DestinationIdle /\ Decidable(q)
    /\ gate[q] = "requested"
    /\ gate' = Set(gate, q, "rejected")
    /\ DestinationGoto("reject", q)
    /\ UNCHANGED <<setup, source, inbound, proposal, admission, work, binding, reviewed, cancel, receipts, exchange, src, world>>

ReceiveCancellation(q) ==
    /\ DestinationIdle /\ q \in ReadCancellations \cap inbound /\ cancel[q] = "none"
    /\ cancel' = Set(cancel, q, "pending_local_decision")
    /\ UNCHANGED <<setup, source, inbound, proposal, admission, gate, work, binding, reviewed, receipts, exchange, src, dst, world>>

\* resolveDelegationCancellation, when it leaves the proposal as it is.
RefuseCancellation(q) ==
    /\ DestinationIdle /\ cancel[q] = "pending_local_decision" /\ proposal[q] # "none"
    /\ \/ cancel' = Set(cancel, q, "rejected_locally")
       \/ binding[q] # "none" /\ cancel' = Set(cancel, q, "non_authoritative_after_start")
    /\ UNCHANGED <<setup, source, inbound, proposal, admission, gate, work, binding, reviewed, receipts, exchange, src, dst, world>>

AcceptCancellation(q) ==
    /\ DestinationIdle /\ cancel[q] = "pending_local_decision" /\ binding[q] = "none"
    /\ q \in Pending
    /\ proposal' = Set(proposal, q, "cancelled_before_start")
    /\ DestinationGoto("cancel", q)
    /\ UNCHANGED <<setup, source, inbound, admission, gate, work, binding, reviewed, cancel, receipts, exchange, src, world>>

SettleCancellation(q) ==
    /\ DestinationAt("cancel", q)
    /\ cancel' = Set(cancel, q, "accepted_locally")
    /\ DestinationDone
    /\ UNCHANGED <<setup, source, inbound, proposal, admission, gate, work, binding, reviewed, receipts, exchange, src, world>>
--------------------------------------------------------------------------
(* The destination works, as its mission and kernel do for any local work  *)

\* The binding names the execution run whose approval publishes receipts.
Publishes(q) == binding[q] = "started" /\ q \notin reviewed

WorkGoes(q, from, to) == work[q] \in from /\ work' = Set(work, q, to)
OnlyWork == UNCHANGED <<setup, source, inbound, proposal, admission, gate, binding, cancel, receipts, exchange, src>>

\* A later evaluation, the action gate's decisions, a failure, and the
\* reviewed retry, which has an execution run of its own.
AdvanceWork(q) ==
    /\ DestinationIdle
    /\ \/ WorkGoes(q, {"deferred"}, "waiting") /\ UNCHANGED reviewed
       \/ WorkGoes(q, {"waiting"}, "active") /\ UNCHANGED reviewed
       \/ WorkGoes(q, {"waiting"}, "cancelled") /\ UNCHANGED reviewed
       \/ WorkGoes(q, {"active", "submitted"}, "uncertain") /\ UNCHANGED reviewed
       \/ /\ WorkGoes(q, {"uncertain", "cancelled"}, "waiting")
          /\ q \notin reviewed /\ reviewed' = reviewed \cup {q}
    /\ OnlyWork /\ UNCHANGED <<setup, dst, world>>

SubmitWork(q) ==
    /\ WorkGoes(q, {"active"}, "submitted")
    /\ effects' = Set(effects, q, effects[q] + 1)
    /\ OnlyWork /\ UNCHANGED <<setup, reviewed, dst, localEffects, crashes>>

\* The approval that has been awaiting the execution ends.
ObserveResult(q) ==
    /\ DestinationIdle /\ WorkGoes(q, {"submitted"}, "observed")
    /\ IF Publishes(q) THEN DestinationGoto("publish", q) ELSE UNCHANGED dst
    /\ OnlyWork /\ UNCHANGED <<setup, reviewed, world>>

\* Another approval of the same action gate executes nothing and publishes.
ApproveAgain(q) ==
    /\ DestinationIdle /\ Publishes(q)
    /\ work[q] \in {"active", "submitted", "observed"}
    /\ Len(receipts[q]) + (IF work[q] = "observed" THEN 0 ELSE 1) < MaxReceipts
    /\ DestinationGoto("publish", q)
    /\ UNCHANGED <<setup, source, destination, exchange, src, world>>

\* publishDelegationReceipt saves the next revision ...
PublishReceipt(q) ==
    /\ DestinationAt("publish", q)
    /\ receipts' = Set(receipts, q, Append(receipts[q], IF work[q] = "observed" THEN "completed" ELSE "running"))
    /\ DestinationDone
    /\ UNCHANGED <<setup, source, inbound, proposal, admission, gate, work, binding, reviewed, cancel, exchange, src, world>>

\* ... and submits it, which may take long or never succeed.
DeliverReceipt(q, r) ==
    /\ r \in DOMAIN receipts[q]
    /\ AppendReceipt(q, r)
    /\ UNCHANGED <<setup, source, destination, requested, withdrawn, src, dst, world>>
--------------------------------------------------------------------------
(* Crashes                                                                 *)

\* recoverS2Uncertain puts an active attempt before a human.
CrashSource ==
    /\ crashes < MaxCrashes /\ crashes' = crashes + 1
    /\ src' = Idle
    /\ attempt' = [s \in Steps |-> IF attempt[s] = "active" THEN "recovery_required" ELSE attempt[s]]
    /\ mission' = IF attempt' # attempt THEN "recovery_required" ELSE mission
    /\ UNCHANGED <<setup, asks, bound, mirror, consumed, destination, exchange, dst, effects, localEffects>>

\* Mutation: active work waits for its gate again after a restart.
CrashDestinationReplays ==
    /\ crashes < MaxCrashes /\ crashes' = crashes + 1
    /\ DestinationDone
    /\ work' = [q \in Requests |-> IF work[q] \in {"active", "submitted"} THEN "waiting" ELSE work[q]]
    /\ UNCHANGED <<setup, source, inbound, proposal, admission, gate, binding, reviewed, cancel, receipts,
                   exchange, src, effects, localEffects>>

CrashDestination ==
    /\ crashes < MaxCrashes /\ crashes' = crashes + 1
    /\ DestinationDone
    /\ work' = [q \in Requests |-> IF work[q] \in {"active", "submitted"} THEN "uncertain" ELSE work[q]]
    /\ UNCHANGED <<setup, source, inbound, proposal, admission, gate, binding, reviewed, cancel, receipts,
                   exchange, src, effects, localEffects>>
--------------------------------------------------------------------------
Setup == (\E i \in Roles : RecordPeerBinding(i))
         \/ RecordDelegationPolicy \/ ExpirePolicy

Source ==
    \/ \E q \in Requests : (\E s \in Steps \cup {NoStep} : CreateRequest(q, s))
                           \/ PushRequest(q) \/ ProposeCancellation(q) \/ EnsureAttempt(q)
    \/ \E q \in Requests, r \in Revisions :
        PullReceipt(q, r) \/ ConsumeUnbound(q, r) \/ ConsumeBound(q, r)
    \/ \E s \in Steps : BlockAttempt(s) \/ ScheduleStep(s) \/ LocalSubmit(s) \/ RetryStep(s)
    \/ BindStep \/ StartMission \/ ResumeMission \/ Ensured \/ EndEvaluation
    \/ ReleaseAttempt \/ ActivateAttempt \/ CompleteAttempt \/ RecordConsumption
    \/ CrashSource

Destination ==
    \/ \E q \in Requests :
        \/ ReceiveRequest(q) \/ SaveProposal(q) \/ AdmitProposal(q) \/ RequestGate(q) \/ SettleProposal(q)
        \/ RevalidateProposal(q) \/ ExpireGate(q) \/ ApproveGate(q) \/ CreateWork(q) \/ BindWork(q)
        \/ RejectProposal(q) \/ ReceiveCancellation(q) \/ RefuseCancellation(q)
        \/ AcceptCancellation(q) \/ SettleCancellation(q)
        \/ AdvanceWork(q) \/ SubmitWork(q) \/ ObserveResult(q) \/ ApproveAgain(q) \/ PublishReceipt(q)
    \/ \E q \in Requests, r \in Revisions : DeliverReceipt(q, r)
    \/ CrashDestination

Next == Setup \/ Source \/ Destination
Spec == Init /\ [][Next]_vars
==========================================================================
