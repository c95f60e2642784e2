# ai_exe_os: a TLA+ development

ai_exe_os is a desktop application (Electron, one main process, SQLite) in which humans
supervise agents: a task or a mission step asks for an external effect, a human approves
it at a gate, a browser worker or a provider performs it, and the application records what
happened. Everything of value is in the order of small durable writes around a few
effects that must not be repeated. That is what is modelled here.

Three facts about the program shape every module.

* Every `ProjectionRepository.save` and every `appendEvent` is a SQLite transaction of its
  own. A command (an IPC call) is a chain of such saves, and the process may die between
  any two of them. The modules make each save a step and keep the position in the chain
  in variables (`at`/`cur`, `src`/`dst`, `making`).
* JavaScript runs a command without interleaving others except where it awaits something.
  A command that awaits an effect or an answer is parked in a variable of its own (`exec`,
  `call`, `obs`, `push`, `start`), and every other command may run meanwhile.
* Ids are derived (`boundedId`), so records that belong together are indexed by one key.

## Components

| component | state it keeps | operations | hard behaviour | correct when | modelled |
|---|---|---|---|---|---|
| Supervised execution kernel (S1): coordinator, human gates, resource locks, S1 service | task, run and gate projections, `resource.*`/`execution.*` events, the lock table in memory, awaited worker calls | createTask, approve, reject, reviewed retry, restart | approvals repeat and race with the awaited call; a crash between any two saves; the lock table is rebuilt from the log | effects at most once, only after approval and on owned resources; the log can always be replayed | yes, proved |
| Mission orchestration (S2) | mission run, step attempts, outputs, handoffs | start, evaluate, schedule, approve, pause, resume, cancel, reviewed retry, recover | a second chain of saves over the kernel's; retries, cancellations and recovery of the same attempt | completions are backed by effects; retries never compete; plan order is respected | one run, proved |
| Provider runtime: persisted claims | claim projections shared by several processes, the calls in flight | acquire, recordOutcome, recoverUnfinishedClaims, reviewed retry | two processes, late outcomes, recovery of a live call | one effect per claim, retries only after recorded uncertainty, finished claims final | yes, proved |
| Provider runtime: one call | nothing but the call | compile, plan, authorize, resolve endpoint and credential, execute, classify | checks at different instants, a clock that is set back, exceptions after the effect | no effect without what it needs at that instant; the result bounds what happened | yes, proved |
| Authorization, operation grants | a grant record per process, in memory | evaluate, put, consume, revoke | consume awaits between read and write | decisions expire with what they rest on | yes |
| Controlled delegation (S8) | peer bindings, policies, requests, proposals, admissions, gates, bindings, receipts, mirrors, consumptions on two instances; an exchange both poll | bind, set policy, create, push, pull, admit, approve, reject, cancel, publish, consume | two instances that crash independently; an exchange that repeats, delays and loses | decided once and locally, performed once, consumed once; a delegated step is not also executed at home | mostly, proved |
| Projections and event store | events with unique keys, projections with versions, caches, an import journal | append, appendWithProjection, rebuildProjection, importS0Jsonl | several processes over one file, stale caches, overtaken rebuilds | one history per record, reads are committed, imports are whole | mostly, proved |
| Browser workers and profile leases (S0) | worker records, sessions, lease files, the task log | start, stop, close, submit, acquire, release | lifecycle calls overlap, browser windows close late, two processes | nobody is locked out, a submitted task never looks untouched | mostly, proved |
| Capacity scheduling (S6) | policies, decisions, proposals | evaluateRun with budgets and ageing, revalidate | capacity is taken and freed elsewhere, retries bypass the scheduler | caps hold, what is admitted can start, ageing is bounded and effective | mostly, proved |
| Collaboration sync (S7) | envelopes, cursors, acknowledgements, copies; the mirror | compile, push, pull, acknowledge | overlapping calls, lost and late requests, crashes between envelope and cursor | what is acknowledged is mirrored, a copy is of one moment | mostly, proved |
| GitHub delivery (S3) | bindings, gates, evidence, merge order, dependencies | bind, order, declare, observeDelivery | GitHub moves between the reads, observations overlap, a crash between the saves | a mission is released only by a checked merge at the bound head | mostly, proved |
| Provider adapters (S5) | target bindings, observations | bind, observeProvider | overlapping calls under one id, redirects, bodies that do not end | an id is one intent, evidence is final and of its target | mostly, proved |
| Operator console (S4), checkpoint | derived views, a digest nothing reads | derive | | | no |
| Identity federation, discovery, attestation, domain constructors, IPC, renderer | none | pure functions, dispatch and display | | | no |

`PROJECT.json` lists the sources of every component and the hazards at their lines.

How they interact: the renderer sends commands over IPC to one service object, the most
derived of a chain of classes (S1, S2, ... S8). S2 calls S1's createTask and
approveHumanGate through `super`; S3 starts missions of S2 when a delivery is merged; S6
overrides S2's evaluateRun and S8 both evaluateRun and approveHumanGate. The kernel calls the
browser worker and awaits it. Instances talk to each other only through a mirror (S7) and an
exchange (S8) that they poll. Provider processes share nothing but the database.

## Modules

| module | what it is |
|---|---|
| `SupervisedExecution` | abstract: a task is reserved, asked for, decided, performed at most once, released |
| `ExecutionKernel` | the S1 kernel, one action per save |
| `ExecutionKernelProperties`, `ExecutionKernelProofs` | its properties, the refinement to `SupervisedExecution`, the inductive invariant `KernelInv`; the theorems |
| `MissionOrchestration`, `MissionProperties`, `MissionProofs` | S2 with the part of the kernel that `SupervisedExecution` tells apart; the kernel's promise is kept here too; `MissionInv`; the theorems |
| `ProviderExecution`, `ProviderProperties` | claims, outcomes, recovery and grants in several processes; `ProviderInv` |
| `ProviderCall` | one call through planning, authorization, executor and classification; `WholeCallInv` |
| `ProviderProofs` | the theorems of both |
| `DelegationPromise` | abstract: asked, decided once, performed, released |
| `ControlledDelegation`, `DelegationProperties`, `DelegationProofs` | S8 on both instances and the exchange; the refinement to `DelegationPromise`, `DelegationInv`; the theorems |
| `CapacityScheduling`, `CapacityProperties`, `CapacityProofs` | S6 over attempts whose execution is one step; `CapacityInv`; the theorems |
| `BrowserWorkers` | the S0 worker manager, its lease file and the task log; `LeaseInv` and `LogInv` |
| `CollaborationSync` | S7 of several instances and the mirror; `SyncInv` |
| `GitHubDelivery`, `GitHubDeliveryProofs` | S3 against a GitHub that moves; `DeliveryInv`; the theorems |
| `ProviderObservation` | S5; `ObservationInv` |
| `EventStore` | the SQLite store, its repositories and imports; `StoreInv` |
| `WorkersAndStoreProofs` | the theorems of `BrowserWorkers` and `EventStore`, of what is on disk |
| `ObservationAndSyncProofs` | the theorems of `CollaborationSync` and `ProviderObservation`, of what is exchanged with others |
| `MC...` | constants of the runs |

### Kernel

`run`, `gate` and `task` are the three projections of one task; `reserved`, `started`,
`released` and `evidence` are the events and records written once. `owner` is
`ResourceLockManager.locks`, lost in a crash and rebuilt by `Restart` from `LoggedHolders`,
the runs whose reservation the log still carries. createTask is the chain CreateTask,
RequestBlocked or RequestReady, RecordReservation, RequestGate, LinkTask; approve is
ApproveGate, RecordStart, Activate, then the awaited call (Submit; ResultObserved or
ExecutionFails), then ReleaseLocks, ObserveTask, RecordEvidence. Restart runs the recovery
(RecoverRun, RecoverTask) before it serves commands. The reviewed retry of S2 that releases
an old run's locks is ReviewRelease, SupersedeRun, SupersedeTask. Authorization, the
provider contract and the worker's status only ever refuse a request; RequestBlocked lets
them refuse at any time.

### Mission

An attempt is a pair of step and number. `xrun`, `gate`, `effects` and `exec` are the
execution of an external attempt, of which only the steps SupervisedExecution distinguishes
are kept: createTask is one to three steps instead of five. `exec` tells whether the awaited
approval knew its attempt ("tracked"), because approveHumanGate looks the attempt up by the
run id before it awaits. `stray` is a ghost: the external attempts that were reviewed before they
knew their execution (see "Known divergences"). Local steps run in `executeLocalAttempt` without a gate. Workspaces,
agents and plan validation are not modelled.

### Provider runtime

In `ProviderExecution` a call goes through consume (a granted operation only), claim, invoke,
sent, read and write. The claim is written as version 1 and once more as version 2, so a
write collides exactly when the claim is no longer `claimed`: the versions themselves are
left out. Between two processes every database statement interleaves; within one, only the
awaits. A process recovers at its start, visiting the claims it listed one by one.

`ProviderCall` is the same call from the inside: Compile and Plan check manifest, route and
operation-specific fields, Observe takes the facts for an authorization request at one
instant, Begin fixes the instant of execution, then come endpoint, credential, grant, claim,
the transport and the classification of what it returns, with the model and the MCP executor
as alternatives where they differ. The clock may move on, or be set back, between any two of
them. What an answer says is one of the classes the executors tell apart.

### Delegation

`asks`, `bound`, `mission`, `attempt`, `mirror`, `consumed` are the source's records,
`inbound` to `receipts` the destination's, and `requested`, `delivered`, `withdrawn` what was
ever submitted to the exchange: reading it again, late or not at all is leaving it there.
`peers` and `policy` are what the operators of both instances set up before, and may let
expire. `src` and `dst` are the commands in progress. The product composes the source handoff
service with four methods of the destination authority service; the model follows that
composition. Of an admission, the peer, the policy and the two limits, which depend on other
requests, are computed; installation, grant and provider are a choice of the environment at
every evaluation. Transport states, acceptance records and divergence records are read by
nothing that decides, and are left out. The destination's local mission is one `work` state
with the transitions MissionOrchestration gives a step; an execution that ends uncertain
publishes no receipt, because the approval throws, and an approval repeated while the work is
active publishes a "running" one. The source mission consists of independent steps;
execution of the others is reduced to whether they submitted.

### Capacity

An evaluation is synchronous; `at` and `cur` say which save comes next and for which run.
`profile` is what the lock table holds, `admitted` the attempts made by the scheduler.
Candidates, budgets and compatibility are the pure functions of `src/src/scheduling`, ageing is
`Bucket` and `EffectiveRank` over a small clock. Missions of a workspace without a policy
start unscheduled and reviewed retries bypass the scheduler, as in the code. Finish, Fail and
Reject are whole executions; what happens inside one is the kernel's subject.

### Workers

One worker is enough, since profiles do not interact; processes do. `start` is where a call
of start stands, `stopping` and `submit` the calls of stop and of submitAuthorizedLocalTask,
`browser` the browsers, which may close unnoticed before the close event is served. The lease
file is read (StartReads) and written (StartWrites) in separate steps, because the other
process may come in between.

### Sync

Compilation saves an envelope and then the cursor (EnvelopeSaved, CursorSaved), one changed
record at a time; pushes send what was not acknowledged, MirrorAppends answers, PushSettled
handles the answer, and a request whose caller has given up may still arrive ("late"). Pull
reads the whole mirror and saves the copies. The loop of the mirror's handler is described by how
far it got (`LoopEnds`): a batch is sorted by cursor and has no envelope twice, so what the chain
already has stands before what it accepts, and the first refusal ends it. `AckedBy` says in the
same way which cursor the acknowledgements of an answer reach before one of them throws. `torn` marks an instance that crashed between an
envelope and its cursor; see "Known divergences".

### Delivery

`pr` and `check` are GitHub's, and move whenever no observation is between two of its saves.
`obs` carries what an observation holds over its awaits: the gate it read before them, whether
the pull request was merged, and the blockers seen so far. Conclude evaluates the gate and
saves it; MergeRecorded, BindingCompleted, GateSatisfied, RunStarted and DependencyReleased
are the saves that follow, and Crash may cut them off.

### Observation

`requested` and `announced` are the two events, `observed` the projection, `call` what a call
holds over its awaits. A made id is computed from the clock and the number of observations,
so two calls can make the same one; a given id is a name. Redirects are followed one by one.

### Store

`log`, `rows` and `journal` are the tables, `cache` the repositories' maps in each process, `op`
the operation a process is in: Save, WriteClaim, rebuild (ReadLog, Replace) and Import. What a
single process does is atomic up to its statements; a transaction is one step. A log file is a
sequence of lines, each an event with its key; a file that has one line
twice, or one the log has already, meets the unique key and is refused with all its lines. `behind`
marks records a rebuild has set back because a write overtook it.

## Runs

All are exhaustive, and no run but the kernel's assumes fairness.

| run | question |
|---|---|
| `kernel_safety` | three tasks, two resources each, two crashes: exclusive resources, uncertainty, NeverReplayed, that an active run settles, the refinement to `SupervisedExecution` |
| `mission_safety` | two steps, one of them local, joined by a third, two attempts of each but the last, two crashes: retries, completions, plan order and the kernel's promise |
| `provider_safety` | six attempts on two requests, two processes with a call each, one crash: claims, effects, retries |
| `provider_call` | one call with every kind of operation, authority, credential and answer, and a clock that moves and is set back once |
| `delegation_inbox` | two requests, a limit of one waiting decision, one crash of either side: order, authority, effects, limits |
| `delegation_handoff` | one request for a mission step, three receipt revisions, two crashes: home execution, consumption, and the refinement to `DelegationPromise` |
| `capacity_safety` | three missions of two workspaces, four steps, three workers, two targets, one mishap: caps, admission, ageing |
| `workers_safety` | two processes, three starts, one task, one crash: leases, task log, late close events |
| `sync_safety` | a writer with two overlapping pushes and two changes, a reader, one crash: acknowledgement, display, copies |
| `delivery_safety` | two pull requests, two overlapping observations, two events on GitHub, one crash: release, evidence, order |
| `observation_safety` | two overlapping calls, two bindings, three urls of three origins, one redirect: ids, finality, targets |
| `event_store` | two processes, one record, one claim, three old logs, five events: histories, reads, imports |

Bounds and why they suffice. Nearly every hazard found here needs at most one crash and two
competing parties: one that is cut off and one that meets its remains. The kernel has three
tasks because two of them must exclude each other through a third that excludes neither,
and two crashes because a recovery may be cut off too. Missions have two attempts of the
steps others depend on, the fewest with a retry, a dependent step for the order, and two
crashes, because what the first leaves behind may meet a command that the second cuts off. Provider attempts form a chain of
three (initial, retry, retry of the retry) with a competitor at each place where one is
possible. A provider call has a clock of four instants, enough for each thing that expires to
do so before, at or after every other. Delegation needs two requests for order and limits,
without a source step, and one request with two crashes for the handoff; three revisions let
a "running" receipt precede a completed one that is received twice. Capacity has an urgent
step, one that ages against it, one that depends on another and one of another workspace with
the same target, and one interval of ageing. Workers need two starts in one process, so that
one can fail over the other's session, and a start in a second process for the lease. Sync
needs two changes of one record and two pushes, so that an older request can arrive after a
newer answer. A delivery is released by three reads: two events between them are a push and
a merge, or a check that turns twice. One redirect shows the bound on redirects as well as
more do. The store has room for two writes, a rebuild between them and an import.
`effects` saturates at two in the kernel: two is already the violation. Deadlock is not
checked where the system really may stop: an instance whose tasks are finished and whose
crashes are spent has nothing left to do. `provider_safety` and `event_store` check it, since
there something can always be asked for again. Symmetry is declared where the constants are
alike and no liveness is checked.

Fairness is assumed only in `kernel_safety`, where its one liveness property needs it: a chain
of saves that began runs to its end unless the process dies and a dead process is started
again (weak fairness), and an awaited worker call ends, by a result or by Playwright's
time-out, and its settled promise is served although the operator keeps giving commands
(strong fairness of `Settle`, since other chains disable it again and again). No command of
the operator is fair. Nowhere else does the code promise that something happens by itself:
evaluation, push, pull, observation and recovery are commands, and ageing has no guarantee of
eventual selection because other steps may keep becoming ready.

## Properties worth knowing

* `UncertainRunBlocksOthers`, `ExecutionOwnsResources`: the lock table in memory, the
  reservations in the log and the awaited calls agree, wherever a crash falls.
* `NeverReplayed`, `EffectOncePerClaim`, `EffectsAreReviewed`: an effect is repeated only
  after a human reviewed it, over approvals, retries, processes and instances.
* `RetryFollowsContainment`, `RetryFollowsUncertainty`, `OneEffectInFlight`: a retry never
  competes with what it retries.
* `EffectWasAllowed`, `ResultTellsTheEffect`: checks made at different instants add up, and no
  error of a provider call hides an effect.
* `RemoteWorkIsAuthorized`, `DelegatedStepStaysRemote`, `ConsumedOnce`, `CapsHold`: delegated
  work is decided once by a human of the destination under a policy, within its limits, done
  in one place and believed once. Since the limits count the proposal in question too, one
  less than maxPendingRequests can wait; a limit of 1 admits nothing.
* `BudgetsHold`, `AdmissionIsNeverBlocked`, `AgedNotOvertaken`: what the scheduler believes
  about locks is what the lock table does, and ageing counts.
* `ProfileIsNotLockedOut`, `LateCloseSparesTheNext`, `SubmittedIsNeverReady`: no overlap of
  starts, stops and closing windows leaves a lease behind or tears down a successor, and a
  task that may have been submitted is never offered as ready.
* `AcknowledgedIsMirrored`, `SettledIsShown`, `CopyIsOneMoment`: cursors, mirror and copies
  agree over lost, late and overlapping requests.
* `ReleasedByMerge`, `EvidenceIsTrue`, `MergesAreOrdered`: a conclusion drawn from reads of
  different moments is still true when it is saved.
* `GivenEvidenceIsFinal`, `OneIntentPerObservation`, `EvidenceIsOfItsTarget`: overlapping
  observations neither mix intents nor replace what was handed out, nor leave the origin.
* `HistoryHasOneLine`, `ReadsAreCommitted`, `ImportIsWhole`: what the other modules assume of a
  durable step.

## Theorems

`ExecutionKernelProofs` proves, for any tasks, resources, needs and number of crashes
(assuming only `KernelAssumption`, that `Needs` maps tasks to sets of resources and `NoTask`
is no task), type correctness, `ExecutionOwnsResources`, `UncertainRunBlocksOthers`,
`NeverReplayed`, that the kernel implements `SupervisedExecution`, and four more invariants that
are left to the proof: `EffectAtMostOnce`, `EffectIsAuthorized`, `LockTableMatchesLog`,
`RestartIsPossible`. None of the invariants is inductive: that an execution owns its resources
depends on what the next step of a half-finished command may rely on, on how run, gate,
events and effects of one task depend on each other, and on the lock table. `KernelInv`
states these as `StepInv` (the position in a chain), `RecordInv` and `ExecInv` (one task) and
`LockInv` (the table and the log). Its preservation is split into a lemma for each part, with
a case for each action. The refinement reads ownership off the log instead of the table, so
that crashes and restarts stutter.

`ProviderProofs` proves type correctness and every invariant of the claims for any
attempts, requests, processes, calls and crashes, under the assumptions that a retry concerns
the request of what it retries and that a call has a process. `ProviderInv` has three parts:
a call past acquire is alone with its claim (`CallInv`), a claim's status bounds its effects
(`ClaimInv`), and the claims of one request form a chain of which only the last is open
(`ChainInv`). Without the last one, `OneEffectInFlight` cannot be shown: the retry and what it
retries have different claims.

`GitHubDeliveryProofs` proves types, `ReleasedByMerge`, `EvidenceIsTrue` and `MergesAreOrdered`
for any number of pull requests, observations, events and crashes. An observation concludes
from three answers of three moments; `DeliveryInv` says why that is sound: a merged pull
request keeps its head, a check that has passed has passed, and so what `WhatWasRead` says
stays true until the last answer, after which `WhatWasConcluded` carries it through the saves.

`MissionProofs` proves `RetryFollowsContainment`, `CompletionIsBacked` and `EffectsFollowPlan` for any
plan, resources, number of attempts of each step and number of crashes (`MissionAssumption`
only types the constants). `MissionInv` adds to the types what the command in progress may rely
on at each of its saves (`CommandInv`), how gate, call and effects of one execution go together
(`KernelInv`), and what the records say of the plan: every earlier attempt of a tried one is
superseded or `stray`, and a tried attempt has the outputs of its dependencies (`PlanInv`). The
last is stronger than `EffectsFollowPlan`, which a retry would not preserve by itself. It also
proves that the orchestrator keeps the kernel's promise (`KernelPromiseKept`): deciding a gate is
Decide, a submission Perform, an observed result, a rejection or a reviewed retry Release, and
everything else, a crash included, changes nothing the promise speaks of. Perform and Release
need that a run that ever was active has an approved gate, the part of `KernelInv` that the
other theorems do not need. From the promise alone follows `MissionIsSupervised`: no two attempts
own a resource together, and what reached a target was approved and reached it once.

`ProviderProofs` also proves, of one call, `EffectWasAllowed` and `ResultTellsTheEffect` for a clock of any length, set
back any number of times, and any skew. `WholeCallInv` has what each
stage has established (`StageInv`), how its instants lie while the clock only goes forward
(`ClockInv`), and what may be told after it (`OutcomeInv`).

`CapacityProofs` proves `BudgetsHold`, `AdmissionIsNeverBlocked` and `AgedNotOvertaken` for any
workspaces, missions, steps, policies and mishaps, with finitely many workers; among the
policies one must have the widest global budget, which holds whenever there are finitely
many. `CapacityInv` says what has not changed since the step was selected (`PlaceInv`), that a
profile is held only by an attempt before its gate or review (`HolderInv`), and that an admitted
attempt is neither missing nor blocked (`AdmittedInv`). The budgets need `HolderInv`: the count
goes up by at most the one attempt just admitted.

`DelegationProofs` proves `InboundIsPrefix`, `RemoteWorkIsAuthorized`, `EffectsAreReviewed`, `CapsHold`,
`DelegatedStepStaysRemote` and `ConsumedOnce` for any steps of the source mission and any number
of requests, receipt revisions and crashes of both sides, and that the two instances with their
exchange implement `DelegationPromise`. `DelegationInv` follows a request through them:
what the destination holds of it was asked for (`InboxInv`) and may be relied on between two saves
(`ChainInv`), its work has taken effect as often as its state says (`WorkInv`), a receipt was
published for that work (`ReceiptInv`), and the source's step has run at home or taken the
outputs of one receipt, never both (`AttemptInv`, `ConsumptionInv`). The limits are kept because
between the evaluation and the save of one proposal no other can be admitted. In the refinement
a gate decided is Decide, the first submission Perform and the completion of a delegated step
Release; the exchange, both chains and all crashes change nothing the promise speaks of. From the
promise alone follows `ReleasedWorkWasDone`: a delegated step is complete only with work that was
asked for it, approved at the destination and performed.

`WorkersAndStoreProofs` proves `HistoryHasOneLine`, `ReadsAreCommitted` and `ImportIsWhole` for any
processes, records, claims, files and any mixture of their statements. `StoreInv` has what an
operation has read and still relies on: an event of the log, with everything before it. A
row that is written is then an event of the log, and its version one more than the last because
the transaction has looked. Imports are whole since a transaction that meets a key in use
leaves nothing.

The same module proves `ProfileIsNotLockedOut`, `SubmittedIsNeverReady` and
`LateCloseSparesTheNext` for any processes, starts, tasks and crashes. `LeaseInv` says that the
lease of a living process has something of that process that will release it; `LogInv` that
what a process knows of a task, and what it submits, is in the log.

`ObservationAndSyncProofs` proves `AcknowledgedIsMirrored`, `SettledIsShown` and `CopyIsOneMoment` for any
instances, records, contents, overlapping pushes and pulls, request size and number of changes
and crashes. `SyncInv` follows an envelope from its store to the copies. `Versioned`: of all
envelopes of a record, stored, on their way or mirrored, a later cursor has a higher revision,
and the store has an envelope of every id in use. It holds of torn instances too, because a
second envelope of the same id replaces the first with a higher revision. `Intact`, of instances
that are not torn: a cursor stands for one envelope, all that is on its way is still in the
store, an accepted request has its whole batch in the chain, and nothing is acknowledged beyond
the chain. The third is what `AcknowledgedIsMirrored` needs and the code gives only indirectly: a
duplicate is recognised by its id, so the mirror's copy is the envelope that was sent only while
ids are not reused. `Mirrored`: the chain has cursor n at place n and shows the last envelope of
each record, which is the one of the highest revision by `Versioned`. `OneMoment`: a view is what
the chain says at one cursor, and stays so since chains only grow.

Of the observations it proves `OneIntentPerObservation`, `GivenEvidenceIsFinal` and
`EvidenceIsOfItsTarget` for any calls, bindings, urls, redirects and restarts. `ObservationInv` says
that a call past its announcement agrees with the request recorded under its id, and that stored
evidence is of the origin its binding approved.

Only model-checked: liveness (`ActiveRunSettles`), which rests on fairness and ENABLED and is out
of the prover's reach. Every other property of every run is a theorem. Each inductive invariant
was checked by TLC on the instance of its run before it was proved. Where a computation is a
loop in the code, the modules say what it leaves instead of running it: the prover has no
induction over data, and needs none for a relation. That such a relation has a value for every
input (the loop of the mirror and its acknowledgements, `latestByRecord`, the import) is not proved
but follows from the runs, in which the actions that use them are taken.

## Known divergences

Places where the code does something else than its documents say, met while modelling. The
modules follow the code; the properties say what remains true with it.

* Rejecting (`execution-coordinator.cjs:83`): the gate is saved as rejected before the run is
  cancelled and its locks released; after a crash in between, rejecting again changes nothing
  and every start takes the locks again. "A rejected or expired gate performs no submission and
  releases reserved resources." (`docs/contracts/S1-workspace-marketplace-agent-interconnect.md:302`)
* Pausing and cancelling (`s2-application-service.cjs:338`): the attempt learns its run after
  createTask returned; a crash in between leaves a gate of no attempt, approvable although the
  mission is paused or cancelled. "pause prevents new external starts"
  (`docs/testing/S2-acceptance-matrix.md:83`, also `:86`; `:84` for a submission in flight). If a
  cancellation that cancelled such an attempt is itself cut off before the mission is saved, the
  attempt can be reviewed and retried while its old execution stays approvable, because
  `s2-index.cjs:20` finds no execution to supersede. `RetryFollowsContainment` excepts these
  attempts (`stray`).
* Handoffs (`s2-application-service.cjs:276`): a crash between completing an attempt and
  recording its handoffs loses them, and the dependent step waits for ever.
  (`docs/contracts/S2-mission-orchestration-and-agent-handoff.md:183`)
* Retrying (`s2-application-service.cjs:421`): retrying one attempt twice resets the attempt of
  the first retry, also a completed one. "It never reuses the old attempt ID."
  (`docs/contracts/S2-command-query-interface.md:93`)
* Recovering claims (`persistent-attempt-claim.cjs:303`): a collision with another process ends
  the recovery before the remaining claims. "converts any remaining"
  (`docs/contracts/provider-persistent-attempt-claim-v1.md:186`)
* Grants (`execution-operation-grant-ledger.cjs:18`): two calls of one process use a single-use
  grant twice, and a revocation in between is overwritten. "Every effect revalidates the source
  approval, ... expiry, revocation and use limit."
  (`docs/contracts/execution-operation-grant-v1.md:5`)
* Cancelling a delegation (`delegation/admission/index.cjs:178`): after a crash between the local
  mission and its binding, the proposal is marked cancelled_before_start although the work may
  have started. (`docs/contracts/S8-controlled-remote-execution-delegation.md:268`)
* Sync cursors (`s7-index.cjs:374`): a crash between an envelope and its cursor gives the cursor
  to a second envelope; the mirror refuses one of the two, and the acknowledgement of the other
  skips it. "cursor is strictly monotonic per Workspace/source instance"
  (`docs/contracts/S7-optional-collaboration-sync.md:97`). `AcknowledgedIsMirrored` and
  `SettledIsShown` therefore speak of instances that are not `torn`.
* Rebuilding (`sqlite-event-store.cjs:299`): the events are read before the transaction, so a
  save that comes in between is set back to the older row until the next write; `ReadsAreCommitted`
  excepts those records (`behind`).
* A delivery gate that another observation satisfied is overwritten by one that began before
  (`s3-application-service.cjs:312`); the released mission and the evidence are not touched, which
  is what the properties say.

## Not modelled

A chain between two awaits is atomic but for crashes, microtasks included. Storage errors
other than a crash are not modelled. Time appears in ProviderCall, CapacityScheduling and
ProviderObservation as a small clock, elsewhere as "may happen at any moment". Digests are
assumed to be free of collisions. The schema migration, lease heartbeats, repository
registration, ownership and repair proposals of S3, handoff packets and account sessions of
S5, redaction in S7, and divergence records of S8 are left out: they are single saves that no
modelled decision reads. The operator console and the checkpoint derive views; federation,
discovery, attestation and the domain constructors are pure; IPC and the renderer dispatch
and display.

## Plan

Done, in order: kernel, missions over it, provider claims, delegation, capacity, workers, sync,
delivery, provider calls, store, observations; for each the inductive invariant, the theorems for
every property of its run that is not a liveness property, and the three refinements. Worth doing
next:

1. An abstract specification of sync, the mirror as a prefix of what an instance produced, and
   one of the store as an append-only log, with the refinements.
2. Workers composed with the kernel's Submit, and capacity with whole missions.
3. The hazards without a property, which are the divergences above seen from the other side:
   what a reviewed retry or a repeated rejection may still rely on.
