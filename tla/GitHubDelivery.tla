------------------------- MODULE GitHubDelivery -------------------------
(***************************************************************************)
(* S3: pull requests bound at an exact head, the delivery gate that every  *)
(* observation of GitHub evaluates, the evidence a ready gate leaves, and  *)
(* the mission that waits for the merge.                                   *)
(*                                                                         *)
(* An observation reads the pull request, its checks, its threads and its  *)
(* base one after the other while GitHub moves on, and then saves its      *)
(* conclusion without a pause.  Observations overlap, any read may fail,   *)
(* and the process may die between two saves.                              *)
(*                                                                         *)
(* One binding stands for each pull request; a head is the bound one or    *)
(* another.  The requirements are those of a new gate: one required check  *)
(* and a current base.  Left out are ownership, whose conflicts are        *)
(* refused when they are made; review threads, of which GitHub's answer    *)
(* does not tell whether they are resolved, so that one blocks for good;   *)
(* and a pull request closed unmerged, which blocks while it is closed.  A *)
(* check that failed blocks as one that is pending.                        *)
(***************************************************************************)
EXTENDS Naturals

CONSTANTS Bindings,     \* bindings, each of a pull request of its own
          Observations, \* calls of observeDelivery
          MaxEvents,    \* bound: what happens on GitHub
          MaxCrashes    \* bound: restarts of the application

ASSUME DeliveryAssumption == {MaxEvents, MaxCrashes} \subseteq Nat

VARIABLES
    \* GitHub
    pr,         \* the pull request: state, head, whether its base moved on
    check,      \* whether the required check is green on the bound head
    events,
    \* the application's store
    order,      \* mergeOrderConstraint: <<predecessor, successor>>
    gate,       \* deliveryGate
    binding,    \* pullRequestBinding: active or merged
    evidence,   \* deliveryEvidence: <<kind, binding>>
    dependency, \* deliveryDependency: none, waiting or released
    run,        \* whether the mission run of the dependency exists
    crashes,
    \* memory
    obs,        \* calls: where each is and what it has read
    \* ghosts
    passed      \* whether the check has ever passed on the bound head

github == <<pr, check, events, passed>>
store == <<order, gate, binding, evidence, dependency, run>>
vars == <<github, store, crashes, obs>>

None == "none"

\* The records the calls save, and what an observation of a pull request keeps
BindingStates == {"active", "merged"}
MergeOrders == {o \in Bindings \X Bindings : o[1] # o[2]}
Evidence == {"exact_head_ready", "merge_observed"} \X Bindings
Blockers == {"head_mismatch", "observation_incomplete", "required_check_pending",
             "base_stale", "merge_order_unsatisfied"}
PullRequests == [state : {"open", "merged"}, head : {"bound", "other"},
                 behind : BOOLEAN]
Gates == [state : {"waiting", "ready", "stale", "blocked", "satisfied"},
          blockers : SUBSET Blockers]
Waiting == [state |-> "waiting", blockers |-> {}]

\* A call: where it is, its binding, the gate it holds from before its reads,
\* and what it has read, as the blockers that amounts to
Idle == [at |-> "idle", of |-> None, gate |-> Waiting,
         merged |-> FALSE, blockers |-> {}]
Reading == {"pr", "checks", "base"}
Saving == {"merged", "binding", "satisfied", "start", "release"}
CallState == [at : Reading \cup Saving \cup {"idle"}, of : Bindings \cup {None},
              gate : Gates, merged : BOOLEAN, blockers : SUBSET Blockers]

TypeOK ==
    /\ pr \in [Bindings -> PullRequests]
    /\ check \in [Bindings -> BOOLEAN]
    /\ events \in 0..MaxEvents /\ crashes \in 0..MaxCrashes
    /\ order \subseteq MergeOrders
    /\ gate \in [Bindings -> Gates]
    /\ binding \in [Bindings -> BindingStates]
    /\ evidence \subseteq Evidence
    /\ dependency \in [Bindings -> {"none", "waiting", "released"}]
    /\ run \in [Bindings -> BOOLEAN]
    /\ obs \in [Observations -> CallState]
    /\ passed \in [Bindings -> BOOLEAN]

--------------------------------------------------------------------------
Init ==
    /\ pr = [b \in Bindings |-> [state |-> "open", head |-> "bound", behind |-> FALSE]]
    /\ check \in [Bindings -> BOOLEAN]
    /\ events = 0 /\ crashes = 0
    /\ order = {}
    /\ gate = [b \in Bindings |-> Waiting]
    /\ binding = [b \in Bindings |-> "active"]
    /\ evidence = {}
    /\ dependency = [b \in Bindings |-> "none"]
    /\ run = [b \in Bindings |-> FALSE]
    /\ obs = [k \in Observations |-> Idle]
    /\ passed = check

\* No call is between two of its saves, which follow without an await.
Quiet == \A k \in Observations : obs[k].at \notin Saving

--------------------------------------------------------------------------
(* GitHub moves on by itself; no state of the application is touched *)

Happens == Quiet /\ events < MaxEvents /\ events' = events + 1
           /\ UNCHANGED <<store, crashes, obs>>

\* A push, or a force push back to the bound head; it may be a rebase.
Push(b) ==
    /\ Happens /\ pr[b].state = "open"
    /\ \E behind \in {FALSE, pr[b].behind} :
          pr' = [pr EXCEPT ![b].head = IF @ = "bound" THEN "other" ELSE "bound",
                           ![b].behind = behind]
    /\ UNCHANGED <<check, passed>>

\* The check on the bound head ends, or is run again.
CheckChanges(b) ==
    /\ Happens
    /\ check' = [check EXCEPT ![b] = ~@]
    /\ passed' = [passed EXCEPT ![b] = @ \/ check'[b]]
    /\ UNCHANGED pr

\* A merge puts the other pull requests behind their base.
Merge(b) ==
    /\ Happens /\ pr[b].state = "open"
    /\ pr' = [a \in Bindings |->
                CASE a = b -> [pr[a] EXCEPT !.state = "merged"]
                  [] a # b /\ pr[a].state # "merged" -> [pr[a] EXCEPT !.behind = TRUE]
                  [] OTHER -> pr[a]]
    /\ UNCHANGED <<check, passed>>

--------------------------------------------------------------------------
(* addMergeOrderConstraint, declareMissionDeliveryDependency *)

\* No set of bindings in which each has a successor
Acyclic(o) ==
    ~\E S \in SUBSET Bindings : S # {} /\ \A a \in S : \E b \in S : <<a, b>> \in o

AddMergeOrder(a, b) ==
    /\ Quiet /\ <<a, b>> \in MergeOrders \ order
    /\ Acyclic(order \cup {<<a, b>>})
    /\ order' = order \cup {<<a, b>>}
    /\ UNCHANGED <<github, gate, binding, evidence, dependency, run, crashes, obs>>

Declare(b) ==
    /\ Quiet /\ dependency[b] = "none" /\ ~run[b]
    /\ dependency' = [dependency EXCEPT ![b] = "waiting"]
    /\ UNCHANGED <<github, order, gate, binding, evidence, run, crashes, obs>>

--------------------------------------------------------------------------
(* observeDelivery: the reads *)

Begin(k, b) ==
    /\ Quiet /\ obs[k].at = "idle"
    /\ obs' = [obs EXCEPT ![k] = [Idle EXCEPT !.at = "pr", !.of = b, !.gate = gate[b]]]
    /\ UNCHANGED <<github, store, crashes>>

ReadPullRequest(k) ==
    LET seen == pr[obs[k].of] IN
    /\ Quiet /\ obs[k].at = "pr"
    /\ obs' = [obs EXCEPT
                 ![k].at = "checks", ![k].merged = seen.state = "merged",
                 ![k].blockers = IF seen.head = "bound" THEN {}
                                 ELSE {"head_mismatch", "observation_incomplete"}]
    /\ UNCHANGED <<github, store, crashes>>

\* Mutation: a check that is not there yet blocks nothing.
PendingPasses(b) == {}
CheckBlockers(b) == IF check[b] THEN {} ELSE {"required_check_pending"}

\* The checks of the head seen; those of another head are no observation.
ReadChecks(k) ==
    /\ Quiet /\ obs[k].at = "checks"
    /\ obs' = [obs EXCEPT
                 ![k].at = "base",
                 ![k].blockers = IF "head_mismatch" \in @ THEN @
                                 ELSE @ \cup CheckBlockers(obs[k].of)]
    /\ UNCHANGED <<github, store, crashes>>

\* A read that fails ends the call; nothing is saved.
ReadFails(k) ==
    /\ Quiet /\ obs[k].at \in Reading
    /\ obs' = [obs EXCEPT ![k] = Idle]
    /\ UNCHANGED <<github, store, crashes>>

--------------------------------------------------------------------------
(* observeDelivery: the conclusion *)

BaseBlockers(b) == IF pr[b].behind THEN {"base_stale"} ELSE {}

\* Mutation: a predecessor that was ready is enough.
OrderedByReadiness(b) ==
    \A c \in order : c[2] = b => \E kind \in {"exact_head_ready", "merge_observed"} :
                                     <<kind, c[1]>> \in evidence
MergeOrderHolds(b) == \A c \in order : c[2] = b => <<"merge_observed", c[1]>> \in evidence

StateFor(blockers) ==
    IF blockers \cap {"head_mismatch", "base_stale"} # {} THEN "stale"
    ELSE IF blockers # {} THEN "blocked" ELSE "ready"

\* Mutation: a ready gate is taken for a merged one.
ReadyIsMerged(k) == TRUE
Merged(k) == obs[k].merged

\* The answer about the base is the last one, and the conclusion follows it
\* at once.  The gate is compared with, and written from, what it was
\* before the reads.
Conclude(k) ==
    LET b == obs[k].of
        blockers == obs[k].blockers
                      \cup BaseBlockers(b)
                      \cup (IF MergeOrderHolds(b) THEN {} ELSE {"merge_order_unsatisfied"})
        new == [state |-> StateFor(blockers), blockers |-> blockers]
        same == obs[k].gate.state # "waiting" /\ obs[k].gate.blockers = blockers
        held == IF same THEN obs[k].gate ELSE new
        ready == new.state = "ready"
        follows == ready /\ Merged(k)
    IN  /\ Quiet /\ obs[k].at = "base"
        /\ gate' = IF same THEN gate ELSE [gate EXCEPT ![b] = new]
        /\ evidence' = IF ready /\ ~follows THEN evidence \cup {<<"exact_head_ready", b>>}
                       ELSE evidence
        /\ obs' = [obs EXCEPT ![k] = IF follows THEN [@ EXCEPT !.at = "merged", !.gate = held]
                                     ELSE Idle]
        /\ UNCHANGED <<github, order, binding, dependency, run, crashes>>

MergeRecorded(k) ==
    /\ obs[k].at = "merged"
    /\ evidence' = evidence \cup {<<"merge_observed", obs[k].of>>}
    /\ obs' = [obs EXCEPT ![k].at = "binding"]
    /\ UNCHANGED <<github, order, gate, binding, dependency, run, crashes>>

BindingCompleted(k) ==
    /\ obs[k].at = "binding"
    /\ binding' = [binding EXCEPT ![obs[k].of] = "merged"]
    /\ obs' = [obs EXCEPT ![k].at = "satisfied"]
    /\ UNCHANGED <<github, order, gate, evidence, dependency, run, crashes>>

GateSatisfied(k) ==
    /\ obs[k].at = "satisfied"
    /\ gate' = IF obs[k].gate.state = "satisfied" THEN gate
               ELSE [gate EXCEPT ![obs[k].of] = [obs[k].gate EXCEPT !.state = "satisfied"]]
    /\ obs' = [obs EXCEPT ![k] = IF dependency[obs[k].of] = "waiting"
                                 THEN [@ EXCEPT !.at = "start"] ELSE Idle]
    /\ UNCHANGED <<github, order, binding, evidence, dependency, run, crashes>>

\* startMission returns the run it finds.
RunStarted(k) ==
    LET b == obs[k].of IN
    /\ obs[k].at = "start"
    /\ run' = [run EXCEPT ![b] = TRUE]
    /\ obs' = [obs EXCEPT ![k].at = "release"]
    /\ UNCHANGED <<github, order, gate, binding, evidence, dependency, crashes>>

DependencyReleased(k) ==
    /\ obs[k].at = "release"
    /\ dependency' = [dependency EXCEPT ![obs[k].of] = "released"]
    /\ obs' = [obs EXCEPT ![k] = Idle]
    /\ UNCHANGED <<github, order, gate, binding, evidence, run, crashes>>

\* A crash while calls only read is their reads failing.
Crash ==
    /\ crashes < MaxCrashes /\ ~Quiet
    /\ crashes' = crashes + 1
    /\ obs' = [k \in Observations |-> Idle]
    /\ UNCHANGED <<github, store>>

--------------------------------------------------------------------------
Next ==
    \/ \E b \in Bindings :
          \/ Push(b) \/ CheckChanges(b) \/ Merge(b) \/ Declare(b)
          \/ \E a \in Bindings : AddMergeOrder(a, b)
    \/ \E k \in Observations :
          \/ \E b \in Bindings : Begin(k, b)
          \/ ReadPullRequest(k) \/ ReadChecks(k)
          \/ ReadFails(k) \/ Conclude(k) \/ MergeRecorded(k) \/ BindingCompleted(k)
          \/ GateSatisfied(k) \/ RunStarted(k) \/ DependencyReleased(k)
    \/ Crash

Spec == Init /\ [][Next]_vars

--------------------------------------------------------------------------
(* Properties *)

\* A mission that waits for a delivery runs only after the pull request was
\* merged at the bound head, with a check that had passed there and with the
\* evidence in the store; no overlap of observations, pushes and merges
\* releases it for a head nobody checked.
ReleasedByMerge ==
    \A b \in Bindings : run[b] =>
        /\ pr[b].state = "merged" /\ pr[b].head = "bound"
        /\ passed[b]
        /\ <<"merge_observed", b>> \in evidence

\* Evidence is of something that was the case on GitHub.
EvidenceIsTrue ==
    \A b \in Bindings :
        /\ <<"exact_head_ready", b>> \in evidence => passed[b]
        /\ <<"merge_observed", b>> \in evidence =>
               passed[b] /\ pr[b].state = "merged" /\ pr[b].head = "bound"

\* What makes the two inductive: what a call has read stays true while it
\* waits for the next answer, because a merged pull request keeps its head and
\* a check that has passed has passed.  An observation that is concluded has
\* all of it, and between its saves nothing else happens.
BoundMerge(b) == pr[b].state = "merged" /\ pr[b].head = "bound" /\ passed[b]
WhatWasRead(k) ==
    LET b == obs[k].of IN
    /\ obs[k].at \in Reading \cup Saving => b \in Bindings
    /\ obs[k].at \in {"checks", "base"} /\ obs[k].merged =>
          /\ pr[b].state = "merged"
          /\ "head_mismatch" \notin obs[k].blockers => pr[b].head = "bound"
    /\ obs[k].at = "base" /\ obs[k].blockers = {} => passed[b]
WhatWasConcluded(k) ==
    LET b == obs[k].of IN
    obs[k].at \in Saving =>
        /\ BoundMerge(b)
        /\ obs[k].at = "merged" => MergeOrderHolds(b)
        /\ obs[k].at # "merged" => <<"merge_observed", b>> \in evidence
DeliveryInv ==
    /\ \A b \in Bindings : check[b] => passed[b]
    /\ \A k \in Observations : WhatWasRead(k) /\ WhatWasConcluded(k)
    /\ EvidenceIsTrue
    /\ ReleasedByMerge

\* A merge counts only after those it was ordered behind.
MergesAreOrdered ==
    [][\A c \in order :
          <<"merge_observed", c[2]>> \in evidence' \ evidence
              => <<"merge_observed", c[1]>> \in evidence]_vars
==========================================================================
