----------------------- MODULE GitHubDeliveryProofs -----------------------
(***************************************************************************)
(* Proofs about the deliveries of S3, for any bindings, observations and   *)
(* number of events and crashes: types, the inductive invariant            *)
(* DeliveryInv, and what follows from it.                                  *)
(***************************************************************************)
EXTENDS GitHubDelivery, TLAPS

USE DeliveryAssumption
--------------------------------------------------------------------------
(* Types *)

\* A call never leaves the states of the code, whatever part of it changes.
LEMMA CallType ==
  ASSUME obs \in [Observations -> CallState], NEW k \in Observations,
         NEW c \in CallState, obs' = [obs EXCEPT ![k] = c]
  PROVE  obs' \in [Observations -> CallState]
OBVIOUS

\* Nor does a gate.
LEMMA GateType ==
  ASSUME gate \in [Bindings -> Gates], NEW b \in Bindings,
         NEW g \in Gates, gate' = [gate EXCEPT ![b] = g]
  PROVE  gate' \in [Bindings -> Gates]
OBVIOUS

LEMMA IdleType == Idle \in CallState
BY DEF Idle, CallState, Gates, Waiting, Reading, Saving, None

\* GitHub's own steps touch nothing of the application.  What was merged keeps
\* its head, what has passed has passed.
LEMMA GitHubMovesOn ==
  ASSUME TypeOK, DeliveryInv, NEW a \in Bindings, Push(a) \/ CheckChanges(a) \/ Merge(a)
  PROVE  /\ UNCHANGED <<store, obs>>
         /\ pr' \in [Bindings -> PullRequests] /\ check' \in [Bindings -> BOOLEAN]
         /\ passed' \in [Bindings -> BOOLEAN]
         /\ \A b \in Bindings :
               /\ passed[b] => passed'[b]
               /\ check'[b] => passed'[b]
               /\ pr[b].state = "merged" => pr'[b].state = "merged" /\ pr'[b].head = pr[b].head
<1>. USE DEF TypeOK, PullRequests, BindingStates, MergeOrders, Evidence, Happens
<1>1. CASE Push(a)
  <2>1. PICK behind \in {FALSE, pr[a].behind} :
          pr' = [pr EXCEPT ![a].head = IF @ = "bound" THEN "other" ELSE "bound",
                           ![a].behind = behind]
    BY <1>1 DEF Push
  <2> DEFINE new == [pr[a] EXCEPT !.head = IF @ = "bound" THEN "other" ELSE "bound",
                                  !.behind = behind]
  <2>2. pr[a] \in PullRequests /\ behind \in BOOLEAN
    OBVIOUS
  <2>3. new \in PullRequests
    BY <2>2
  <2>4. pr' = [pr EXCEPT ![a] = new]
    BY <2>1, <2>2
  <2>5. pr' = [pr EXCEPT ![a] = new] /\ new \in PullRequests
    BY <2>3, <2>4
  <2>6. pr' \in [Bindings -> PullRequests]
    BY <2>5
  <2>7. UNCHANGED <<store, obs, check, passed>> /\ pr[a].state = "open"
    BY <1>1 DEF Push
  <2>8. \A b \in Bindings : check[b] => passed[b]
    BY DEF DeliveryInv
  <2>9. \A b \in Bindings : b # a => pr'[b] = pr[b]
    BY <2>5
  <2> QED
    BY <2>6, <2>7, <2>8, <2>9
<1>2. CASE CheckChanges(a)
  <2>1. UNCHANGED <<store, obs, pr>>
    BY <1>2 DEF CheckChanges
  <2>2. /\ check' = [check EXCEPT ![a] = ~@]
        /\ passed' = [passed EXCEPT ![a] = @ \/ check'[a]]
    BY <1>2 DEF CheckChanges
  <2>3. \A b \in Bindings : check[b] => passed[b]
    BY DEF DeliveryInv
  <2>4. check' \in [Bindings -> BOOLEAN] /\ passed' \in [Bindings -> BOOLEAN]
    BY <2>2
  <2>5. \A b \in Bindings : (passed[b] => passed'[b]) /\ (check'[b] => passed'[b])
    BY <2>2, <2>3
  <2> QED
    BY <2>1, <2>4, <2>5
<1>3. CASE Merge(a)
  <2>1. UNCHANGED <<store, obs, check, passed>> /\ pr[a].state = "open"
    BY <1>3 DEF Merge
  <2>2. pr' = [b \in Bindings |->
                CASE b = a -> [pr[b] EXCEPT !.state = "merged"]
                  [] b # a /\ pr[b].state # "merged" -> [pr[b] EXCEPT !.behind = TRUE]
                  [] OTHER -> pr[b]]
    BY <1>3 DEF Merge
  <2>3. \A b \in Bindings : pr'[b] \in PullRequests
                            /\ (pr[b].state = "merged" =>
                                  pr'[b].state = "merged" /\ pr'[b].head = pr[b].head)
    BY <2>1, <2>2
  <2>4. pr' \in [Bindings -> PullRequests]
    BY <2>2, <2>3
  <2>5. \A b \in Bindings : check[b] => passed[b]
    BY DEF DeliveryInv
  <2> QED
    BY <2>1, <2>3, <2>4, <2>5
<1> QED
  BY <1>1, <1>2, <1>3

\* One step of a call: what it becomes is again a state of a call.
LEMMA ReadsType ==
  ASSUME TypeOK, NEW k \in Observations,
         \/ \E b \in Bindings : Begin(k, b)
         \/ ReadPullRequest(k) \/ ReadChecks(k) \/ ReadFails(k)
  PROVE  obs' \in [Observations -> CallState]
<1>. USE DEF TypeOK
<1>1. obs[k] \in CallState
  OBVIOUS
<1>2. ASSUME NEW b \in Bindings, Begin(k, b) PROVE obs' \in [Observations -> CallState]
  <2>1. [Idle EXCEPT !.at = "pr", !.of = b, !.gate = gate[b]] \in CallState
    BY IdleType DEF CallState, Reading
  <2>2. QED
    BY <1>2, <2>1, CallType DEF Begin
<1>3. CASE ReadPullRequest(k)
  <2> DEFINE seen == pr[obs[k].of]
             blocked == IF seen.head = "bound" THEN {} ELSE {"head_mismatch", "observation_incomplete"}
             new == [obs[k] EXCEPT !.at = "checks", !.merged = seen.state = "merged",
                                   !.blockers = blocked]
  <2>1. (seen.state = "merged") \in BOOLEAN /\ blocked \in SUBSET Blockers
    BY DEF Blockers
  <2> HIDE DEF seen, blocked
  <2>2. new \in CallState
    BY <1>1, <2>1 DEF CallState, Reading
  <2>3. obs' = [obs EXCEPT ![k] = new]
    BY <1>3, <1>1 DEF ReadPullRequest, seen, blocked
  <2> QED
    BY <2>2, <2>3, CallType
<1>4. CASE ReadChecks(k)
  <2> DEFINE blocked == IF "head_mismatch" \in obs[k].blockers THEN obs[k].blockers
                        ELSE obs[k].blockers \cup CheckBlockers(obs[k].of)
             new == [obs[k] EXCEPT !.at = "base", !.blockers = blocked]
  <2>1. blocked \in SUBSET Blockers
    BY <1>1 DEF CallState, CheckBlockers, Blockers
  <2> HIDE DEF blocked
  <2>2. new \in CallState
    BY <1>1, <2>1 DEF CallState, Reading
  <2>3. obs' = [obs EXCEPT ![k] = new]
    BY <1>4, <1>1 DEF ReadChecks, blocked
  <2> QED
    BY <2>2, <2>3, CallType
<1>5. CASE ReadFails(k)
  BY <1>5, IdleType, CallType DEF ReadFails
<1> QED
  BY <1>2, <1>3, <1>4, <1>5

\* A conclusion either ends the call, with the evidence that the head is ready
\* only if nothing blocks, or goes on to a merge that nothing blocks.
LEMMA Concluded ==
  ASSUME TypeOK, NEW k \in Observations, Conclude(k), obs[k].of \in Bindings
  PROVE  /\ obs[k].at = "base"
         /\ UNCHANGED <<github, order, binding, dependency, run, crashes>>
         /\ gate' \in [Bindings -> Gates]
         /\ obs' \in [Observations -> CallState]
         /\ \A j \in Observations : j # k => obs'[j] = obs[j]
         /\ \/ /\ obs'[k].at = "merged" /\ obs'[k].of = obs[k].of
               /\ obs[k].merged /\ obs[k].blockers = {} /\ MergeOrderHolds(obs[k].of)
               /\ evidence' = evidence
            \/ /\ obs'[k].at = "idle"
               /\ \/ evidence' = evidence
                  \/ /\ obs[k].blockers = {}
                     /\ evidence' = evidence \cup {<<"exact_head_ready", obs[k].of>>}
<1>. USE DEF TypeOK
<1> DEFINE b == obs[k].of
           ordered == IF MergeOrderHolds(b) THEN {} ELSE {"merge_order_unsatisfied"}
           blockers == obs[k].blockers \cup BaseBlockers(b) \cup ordered
           new == [state |-> StateFor(blockers), blockers |-> blockers]
           same == obs[k].gate.state # "waiting" /\ obs[k].gate.blockers = blockers
           held == IF same THEN obs[k].gate ELSE new
           follows == StateFor(blockers) = "ready" /\ Merged(k)
           next == IF follows THEN [obs[k] EXCEPT !.at = "merged", !.gate = held] ELSE Idle
<1>1. obs[k] \in CallState
  OBVIOUS
<1>2. blockers \in SUBSET Blockers
  BY <1>1 DEF CallState, BaseBlockers, Blockers
<1>3. StateFor(blockers) \in {"stale", "blocked", "ready"}
  BY DEF StateFor
<1>4. StateFor(blockers) = "ready" => obs[k].blockers = {} /\ MergeOrderHolds(b)
  BY DEF StateFor
<1>5. /\ obs[k].at = "base"
      /\ gate' = IF same THEN gate ELSE [gate EXCEPT ![b] = new]
      /\ evidence' = IF StateFor(blockers) = "ready" /\ ~follows
                     THEN evidence \cup {<<"exact_head_ready", b>>} ELSE evidence
      /\ obs' = [obs EXCEPT ![k] = next]
      /\ UNCHANGED <<github, order, binding, dependency, run, crashes>>
  BY <1>1 DEF Conclude
<1> HIDE DEF blockers
<1>6. new \in Gates
  BY <1>2, <1>3 DEF Gates
<1> HIDE DEF new, same
<1>7. held \in Gates
  BY <1>1, <1>6 DEF CallState
<1> HIDE DEF held
<1>8. next \in CallState
  BY <1>1, <1>7, IdleType DEF CallState, Saving
<1>9. gate' \in [Bindings -> Gates] /\ obs' \in [Observations -> CallState]
  BY <1>5, <1>6, <1>8, CallType, GateType
<1>10. obs'[k] = next /\ \A j \in Observations : j # k => obs'[j] = obs[j]
  BY <1>5
<1>11. CASE follows
  <2>1. next.at = "merged" /\ next.of = obs[k].of
    BY <1>1, <1>11 DEF CallState
  <2> QED
    BY <2>1, <1>4, <1>5, <1>9, <1>10, <1>11 DEF Merged
<1>12. CASE ~follows
  <2>1. next.at = "idle"
    BY <1>12 DEF Idle
  <2> QED
    BY <2>1, <1>4, <1>5, <1>9, <1>10, <1>12
<1> QED
  BY <1>11, <1>12

\* One of the saves after it.
Saves(k) == \/ MergeRecorded(k) \/ BindingCompleted(k) \/ GateSatisfied(k)
            \/ RunStarted(k) \/ DependencyReleased(k)

\* They belong to one observation, which was between them, and go on or end it.
LEMMA Saved ==
  ASSUME TypeOK, NEW k \in Observations, Saves(k), obs[k].of \in Bindings
  PROVE  /\ obs[k].at \in Saving
         /\ UNCHANGED <<github, order, crashes>>
         /\ obs' \in [Observations -> CallState]
         /\ \A j \in Observations : j # k => obs'[j] = obs[j]
         /\ \/ obs'[k].at \in Saving \ {"merged"} /\ obs'[k].of = obs[k].of
            \/ obs'[k].at = "idle"
<1>. USE DEF TypeOK, BindingStates, Evidence
<1>1. obs[k] \in CallState
  OBVIOUS
<1>2. ASSUME NEW at \in Saving \ {"merged"}, obs' = [obs EXCEPT ![k].at = at]
      PROVE  /\ obs' \in [Observations -> CallState]
             /\ \A j \in Observations : j # k => obs'[j] = obs[j]
             /\ obs'[k].at = at /\ obs'[k].of = obs[k].of
  <2>1. [obs[k] EXCEPT !.at = at] \in CallState
    BY <1>1 DEF CallState
  <2> QED
    BY <1>1, <1>2, <2>1, CallType DEF CallState
<1>3. ASSUME obs' = [obs EXCEPT ![k] = Idle]
      PROVE  /\ obs' \in [Observations -> CallState]
             /\ \A j \in Observations : j # k => obs'[j] = obs[j]
             /\ obs'[k].at = "idle"
  BY <1>3, IdleType, CallType DEF Idle
<1>4. CASE MergeRecorded(k)
  <2>1. obs' = [obs EXCEPT ![k].at = "binding"] /\ obs[k].at \in Saving
        /\ UNCHANGED <<github, order, crashes>>
    BY <1>4 DEF MergeRecorded, Saving
  <2>2. "binding" \in Saving \ {"merged"}
    BY DEF Saving
  <2> QED
    BY <1>2, <2>1, <2>2
<1>5. CASE BindingCompleted(k)
  <2>1. obs' = [obs EXCEPT ![k].at = "satisfied"] /\ obs[k].at \in Saving
        /\ UNCHANGED <<github, order, crashes>>
    BY <1>5 DEF BindingCompleted, Saving
  <2>2. "satisfied" \in Saving \ {"merged"}
    BY DEF Saving
  <2> QED
    BY <1>2, <2>1, <2>2
<1>6. CASE GateSatisfied(k)
  <2>1. /\ obs[k].at \in Saving /\ UNCHANGED <<github, order, crashes>>
        /\ obs' = [obs EXCEPT ![k] = IF dependency[obs[k].of] = "waiting"
                                     THEN [@ EXCEPT !.at = "start"] ELSE Idle]
    BY <1>6 DEF GateSatisfied, Saving
  <2>2. "start" \in Saving \ {"merged"}
    BY DEF Saving
  <2>3. CASE dependency[obs[k].of] = "waiting"
    <3>1. obs' = [obs EXCEPT ![k].at = "start"]
      BY <2>1, <2>3
    <3> QED
      BY <1>2, <2>1, <2>2, <3>1
  <2>4. CASE dependency[obs[k].of] # "waiting"
    <3>1. obs' = [obs EXCEPT ![k] = Idle]
      BY <2>1, <2>4
    <3> QED
      BY <1>3, <2>1, <3>1
  <2> QED
    BY <2>3, <2>4
<1>7. CASE RunStarted(k)
  <2>1. obs' = [obs EXCEPT ![k].at = "release"] /\ obs[k].at \in Saving
        /\ UNCHANGED <<github, order, crashes>>
    BY <1>7 DEF RunStarted, Saving
  <2>2. "release" \in Saving \ {"merged"}
    BY DEF Saving
  <2> QED
    BY <1>2, <2>1, <2>2
<1>8. CASE DependencyReleased(k)
  BY <1>3, <1>8 DEF DependencyReleased, Saving
<1> QED
  BY <1>4, <1>5, <1>6, <1>7, <1>8 DEF Saves

--------------------------------------------------------------------------
(* Every step keeps the types *)

LEMMA TypeStep ==
  ASSUME TypeOK, DeliveryInv, [Next]_vars
  PROVE  TypeOK'
<1>. USE DEF TypeOK, BindingStates, MergeOrders, Evidence
<1>1. \A k \in Observations : obs[k].at # "idle" => obs[k].of \in Bindings
  BY DEF DeliveryInv, WhatWasRead, CallState
<1>2. ASSUME NEW b \in Bindings, Push(b) \/ CheckChanges(b) \/ Merge(b) PROVE TypeOK'
  <2>1. events' \in 0..MaxEvents
    BY <1>2 DEF Push, CheckChanges, Merge, Happens
  <2>2. crashes' = crashes
    BY <1>2 DEF Push, CheckChanges, Merge, Happens
  <2> QED
    BY <1>2, <2>1, <2>2, GitHubMovesOn DEF store
<1>3. ASSUME NEW a \in Bindings, NEW b \in Bindings, AddMergeOrder(a, b) PROVE TypeOK'
  BY <1>3 DEF AddMergeOrder, github
<1>4. ASSUME NEW b \in Bindings, Declare(b) PROVE TypeOK'
  BY <1>4 DEF Declare, github
<1>5. ASSUME NEW k \in Observations,
             \/ \E b \in Bindings : Begin(k, b)
             \/ ReadPullRequest(k) \/ ReadChecks(k) \/ ReadFails(k)
      PROVE  TypeOK'
  <2>1. obs' \in [Observations -> CallState]
    BY <1>5, ReadsType
  <2>2. UNCHANGED <<github, store, crashes>>
    BY <1>5 DEF Begin, ReadPullRequest, ReadChecks, ReadFails
  <2> QED
    BY <2>1, <2>2 DEF github, store
<1>6. ASSUME NEW k \in Observations, Conclude(k) PROVE TypeOK'
  <2>1. obs[k].of \in Bindings
    BY <1>1, <1>6 DEF Conclude
  <2>2. evidence' \subseteq {"exact_head_ready", "merge_observed"} \X Bindings
    BY <1>6, <2>1, Concluded
  <2> QED
    BY <1>6, <2>1, <2>2, Concluded DEF github
<1>7. ASSUME NEW k \in Observations, Saves(k) PROVE TypeOK'
  <2>1. obs[k].of \in Bindings
    BY <1>1, <1>7
       DEF Saves, MergeRecorded, BindingCompleted, GateSatisfied, RunStarted, DependencyReleased
  <2>2. obs' \in [Observations -> CallState] /\ UNCHANGED <<github, order, crashes>>
    BY <1>7, <2>1, Saved
  <2>3. evidence' \in {evidence, evidence \cup {<<"merge_observed", obs[k].of>>}}
    BY <1>7
       DEF Saves, MergeRecorded, BindingCompleted, GateSatisfied, RunStarted, DependencyReleased
  <2>4. evidence' \subseteq {"exact_head_ready", "merge_observed"} \X Bindings
    BY <2>1, <2>3
  <2>5. binding' \in {binding, [binding EXCEPT ![obs[k].of] = "merged"]}
    BY <1>7
       DEF Saves, MergeRecorded, BindingCompleted, GateSatisfied, RunStarted, DependencyReleased
  <2>6. dependency' \in {dependency, [dependency EXCEPT ![obs[k].of] = "released"]}
    BY <1>7
       DEF Saves, MergeRecorded, BindingCompleted, GateSatisfied, RunStarted, DependencyReleased
  <2>7. run' \in {run, [run EXCEPT ![obs[k].of] = TRUE]}
    BY <1>7
       DEF Saves, MergeRecorded, BindingCompleted, GateSatisfied, RunStarted, DependencyReleased
  <2>8. binding' \in [Bindings -> {"active", "merged"}]
    BY <2>1, <2>5
  <2>9. dependency' \in [Bindings -> {"none", "waiting", "released"}]
    BY <2>1, <2>6
  <2>10. run' \in [Bindings -> BOOLEAN]
    BY <2>1, <2>7
  <2>11. gate' \in [Bindings -> Gates]
    <3>1. obs[k].gate \in Gates
      BY DEF CallState
    <3>2. [obs[k].gate EXCEPT !.state = "satisfied"] \in Gates
      BY <3>1 DEF Gates
    <3> QED
      BY <1>7, <2>1, <3>2, GateType
         DEF Saves, MergeRecorded, BindingCompleted, GateSatisfied, RunStarted, DependencyReleased
  <2> QED
    BY <2>2, <2>4, <2>8, <2>9, <2>10, <2>11 DEF github
<1>8. CASE Crash
  BY <1>8, IdleType DEF Crash, github, store
<1>9. CASE UNCHANGED vars
  BY <1>9 DEF vars, github, store
<1> QED
  BY <1>2, <1>3, <1>4, <1>5, <1>6, <1>7, <1>8, <1>9 DEF Next, Saves

--------------------------------------------------------------------------
(* Every step keeps the invariant *)

\* The steps of GitHub: whatever was the case there still is, as far as it counts.
LEMMA GitHubKeeps ==
  ASSUME TypeOK, DeliveryInv, NEW a \in Bindings, Push(a) \/ CheckChanges(a) \/ Merge(a)
  PROVE  DeliveryInv'
<1>1. /\ UNCHANGED <<order, gate, binding, evidence, dependency, run, obs>>
      /\ \A b \in Bindings :
            /\ passed[b] => passed'[b]
            /\ check'[b] => passed'[b]
            /\ pr[b].state = "merged" => pr'[b].state = "merged" /\ pr'[b].head = pr[b].head
  BY GitHubMovesOn DEF store
<1>2. ASSUME NEW k \in Observations PROVE WhatWasRead(k)' /\ WhatWasConcluded(k)'
  <2>1. WhatWasRead(k) /\ WhatWasConcluded(k)
    BY DEF DeliveryInv
  <2>2. obs[k].at \in Reading \cup Saving => obs[k].of \in Bindings
    BY <2>1 DEF WhatWasRead
  <2>3. WhatWasRead(k)'
    BY <1>1, <2>1, <2>2 DEF WhatWasRead, Reading
  <2>4. WhatWasConcluded(k)'
    BY <1>1, <2>1, <2>2 DEF WhatWasConcluded, BoundMerge, MergeOrderHolds
  <2> QED
    BY <2>3, <2>4
<1>3. EvidenceIsTrue'
  BY <1>1 DEF DeliveryInv, EvidenceIsTrue
<1>4. ReleasedByMerge'
  BY <1>1 DEF DeliveryInv, ReleasedByMerge
<1> QED
  BY <1>1, <1>2, <1>3, <1>4 DEF DeliveryInv

\* A call that is at rest has nothing to keep.
LEMMA AtRest ==
  ASSUME NEW k \in Observations, obs'[k].at = "idle"
  PROVE  WhatWasRead(k)' /\ WhatWasConcluded(k)'
BY DEF WhatWasRead, WhatWasConcluded, Reading, Saving

\* A read keeps what it saw; nothing is saved.
LEMMA ReadKeeps ==
  ASSUME TypeOK, DeliveryInv, NEW k \in Observations,
         \/ \E b \in Bindings : Begin(k, b)
         \/ ReadPullRequest(k) \/ ReadChecks(k) \/ ReadFails(k)
  PROVE  DeliveryInv'
<1>1. /\ UNCHANGED <<pr, check, passed, order, evidence, run>>
      /\ \A j \in Observations : j # k => obs'[j] = obs[j]
  BY DEF Begin, ReadPullRequest, ReadChecks, ReadFails, github, store, TypeOK
<1>2. obs[k] \in CallState /\ pr \in [Bindings -> PullRequests]
  BY DEF TypeOK
<1>3. ASSUME NEW j \in Observations, j # k PROVE WhatWasRead(j)' /\ WhatWasConcluded(j)'
  BY <1>1, <1>3 DEF DeliveryInv, WhatWasRead, WhatWasConcluded, BoundMerge, MergeOrderHolds
<1>4. WhatWasRead(k)' /\ WhatWasConcluded(k)'
  <2>1. WhatWasRead(k) /\ \A b \in Bindings : check[b] => passed[b]
    BY DEF DeliveryInv
  <2>2. ASSUME NEW b \in Bindings, Begin(k, b) PROVE WhatWasRead(k)' /\ WhatWasConcluded(k)'
    <3>1. obs'[k].at = "pr" /\ obs'[k].of = b
      BY <2>2 DEF Begin, Idle, TypeOK
    <3> QED
      BY <3>1 DEF WhatWasRead, WhatWasConcluded, Saving
  <2>3. CASE ReadPullRequest(k)
    <3>1. /\ obs[k].at = "pr" /\ obs'[k].at = "checks" /\ obs'[k].of = obs[k].of
          /\ obs'[k].merged = (pr[obs[k].of].state = "merged")
          /\ pr[obs[k].of].head # "bound" => "head_mismatch" \in obs'[k].blockers
      BY <1>2, <2>3 DEF ReadPullRequest, CallState, TypeOK
    <3> QED
      BY <1>1, <2>1, <3>1 DEF WhatWasRead, WhatWasConcluded, Saving, Reading
  <2>4. CASE ReadChecks(k)
    <3>1. /\ obs[k].at = "checks" /\ obs'[k].at = "base" /\ obs'[k].of = obs[k].of
          /\ obs'[k].merged = obs[k].merged
          /\ obs'[k].blockers = IF "head_mismatch" \in obs[k].blockers THEN obs[k].blockers
                                ELSE obs[k].blockers \cup CheckBlockers(obs[k].of)
      BY <1>2, <2>4 DEF ReadChecks, CallState, TypeOK
    <3>2. "head_mismatch" \notin obs'[k].blockers => "head_mismatch" \notin obs[k].blockers
      BY <3>1
    <3>3. obs'[k].blockers = {} => check[obs[k].of]
      BY <3>1 DEF CheckBlockers
    <3> QED
      BY <1>1, <2>1, <3>1, <3>2, <3>3 DEF WhatWasRead, WhatWasConcluded, Saving, Reading
  <2>5. CASE ReadFails(k)
    BY <2>5, AtRest DEF ReadFails, Idle, TypeOK
  <2> QED
    BY <2>2, <2>3, <2>4, <2>5
<1>5. EvidenceIsTrue' /\ ReleasedByMerge'
  BY <1>1 DEF DeliveryInv, EvidenceIsTrue, ReleasedByMerge
<1> QED
  BY <1>1, <1>3, <1>4, <1>5 DEF DeliveryInv

\* A conclusion that goes on to the merge has read that it happened, at the
\* bound head, and that the check had passed there.
LEMMA ConcludeKeeps ==
  ASSUME TypeOK, DeliveryInv, NEW k \in Observations, Conclude(k)
  PROVE  DeliveryInv'
<1>1. obs[k].of \in Bindings /\ WhatWasRead(k)
  BY DEF DeliveryInv, WhatWasRead, Conclude, Reading
<1>2. /\ obs[k].at = "base"
      /\ UNCHANGED <<pr, check, passed, order, run>>
      /\ \A j \in Observations : j # k => obs'[j] = obs[j]
      /\ \/ /\ obs'[k].at = "merged" /\ obs'[k].of = obs[k].of
            /\ obs[k].merged /\ obs[k].blockers = {} /\ MergeOrderHolds(obs[k].of)
            /\ evidence' = evidence
         \/ /\ obs'[k].at = "idle"
            /\ \/ evidence' = evidence
               \/ /\ obs[k].blockers = {}
                  /\ evidence' = evidence \cup {<<"exact_head_ready", obs[k].of>>}
  BY <1>1, Concluded DEF github
<1>3. evidence \subseteq evidence'
  BY <1>2
<1>4. ASSUME NEW j \in Observations, j # k PROVE WhatWasRead(j)' /\ WhatWasConcluded(j)'
  BY <1>2, <1>3, <1>4
     DEF DeliveryInv, WhatWasRead, WhatWasConcluded, BoundMerge, MergeOrderHolds
<1>5. WhatWasRead(k)' /\ WhatWasConcluded(k)'
  <2>1. CASE obs'[k].at = "merged"
    BY <1>1, <1>2, <2>1
       DEF WhatWasRead, WhatWasConcluded, BoundMerge, MergeOrderHolds, Reading, Saving
  <2>2. CASE obs'[k].at = "idle"
    BY <2>2, AtRest
  <2> QED
    BY <1>2, <2>1, <2>2
<1>6. EvidenceIsTrue'
  <2>1. obs[k].blockers = {} => passed[obs[k].of]
    BY <1>1, <1>2 DEF WhatWasRead
  <2>2. \A e \in evidence' :
               \/ e \in evidence
               \/ (passed[obs[k].of] /\ e = <<"exact_head_ready", obs[k].of>>)
    BY <1>2, <2>1
  <2>3. UNCHANGED <<pr, passed>>
    BY <1>2
  <2> QED
    BY <2>2, <2>3 DEF DeliveryInv, EvidenceIsTrue
<1>7. ReleasedByMerge'
  BY <1>2, <1>3 DEF DeliveryInv, ReleasedByMerge
<1> QED
  BY <1>2, <1>4, <1>5, <1>6, <1>7 DEF DeliveryInv

\* The saves record what the conclusion established, in this order: evidence
\* first, the run after it.
LEMMA SavesKeep ==
  ASSUME TypeOK, DeliveryInv, NEW k \in Observations, Saves(k)
  PROVE  DeliveryInv'
<1>1. /\ obs[k].at \in Saving /\ obs[k].of \in Bindings /\ BoundMerge(obs[k].of)
      /\ obs[k].at # "merged" => <<"merge_observed", obs[k].of>> \in evidence
  BY DEF DeliveryInv, WhatWasRead, WhatWasConcluded, Saving,
         Saves, MergeRecorded, BindingCompleted, GateSatisfied, RunStarted, DependencyReleased
<1>2. /\ UNCHANGED <<pr, check, passed, order>>
      /\ \A j \in Observations : j # k => obs'[j] = obs[j]
      /\ \/ obs'[k].at \in Saving \ {"merged"} /\ obs'[k].of = obs[k].of
         \/ obs'[k].at = "idle"
  BY <1>1, Saved DEF github
<1>3. /\ evidence \subseteq evidence'
      /\ \A e \in evidence' : e \in evidence \/ e = <<"merge_observed", obs[k].of>>
      /\ <<"merge_observed", obs[k].of>> \in evidence'
  BY <1>1
     DEF Saves, MergeRecorded, BindingCompleted, GateSatisfied, RunStarted, DependencyReleased
<1>4. \A b \in Bindings : run'[b] => run[b] \/ b = obs[k].of
  BY DEF Saves, MergeRecorded, BindingCompleted, GateSatisfied, RunStarted,
         DependencyReleased, TypeOK
<1>5. ASSUME NEW j \in Observations, j # k PROVE WhatWasRead(j)' /\ WhatWasConcluded(j)'
  BY <1>2, <1>3, <1>5
     DEF DeliveryInv, WhatWasRead, WhatWasConcluded, BoundMerge, MergeOrderHolds
<1>6. WhatWasRead(k)' /\ WhatWasConcluded(k)'
  <2>1. CASE obs'[k].at \in Saving \ {"merged"} /\ obs'[k].of = obs[k].of
    BY <1>1, <1>2, <1>3, <2>1 DEF WhatWasRead, WhatWasConcluded, BoundMerge, Saving
  <2>2. CASE obs'[k].at = "idle"
    BY <2>2, AtRest
  <2> QED
    BY <1>2, <2>1, <2>2
<1>7. EvidenceIsTrue'
  BY <1>1, <1>2, <1>3 DEF DeliveryInv, EvidenceIsTrue, BoundMerge
<1>8. ReleasedByMerge'
  BY <1>1, <1>2, <1>3, <1>4 DEF DeliveryInv, ReleasedByMerge, BoundMerge
<1> QED
  BY <1>2, <1>5, <1>6, <1>7, <1>8 DEF DeliveryInv

LEMMA InvStep ==
  ASSUME TypeOK, DeliveryInv, [Next]_vars
  PROVE  DeliveryInv'
<1>1. ASSUME NEW b \in Bindings, Push(b) \/ CheckChanges(b) \/ Merge(b) PROVE DeliveryInv'
  BY <1>1, GitHubKeeps
<1>2. ASSUME NEW a \in Bindings, NEW b \in Bindings, AddMergeOrder(a, b) PROVE DeliveryInv'
  <2>1. /\ UNCHANGED <<pr, check, passed, evidence, run, obs>>
        /\ \A k \in Observations : obs[k].at \notin Saving
    BY <1>2 DEF AddMergeOrder, Quiet, github
  <2>2. ASSUME NEW k \in Observations PROVE WhatWasRead(k)' /\ WhatWasConcluded(k)'
    BY <2>1 DEF DeliveryInv, WhatWasRead, WhatWasConcluded
  <2> QED
    BY <2>1, <2>2 DEF DeliveryInv, EvidenceIsTrue, ReleasedByMerge
<1>3. ASSUME UNCHANGED <<pr, check, passed, order, evidence, run, obs>> PROVE DeliveryInv'
  <2>1. ASSUME NEW k \in Observations PROVE WhatWasRead(k)' /\ WhatWasConcluded(k)'
    BY <1>3 DEF DeliveryInv, WhatWasRead, WhatWasConcluded, BoundMerge, MergeOrderHolds
  <2> QED
    BY <1>3, <2>1 DEF DeliveryInv, EvidenceIsTrue, ReleasedByMerge
<1>4. ASSUME NEW b \in Bindings, Declare(b) PROVE DeliveryInv'
  BY <1>3, <1>4 DEF Declare, github
<1>5. ASSUME NEW k \in Observations,
             \/ \E b \in Bindings : Begin(k, b)
             \/ ReadPullRequest(k) \/ ReadChecks(k) \/ ReadFails(k)
      PROVE  DeliveryInv'
  BY <1>5, ReadKeeps
<1>6. ASSUME NEW k \in Observations, Conclude(k) PROVE DeliveryInv'
  BY <1>6, ConcludeKeeps
<1>7. ASSUME NEW k \in Observations, Saves(k) PROVE DeliveryInv'
  BY <1>7, SavesKeep
<1>8. CASE Crash
  <2>1. /\ UNCHANGED <<pr, check, passed, order, evidence, run>>
        /\ \A k \in Observations : obs'[k].at = "idle"
    BY <1>8 DEF Crash, github, store, Idle
  <2>2. ASSUME NEW k \in Observations PROVE WhatWasRead(k)' /\ WhatWasConcluded(k)'
    BY <2>1, AtRest
  <2> QED
    BY <2>1, <2>2 DEF DeliveryInv, EvidenceIsTrue, ReleasedByMerge
<1>9. CASE UNCHANGED vars
  BY <1>3, <1>9 DEF vars, github, store
<1> QED
  BY <1>1, <1>2, <1>4, <1>5, <1>6, <1>7, <1>8, <1>9 DEF Next, Saves

LEMMA InitHolds == Init => TypeOK /\ DeliveryInv
<1>. SUFFICES ASSUME Init PROVE TypeOK /\ DeliveryInv
  OBVIOUS
<1>1. pr \in [Bindings -> PullRequests] /\ gate \in [Bindings -> Gates]
  BY DEF Init, PullRequests, Gates, Waiting
<1>2. TypeOK
  BY <1>1, IdleType DEF Init, TypeOK, BindingStates, Evidence
<1>3. \A k \in Observations : obs[k].at = "idle"
  BY DEF Init, Idle
<1>4. DeliveryInv
  BY <1>3 DEF Init, DeliveryInv, WhatWasRead, WhatWasConcluded, Reading, Saving,
              EvidenceIsTrue, ReleasedByMerge
<1> QED
  BY <1>2, <1>4

--------------------------------------------------------------------------
(* Theorems *)

\* The inductive invariant: gates, evidence and calls stay well typed, what a
\* call has read stays true while it reads on, and a concluded observation has
\* everything its saves record (observeDelivery).
THEOREM DeliveryInvariant == Spec => [](TypeOK /\ DeliveryInv)
<1>1. Init => TypeOK /\ DeliveryInv
  BY InitHolds
<1>2. (TypeOK /\ DeliveryInv) /\ [Next]_vars => (TypeOK /\ DeliveryInv)'
  BY TypeStep, InvStep
<1> QED
  BY <1>1, <1>2, PTL DEF Spec

\* No mission run is released without a checked merge at the bound head
\* (releaseDeliveryDependencies), for any number of overlapping observations.
THEOREM ReleasedByMergeHolds == Spec => []ReleasedByMerge
<1>1. DeliveryInv => ReleasedByMerge
  BY DEF DeliveryInv
<1> QED
  BY <1>1, DeliveryInvariant, PTL

\* Evidence is of something that was the case on GitHub (storeDeliveryEvidence).
THEOREM EvidenceIsTrueHolds == Spec => []EvidenceIsTrue
<1>1. DeliveryInv => EvidenceIsTrue
  BY DEF DeliveryInv
<1> QED
  BY <1>1, DeliveryInvariant, PTL

\* A merge counts only after those it was ordered behind (evaluateMergeOrder).
THEOREM MergesAreOrderedHolds == Spec => MergesAreOrdered
<1> DEFINE Ordered == \A c \in order :
                        <<"merge_observed", c[2]>> \in evidence' \ evidence
                            => <<"merge_observed", c[1]>> \in evidence
<1>1. TypeOK /\ DeliveryInv /\ [Next]_vars => [Ordered]_vars
  <2>. SUFFICES ASSUME TypeOK, DeliveryInv, [Next]_vars PROVE Ordered
    OBVIOUS
  <2>1. ASSUME NEW k \in Observations, MergeRecorded(k) PROVE Ordered
    BY <2>1 DEF MergeRecorded, DeliveryInv, WhatWasConcluded, MergeOrderHolds, Saving
  <2>2. ASSUME NEW k \in Observations, Conclude(k) PROVE Ordered
    BY <2>2 DEF Conclude
  <2>3. CASE UNCHANGED evidence
    BY <2>3
  <2> QED
    BY <2>1, <2>2, <2>3
       DEF Next, vars, store, Happens, Push, CheckChanges, Merge, AddMergeOrder, Declare,
           Begin, ReadPullRequest, ReadChecks, ReadFails, BindingCompleted, GateSatisfied,
           RunStarted, DependencyReleased, Crash
<1> QED
  BY <1>1, DeliveryInvariant, PTL DEF Spec, MergesAreOrdered
==========================================================================
