------------------------- MODULE DelegationProofs -------------------------
(***************************************************************************)
(* Proofs about controlled delegation, for any steps of the source         *)
(* mission and any number of requests, receipts and crashes: the inductive *)
(* invariant DelegationInv, the invariants that follow from it, and the    *)
(* refinement of DelegationPromise.                                        *)
(***************************************************************************)
EXTENDS DelegationProperties, FiniteSetTheorems, TLAPS

--------------------------------------------------------------------------
(* What each side leaves alone *)

\* Setting an instance up changes nothing but its peers and policy.
LEMMA SetupFrame ==
    ASSUME Setup PROVE UNCHANGED <<source, destination, exchange, src, dst, world>>
BY DEF Setup, setup, RecordPeerBinding, RecordDelegationPolicy, ExpirePolicy

\* The source changes its own records, what it sends and its own effects.
LEMMA SourceFrame ==
    ASSUME Source PROVE UNCHANGED <<setup, destination, delivered, dst, effects>>
BY DEF Source, exchange, source, world, CreateRequest, PushRequest,
   AppendRequest, ProposeCancellation, EnsureAttempt, PullReceipt,
   ConsumeUnbound, ConsumeBound, BlockAttempt, ScheduleStep, LocalSubmit,
   RetryStep, BindStep, StartMission, ResumeMission, Ensured, EndEvaluation,
   ReleaseAttempt, ActivateAttempt, CompleteAttempt, RecordConsumption,
   CrashSource

\* The destination changes its own records, its receipts and its effects.
LEMMA DestinationFrame ==
    ASSUME Destination
    PROVE UNCHANGED <<setup, source, requested, withdrawn, src, localEffects>>
BY DEF Destination, exchange, destination, world, ReceiveRequest,
   SaveProposal, AdmitProposal, RequestGate, SettleProposal,
   RevalidateProposal, ExpireGate, ApproveGate, CreateWork, BindWork,
   RejectProposal, ReceiveCancellation, RefuseCancellation,
   AcceptCancellation, SettleCancellation, AdvanceWork, OnlyWork, SubmitWork,
   ObserveResult, ApproveAgain, PublishReceipt, DeliverReceipt,
   CrashDestination

--------------------------------------------------------------------------
(* Types *)

\* Every record of the source stays in its range.
LEMMA SourceTypeStep ==
    ASSUME SourceTypeOK, DestinationTypeOK, ConsumptionInv, AttemptInv, [Next]_vars
    PROVE SourceTypeOK'
<1> USE DelegationAssumption DEF SourceTypeOK, AttemptState, SourceAt,
    Requests, Revisions, source, destination, exchange, world, setup
<1>1. CASE Setup
  BY <1>1, SetupFrame
<1>2. ASSUME NEW q \in Requests, NEW s \in Steps \cup {NoStep}, CreateRequest(q, s)
      PROVE SourceTypeOK'
  <2>1. asks' \in [Requests -> Steps \cup {NoStep, NotAsked}]
    BY <1>2 DEF CreateRequest, NewRequest, Set
  <2>2. src' \in [at : SourceAt, req : 0..MaxRequests, rev : 0..MaxReceipts]
    <3>1. src' = [at |-> "idle", req |-> 0, rev |-> 0]
            \/ src' = [at |-> "bind", req |-> q, rev |-> 0]
      BY <1>2 DEF CreateRequest, SourceIdle, Idle
    <3>2. QED BY <3>1
  <2>3. QED BY <1>2, <2>1, <2>2 DEF CreateRequest
<1>3. ASSUME NEW q \in Requests, PushRequest(q) PROVE SourceTypeOK'
  BY <1>3 DEF PushRequest, AppendRequest
<1>4. ASSUME NEW q \in Requests, ProposeCancellation(q) PROVE SourceTypeOK'
  BY <1>4 DEF ProposeCancellation, AppendCancellation
<1>5. ASSUME NEW q \in Requests, EnsureAttempt(q) PROVE SourceTypeOK'
  BY <1>5 DEF EnsureAttempt, Set
<1>6. ASSUME NEW q \in Requests, NEW r \in Revisions, PullReceipt(q, r)
      PROVE SourceTypeOK'
  BY <1>6 DEF PullReceipt, SourceIdle, ReadReceipts, Idle
<1>7. ASSUME NEW q \in Requests, NEW r \in Revisions, ConsumeUnbound(q, r)
      PROVE SourceTypeOK'
  BY <1>7 DEF ConsumeUnbound, SourceIdle, Consumable, Idle
<1>8. ASSUME NEW q \in Requests, NEW r \in Revisions, ConsumeBound(q, r)
      PROVE SourceTypeOK'
  BY <1>8 DEF ConsumeBound, SourceIdle, Consumable, Idle
<1>9. ASSUME NEW s \in Steps, BlockAttempt(s) PROVE SourceTypeOK'
  BY <1>9 DEF BlockAttempt, Set
<1>10. ASSUME NEW s \in Steps, ScheduleStep(s) PROVE SourceTypeOK'
  BY <1>10 DEF ScheduleStep, Set
<1>11. ASSUME NEW s \in Steps, LocalSubmit(s) PROVE SourceTypeOK'
  BY <1>11 DEF LocalSubmit
<1>12. ASSUME NEW s \in Steps, RetryStep(s) PROVE SourceTypeOK'
  BY <1>12 DEF RetryStep, SourceIdle, Idle, Set
<1>13. CASE BindStep
  <2>1. src.req \in Requests
    <3>1. src.req \in 0..MaxRequests OBVIOUS
    <3>2. src.req # 0 BY <1>13 DEF BindStep, AttemptInv
    <3>3. QED BY <3>1, <3>2
  <2>2. src' \in [at : SourceAt, req : 0..MaxRequests, rev : 0..MaxReceipts]
    BY <1>13 DEF BindStep, Idle
  <2>3. QED BY <1>13, <2>1, <2>2 DEF BindStep
<1>14. CASE StartMission
  BY <1>14 DEF StartMission, SourceIdle, Idle
<1>15. CASE ResumeMission
  BY <1>15 DEF ResumeMission, SourceIdle, Idle
<1>16. CASE Ensured
  BY <1>16 DEF Ensured
<1>17. CASE EndEvaluation
  BY <1>17 DEF EndEvaluation, Idle
<1>18. CASE ReleaseAttempt
  BY <1>18 DEF ReleaseAttempt, Idle, Set
<1>19. CASE ActivateAttempt
  BY <1>19 DEF ActivateAttempt, Set
<1>20. CASE CompleteAttempt
  BY <1>20 DEF CompleteAttempt, Set
<1>21. CASE RecordConsumption
  <2>1. <<src.req, src.rev>> \in mirror
    BY <1>21 DEF RecordConsumption, AttemptInv, ConsumptionInv
  <2>2. src' \in [at : SourceAt, req : 0..MaxRequests, rev : 0..MaxReceipts]
    BY <1>21 DEF RecordConsumption, Idle
  <2>3. QED BY <1>21, <2>1, <2>2 DEF RecordConsumption
<1>22. CASE CrashSource
  BY <1>22 DEF CrashSource, Idle
<1>23. CASE Destination
  BY <1>23, DestinationFrame
<1>24. CASE UNCHANGED vars
  BY <1>24 DEF vars
<1>25. QED
  BY <1>1, <1>2, <1>3, <1>4, <1>5, <1>6, <1>7, <1>8, <1>9, <1>10, <1>11,
     <1>12, <1>13, <1>14, <1>15, <1>16, <1>17, <1>18, <1>19, <1>20, <1>21,
     <1>22, <1>23, <1>24 DEF Next, Setup, Source, Destination

\* Every record of the destination stays in its range.
LEMMA DestinationTypeStep ==
    ASSUME DestinationTypeOK, [Next]_vars PROVE DestinationTypeOK'
<1> USE DelegationAssumption DEF DestinationTypeOK, Roles, WorkState,
    ProposalState, DestinationStep, Requests, Revisions, source, destination,
    exchange, world, setup
<1>1. ASSUME NEW i \in Roles, RecordPeerBinding(i) PROVE DestinationTypeOK'
  BY <1>1 DEF RecordPeerBinding
<1>2. CASE RecordDelegationPolicy
  BY <1>2 DEF RecordDelegationPolicy, NewPolicy
<1>3. CASE ExpirePolicy
  BY <1>3 DEF ExpirePolicy
<1>4. CASE Source
  <2>1. UNCHANGED <<setup, destination, delivered, dst, effects>> BY <1>4, SourceFrame
  <2>2. QED BY <2>1
<1>5. ASSUME NEW q \in Requests, ReceiveRequest(q) PROVE DestinationTypeOK'
  BY <1>5 DEF ReceiveRequest, ReadInbox, Follows, DestinationIdle,
     DestinationGoto
<1>6. ASSUME NEW q \in Requests, SaveProposal(q) PROVE DestinationTypeOK'
  BY <1>6 DEF SaveProposal, DestinationAt, DestinationGoto, NewProposal, Set
<1>7. ASSUME NEW q \in Requests, AdmitProposal(q) PROVE DestinationTypeOK'
  <2>1. admission' \in [Requests -> {"none", "admissible", "inadmissible"}]
    BY <1>7 DEF AdmitProposal, Evaluate, Set
  <2>2. dst' \in [at : DestinationStep, req : 0..MaxRequests]
    BY <1>7 DEF AdmitProposal, DestinationGoto
  <2>3. QED BY <1>7, <2>1, <2>2 DEF AdmitProposal
<1>8. ASSUME NEW q \in Requests, RequestGate(q) PROVE DestinationTypeOK'
  BY <1>8 DEF RequestGate, DestinationAt, DestinationGoto, Set
<1>9. ASSUME NEW q \in Requests, SettleProposal(q) PROVE DestinationTypeOK'
  BY <1>9 DEF SettleProposal, DestinationAt, DestinationDone, DestinationGoto,
     Verdict, Set
<1>10. ASSUME NEW q \in Requests, RevalidateProposal(q) PROVE DestinationTypeOK'
  BY <1>10 DEF RevalidateProposal, DestinationIdle, DestinationDone,
     DestinationGoto, Evaluate, PolicyAllows, WithinCaps, Set
<1>11. ASSUME NEW q \in Requests, ExpireGate(q) PROVE DestinationTypeOK'
  BY <1>11 DEF ExpireGate, DestinationAt, DestinationGoto, Set
<1>12. ASSUME NEW q \in Requests, ApproveGate(q) PROVE DestinationTypeOK'
  BY <1>12 DEF ApproveGate, DestinationAt, DestinationGoto, Set
<1>13. ASSUME NEW q \in Requests, CreateWork(q) PROVE DestinationTypeOK'
  BY <1>13 DEF CreateWork, DestinationAt, DestinationGoto, Set
<1>14. ASSUME NEW q \in Requests, BindWork(q) PROVE DestinationTypeOK'
  BY <1>14 DEF BindWork, DestinationAt, DestinationGoto, NewBinding, Set
<1>15. ASSUME NEW q \in Requests, RejectProposal(q) PROVE DestinationTypeOK'
  BY <1>15 DEF RejectProposal, DestinationIdle, DestinationGoto, Decidable,
     Set
<1>16. ASSUME NEW q \in Requests, ReceiveCancellation(q) PROVE DestinationTypeOK'
  BY <1>16 DEF ReceiveCancellation, DestinationIdle, ReadCancellations, Set
<1>17. ASSUME NEW q \in Requests, RefuseCancellation(q) PROVE DestinationTypeOK'
  BY <1>17 DEF RefuseCancellation, DestinationIdle, Set
<1>18. ASSUME NEW q \in Requests, AcceptCancellation(q) PROVE DestinationTypeOK'
  BY <1>18 DEF AcceptCancellation, DestinationIdle, DestinationGoto, Pending,
     Set
<1>19. ASSUME NEW q \in Requests, SettleCancellation(q) PROVE DestinationTypeOK'
  BY <1>19 DEF SettleCancellation, DestinationAt, DestinationDone,
     DestinationGoto, Set
<1>20. ASSUME NEW q \in Requests, AdvanceWork(q) PROVE DestinationTypeOK'
  <2>1. work' \in [Requests -> WorkState]
    <3>1. \E w \in WorkState : work' = [work EXCEPT ![q] = w]
      BY <1>20 DEF AdvanceWork, WorkGoes, Set
    <3>2. QED BY <3>1
  <2>2. dst' \in [at : DestinationStep, req : 0..MaxRequests]
    BY <1>20 DEF AdvanceWork, DestinationGoto
  <2>3. reviewed' \subseteq Requests BY <1>20 DEF AdvanceWork
  <2>4. QED BY <1>20, <2>1, <2>2, <2>3 DEF AdvanceWork, OnlyWork
<1>21. ASSUME NEW q \in Requests, SubmitWork(q) PROVE DestinationTypeOK'
  BY <1>21 DEF SubmitWork, WorkGoes, OnlyWork, Set
<1>22. ASSUME NEW q \in Requests, ObserveResult(q) PROVE DestinationTypeOK'
  <2>1. work' \in [Requests -> WorkState]
    <3>1. \E w \in WorkState : work' = [work EXCEPT ![q] = w]
      BY <1>22 DEF ObserveResult, WorkGoes, Set
    <3>2. QED BY <3>1
  <2>2. dst' \in [at : DestinationStep, req : 0..MaxRequests]
    BY <1>22 DEF ObserveResult, DestinationGoto
  <2>3. reviewed' \subseteq Requests BY <1>22 DEF ObserveResult
  <2>4. QED BY <1>22, <2>1, <2>2, <2>3 DEF ObserveResult, OnlyWork
<1>23. ASSUME NEW q \in Requests, ApproveAgain(q) PROVE DestinationTypeOK'
  BY <1>23 DEF ApproveAgain, DestinationIdle, DestinationGoto, Publishes
<1>24. ASSUME NEW q \in Requests, PublishReceipt(q) PROVE DestinationTypeOK'
  BY <1>24 DEF PublishReceipt, DestinationAt, DestinationDone,
     DestinationGoto, Set
<1>25. ASSUME NEW q \in Requests, NEW r \in Revisions, DeliverReceipt(q, r)
       PROVE DestinationTypeOK'
  BY <1>25 DEF DeliverReceipt, AppendReceipt
<1>26. CASE CrashDestination
  <2>1. work' \in [Requests -> WorkState]
    BY <1>26 DEF CrashDestination
  <2>2. dst' \in [at : DestinationStep, req : 0..MaxRequests]
    BY <1>26 DEF CrashDestination, DestinationDone, DestinationGoto
  <2>3. QED BY <1>26, <2>1, <2>2 DEF CrashDestination
<1>27. CASE UNCHANGED vars
  BY <1>27 DEF vars
<1>28. QED
  BY <1>1, <1>2, <1>3, <1>4, <1>5, <1>6, <1>7, <1>8, <1>9, <1>10, <1>11,
     <1>12, <1>13, <1>14, <1>15, <1>16, <1>17, <1>18, <1>19, <1>20, <1>21,
     <1>22, <1>23, <1>24, <1>25, <1>26, <1>27 DEF Next, Setup, Source,
     Destination

\* Only a crash changes their number.
LEMMA CrashesStep ==
    ASSUME TypeOK, [Next]_vars PROVE crashes' \in Nat
<1> USE DEF TypeOK, world
<1>1. CASE Setup
  BY <1>1, SetupFrame
<1>2. Source => crashes' = crashes \/ crashes' = crashes + 1
  BY DEF Source, CreateRequest, PushRequest, AppendRequest,
     ProposeCancellation, EnsureAttempt, PullReceipt, ConsumeUnbound,
     ConsumeBound, BlockAttempt, ScheduleStep, LocalSubmit, RetryStep,
     BindStep, StartMission, ResumeMission, Ensured, EndEvaluation,
     ReleaseAttempt, ActivateAttempt, CompleteAttempt, RecordConsumption,
     CrashSource
<1>3. Destination => crashes' = crashes \/ crashes' = crashes + 1
  BY DEF Destination, ReceiveRequest, SaveProposal, AdmitProposal,
     RequestGate, SettleProposal, RevalidateProposal, ExpireGate, ApproveGate,
     CreateWork, BindWork, RejectProposal, ReceiveCancellation,
     RefuseCancellation, AcceptCancellation, SettleCancellation, AdvanceWork,
     OnlyWork, SubmitWork, ObserveResult, ApproveAgain, PublishReceipt,
     DeliverReceipt, CrashDestination
<1>4. CASE UNCHANGED vars
  BY <1>4 DEF vars
<1>5. QED BY <1>1, <1>2, <1>3, <1>4 DEF Next

--------------------------------------------------------------------------
(* The inbox of the destination *)

\* Only what was asked is received, in order, and works when approved.
LEMMA InboxStep ==
    ASSUME TypeOK, InboxInv, ChainInv, [Next]_vars PROVE InboxInv'
<1> USE DelegationAssumption DEF TypeOK, SourceTypeOK, DestinationTypeOK,
    InboxInv, ChainInv, InboundIsPrefix, RemoteWorkIsAuthorized, Requests,
    source, destination, exchange, world, setup
<1>1. ASSUME NEW i \in Roles, RecordPeerBinding(i) PROVE InboxInv'
  BY <1>1 DEF RecordPeerBinding
<1>2. CASE RecordDelegationPolicy
  BY <1>2 DEF RecordDelegationPolicy, NewPolicy
<1>3. CASE ExpirePolicy
  BY <1>3 DEF ExpirePolicy
<1>4. ASSUME NEW q \in Requests, NEW s \in Steps \cup {NoStep}, CreateRequest(q, s)
      PROVE InboxInv'
  BY <1>4 DEF CreateRequest, SourceIdle, IsNextSequence, NewRequest,
     Delegated, Idle, Set
<1>5. ASSUME NEW q \in Requests, PushRequest(q) PROVE InboxInv'
  BY <1>5 DEF PushRequest, AppendRequest
<1>6. ASSUME NEW q \in Requests, ProposeCancellation(q) PROVE InboxInv'
  BY <1>6 DEF ProposeCancellation, AppendCancellation
<1>7. ASSUME NEW q \in Requests, EnsureAttempt(q) PROVE InboxInv'
  BY <1>7 DEF EnsureAttempt, Set
<1>8. ASSUME NEW q \in Requests, NEW r \in Revisions, PullReceipt(q, r) PROVE InboxInv'
  BY <1>8 DEF PullReceipt, SourceIdle, ReadReceipts, Idle
<1>9. ASSUME NEW q \in Requests, NEW r \in Revisions, ConsumeUnbound(q, r)
      PROVE InboxInv'
  BY <1>9 DEF ConsumeUnbound, SourceIdle, Consumable, Idle
<1>10. ASSUME NEW q \in Requests, NEW r \in Revisions, ConsumeBound(q, r)
       PROVE InboxInv'
  BY <1>10 DEF ConsumeBound, SourceIdle, Consumable, Idle
<1>11. ASSUME NEW s \in Steps, BlockAttempt(s) PROVE InboxInv'
  BY <1>11 DEF BlockAttempt, Set
<1>12. ASSUME NEW s \in Steps, ScheduleStep(s) PROVE InboxInv'
  BY <1>12 DEF ScheduleStep, Set
<1>13. ASSUME NEW s \in Steps, LocalSubmit(s) PROVE InboxInv'
  BY <1>13 DEF LocalSubmit
<1>14. ASSUME NEW s \in Steps, RetryStep(s) PROVE InboxInv'
  BY <1>14 DEF RetryStep, SourceIdle, Idle, Set
<1>15. CASE BindStep
  BY <1>15 DEF BindStep, Idle
<1>16. CASE StartMission
  BY <1>16 DEF StartMission, SourceIdle, Idle
<1>17. CASE ResumeMission
  BY <1>17 DEF ResumeMission, SourceIdle, Idle
<1>18. CASE Ensured
  BY <1>18 DEF Ensured
<1>19. CASE EndEvaluation
  BY <1>19 DEF EndEvaluation, Idle
<1>20. CASE ReleaseAttempt
  BY <1>20 DEF ReleaseAttempt, Idle, Set
<1>21. CASE ActivateAttempt
  BY <1>21 DEF ActivateAttempt, Set
<1>22. CASE CompleteAttempt
  BY <1>22 DEF CompleteAttempt, Set
<1>23. CASE RecordConsumption
  BY <1>23 DEF RecordConsumption, Idle
<1>24. CASE CrashSource
  BY <1>24 DEF CrashSource, Idle
<1>25. ASSUME NEW q \in Requests, ReceiveRequest(q) PROVE InboxInv'
  <2>1. inbound' = inbound \cup {q} /\ asks[q] # NotAsked
    BY <1>25 DEF ReceiveRequest, ReadInbox
  <2>2. \A p \in inbound' : 1..p \subseteq inbound'
    <3>1. 1..q \subseteq inbound \cup {q}
      <4>1. CASE q = 1 BY <4>1
      <4>2. CASE q - 1 \in inbound
        <5>1. 1..(q - 1) \subseteq inbound BY <4>2
        <5>2. QED BY <5>1
      <4>3. QED BY <1>25, <4>1, <4>2 DEF ReceiveRequest, Follows
    <3>2. QED BY <2>1, <3>1
  <2>3. UNCHANGED <<asks, requested, proposal, gate, work, policy>>
    BY <1>25 DEF ReceiveRequest
  <2>4. QED BY <2>1, <2>2, <2>3
<1>26. ASSUME NEW q \in Requests, SaveProposal(q) PROVE InboxInv'
  BY <1>26 DEF SaveProposal, DestinationAt, DestinationGoto, NewProposal, Set
<1>27. ASSUME NEW q \in Requests, AdmitProposal(q) PROVE InboxInv'
  BY <1>27 DEF AdmitProposal, DestinationAt, DestinationGoto, Evaluate,
     PolicyAllows, WithinCaps, Set
<1>28. ASSUME NEW q \in Requests, RequestGate(q) PROVE InboxInv'
  BY <1>28 DEF RequestGate, DestinationAt, DestinationGoto, Set
<1>29. ASSUME NEW q \in Requests, SettleProposal(q) PROVE InboxInv'
  BY <1>29 DEF SettleProposal, DestinationAt, DestinationDone,
     DestinationGoto, Verdict, Set
<1>30. ASSUME NEW q \in Requests, RevalidateProposal(q) PROVE InboxInv'
  BY <1>30 DEF RevalidateProposal, DestinationIdle, DestinationDone,
     DestinationGoto, Evaluate, PolicyAllows, WithinCaps, Set
<1>31. ASSUME NEW q \in Requests, ExpireGate(q) PROVE InboxInv'
  <2>1. q \in inbound /\ UNCHANGED <<asks, requested, inbound, proposal, work, policy>>
    BY <1>31 DEF ExpireGate, DestinationAt
  <2>2. \A p \in Requests : gate[p] = "approved" => gate'[p] = "approved"
    BY <1>31 DEF ExpireGate, Set
  <2>3. \A p \in Requests : gate'[p] # "none" => p \in inbound
    BY <1>31, <2>1 DEF ExpireGate, Set
  <2>4. QED BY <2>1, <2>2, <2>3
<1>32. ASSUME NEW q \in Requests, ApproveGate(q) PROVE InboxInv'
  <2>1. gate[q] = "requested" /\ UNCHANGED <<asks, requested, inbound, proposal, work, policy>>
    BY <1>32 DEF ApproveGate, DestinationAt
  <2>2. gate' = [gate EXCEPT ![q] = "approved"]
    BY <1>32 DEF ApproveGate, Set
  <2>3. QED BY <2>1, <2>2
<1>33. ASSUME NEW q \in Requests, CreateWork(q) PROVE InboxInv'
  BY <1>33 DEF CreateWork, DestinationAt, DestinationGoto, Set
<1>34. ASSUME NEW q \in Requests, BindWork(q) PROVE InboxInv'
  BY <1>34 DEF BindWork, DestinationAt, DestinationGoto, NewBinding, Set
<1>35. ASSUME NEW q \in Requests, RejectProposal(q) PROVE InboxInv'
  BY <1>35 DEF RejectProposal, DestinationIdle, DestinationGoto, Decidable,
     Set
<1>36. ASSUME NEW q \in Requests, ReceiveCancellation(q) PROVE InboxInv'
  BY <1>36 DEF ReceiveCancellation, DestinationIdle, ReadCancellations, Set
<1>37. ASSUME NEW q \in Requests, RefuseCancellation(q) PROVE InboxInv'
  BY <1>37 DEF RefuseCancellation, DestinationIdle, Set
<1>38. ASSUME NEW q \in Requests, AcceptCancellation(q) PROVE InboxInv'
  BY <1>38 DEF AcceptCancellation, DestinationIdle, DestinationGoto, Pending,
     Set
<1>39. ASSUME NEW q \in Requests, SettleCancellation(q) PROVE InboxInv'
  BY <1>39 DEF SettleCancellation, DestinationAt, DestinationDone,
     DestinationGoto, Set
<1>40. ASSUME NEW q \in Requests, AdvanceWork(q) PROVE InboxInv'
  BY <1>40 DEF AdvanceWork, DestinationIdle, WorkGoes, OnlyWork, Set
<1>41. ASSUME NEW q \in Requests, SubmitWork(q) PROVE InboxInv'
  BY <1>41 DEF SubmitWork, WorkGoes, OnlyWork, Set
<1>42. ASSUME NEW q \in Requests, ObserveResult(q) PROVE InboxInv'
  BY <1>42 DEF ObserveResult, DestinationIdle, DestinationGoto, WorkGoes,
     OnlyWork, Set
<1>43. ASSUME NEW q \in Requests, ApproveAgain(q) PROVE InboxInv'
  BY <1>43 DEF ApproveAgain, DestinationIdle, DestinationGoto, Publishes
<1>44. ASSUME NEW q \in Requests, PublishReceipt(q) PROVE InboxInv'
  BY <1>44 DEF PublishReceipt, DestinationAt, DestinationDone,
     DestinationGoto, Set
<1>45. ASSUME NEW q \in Requests, NEW r \in Revisions, DeliverReceipt(q, r)
       PROVE InboxInv'
  BY <1>45 DEF DeliverReceipt, AppendReceipt
<1>46. CASE CrashDestination
  BY <1>46 DEF CrashDestination, DestinationDone, DestinationGoto
<1>47. CASE UNCHANGED vars
  BY <1>47 DEF vars
<1>48. QED
  BY <1>1, <1>2, <1>3, <1>4, <1>5, <1>6, <1>7, <1>8, <1>9, <1>10, <1>11,
     <1>12, <1>13, <1>14, <1>15, <1>16, <1>17, <1>18, <1>19, <1>20, <1>21,
     <1>22, <1>23, <1>24, <1>25, <1>26, <1>27, <1>28, <1>29, <1>30, <1>31,
     <1>32, <1>33, <1>34, <1>35, <1>36, <1>37, <1>38, <1>39, <1>40, <1>41,
     <1>42, <1>43, <1>44, <1>45, <1>46, <1>47 DEF Next, Setup, Source,
     Destination

--------------------------------------------------------------------------
(* The chain in progress at the destination *)

\* A chain finds what it left at its last save.
LEMMA ChainStep ==
    ASSUME TypeOK, InboxInv, ChainInv, [Next]_vars PROVE ChainInv'
<1> USE DelegationAssumption DEF TypeOK, SourceTypeOK, DestinationTypeOK,
    InboxInv, ChainInv, RemoteWorkIsAuthorized, Pending, NotStarted, source,
    destination, exchange, world, setup
<1>1. ASSUME NEW i \in Roles, RecordPeerBinding(i) PROVE ChainInv'
  BY <1>1 DEF RecordPeerBinding
<1>2. CASE RecordDelegationPolicy
  BY <1>2 DEF RecordDelegationPolicy, NewPolicy
<1>3. CASE ExpirePolicy
  BY <1>3 DEF ExpirePolicy
<1>4. CASE Source
  BY <1>4, SourceFrame
<1>5. ASSUME NEW q \in Requests, ReceiveRequest(q) PROVE ChainInv'
  BY <1>5 DEF ReceiveRequest, ReadInbox, Follows, DestinationIdle,
     DestinationGoto
<1>6. ASSUME NEW q \in Requests, SaveProposal(q) PROVE ChainInv'
  BY <1>6 DEF SaveProposal, DestinationAt, DestinationGoto, NewProposal, Set
<1>7. ASSUME NEW q \in Requests, AdmitProposal(q) PROVE ChainInv'
  BY <1>7 DEF AdmitProposal, DestinationAt, DestinationGoto, Evaluate,
     PolicyAllows, WithinCaps, Set
<1>8. ASSUME NEW q \in Requests, RequestGate(q) PROVE ChainInv'
  BY <1>8 DEF RequestGate, DestinationAt, DestinationGoto, Set
<1>9. ASSUME NEW q \in Requests, SettleProposal(q) PROVE ChainInv'
  BY <1>9 DEF SettleProposal, DestinationAt, DestinationDone, DestinationGoto,
     Verdict, Set
<1>10. ASSUME NEW q \in Requests, RevalidateProposal(q) PROVE ChainInv'
  BY <1>10 DEF RevalidateProposal, DestinationIdle, DestinationDone,
     DestinationGoto, Evaluate, PolicyAllows, WithinCaps, Set
<1>11. ASSUME NEW q \in Requests, ExpireGate(q) PROVE ChainInv'
  BY <1>11 DEF ExpireGate, DestinationAt, DestinationGoto, Set
<1>12. ASSUME NEW q \in Requests, ApproveGate(q) PROVE ChainInv'
  BY <1>12 DEF ApproveGate, DestinationAt, DestinationGoto, Set
<1>13. ASSUME NEW q \in Requests, CreateWork(q) PROVE ChainInv'
  BY <1>13 DEF CreateWork, DestinationAt, DestinationGoto, Set
<1>14. ASSUME NEW q \in Requests, BindWork(q) PROVE ChainInv'
  BY <1>14 DEF BindWork, DestinationAt, DestinationGoto, NewBinding, Set
<1>15. ASSUME NEW q \in Requests, RejectProposal(q) PROVE ChainInv'
  BY <1>15 DEF RejectProposal, DestinationIdle, DestinationGoto, Decidable,
     Set
<1>16. ASSUME NEW q \in Requests, ReceiveCancellation(q) PROVE ChainInv'
  BY <1>16 DEF ReceiveCancellation, DestinationIdle, ReadCancellations, Set
<1>17. ASSUME NEW q \in Requests, RefuseCancellation(q) PROVE ChainInv'
  BY <1>17 DEF RefuseCancellation, DestinationIdle, Set
<1>18. ASSUME NEW q \in Requests, AcceptCancellation(q) PROVE ChainInv'
  BY <1>18 DEF AcceptCancellation, DestinationIdle, DestinationGoto, Pending,
     Set
<1>19. ASSUME NEW q \in Requests, SettleCancellation(q) PROVE ChainInv'
  BY <1>19 DEF SettleCancellation, DestinationAt, DestinationDone,
     DestinationGoto, Set
<1>20. ASSUME NEW q \in Requests, AdvanceWork(q) PROVE ChainInv'
  BY <1>20 DEF AdvanceWork, DestinationIdle, WorkGoes, OnlyWork, Set
<1>21. ASSUME NEW q \in Requests, SubmitWork(q) PROVE ChainInv'
  BY <1>21 DEF SubmitWork, WorkGoes, OnlyWork, Set
<1>22. ASSUME NEW q \in Requests, ObserveResult(q) PROVE ChainInv'
  BY <1>22 DEF ObserveResult, DestinationIdle, DestinationGoto, WorkGoes,
     OnlyWork, Set
<1>23. ASSUME NEW q \in Requests, ApproveAgain(q) PROVE ChainInv'
  BY <1>23 DEF ApproveAgain, DestinationIdle, DestinationGoto, Publishes
<1>24. ASSUME NEW q \in Requests, PublishReceipt(q) PROVE ChainInv'
  BY <1>24 DEF PublishReceipt, DestinationAt, DestinationDone,
     DestinationGoto, Set
<1>25. ASSUME NEW q \in Requests, NEW r \in Revisions, DeliverReceipt(q, r)
       PROVE ChainInv'
  BY <1>25 DEF DeliverReceipt, AppendReceipt
<1>26. CASE CrashDestination
  BY <1>26 DEF CrashDestination, DestinationDone, DestinationGoto
<1>27. CASE UNCHANGED vars
  BY <1>27 DEF vars
<1>28. QED
  BY <1>1, <1>2, <1>3, <1>4, <1>5, <1>6, <1>7, <1>8, <1>9, <1>10, <1>11,
     <1>12, <1>13, <1>14, <1>15, <1>16, <1>17, <1>18, <1>19, <1>20, <1>21,
     <1>22, <1>23, <1>24, <1>25, <1>26, <1>27 DEF Next, Setup, Source,
     Destination

--------------------------------------------------------------------------
(* Effects of delegated work *)

\* Work is submitted once, and once more after its review.
LEMMA WorkStep ==
    ASSUME TypeOK, ChainInv, WorkInv, [Next]_vars PROVE WorkInv'
<1> USE DelegationAssumption DEF TypeOK, SourceTypeOK, DestinationTypeOK,
    ChainInv, WorkInv, EffectsAreReviewed, source, destination, exchange,
    world, setup
<1>1. CASE Setup
  BY <1>1, SetupFrame
<1>2. CASE Source
  BY <1>2, SourceFrame
<1>3. ASSUME NEW q \in Requests, ReceiveRequest(q) PROVE WorkInv'
  BY <1>3 DEF ReceiveRequest, ReadInbox, Follows, DestinationIdle,
     DestinationGoto
<1>4. ASSUME NEW q \in Requests, SaveProposal(q) PROVE WorkInv'
  BY <1>4 DEF SaveProposal, DestinationAt, DestinationGoto, NewProposal, Set
<1>5. ASSUME NEW q \in Requests, AdmitProposal(q) PROVE WorkInv'
  BY <1>5 DEF AdmitProposal, DestinationAt, DestinationGoto, Evaluate,
     PolicyAllows, WithinCaps, Set
<1>6. ASSUME NEW q \in Requests, RequestGate(q) PROVE WorkInv'
  BY <1>6 DEF RequestGate, DestinationAt, DestinationGoto, Set
<1>7. ASSUME NEW q \in Requests, SettleProposal(q) PROVE WorkInv'
  BY <1>7 DEF SettleProposal, DestinationAt, DestinationDone, DestinationGoto,
     Verdict, Set
<1>8. ASSUME NEW q \in Requests, RevalidateProposal(q) PROVE WorkInv'
  BY <1>8 DEF RevalidateProposal, DestinationIdle, DestinationDone,
     DestinationGoto, Evaluate, PolicyAllows, WithinCaps, Set
<1>9. ASSUME NEW q \in Requests, ExpireGate(q) PROVE WorkInv'
  BY <1>9 DEF ExpireGate, DestinationAt, DestinationGoto, Set
<1>10. ASSUME NEW q \in Requests, ApproveGate(q) PROVE WorkInv'
  BY <1>10 DEF ApproveGate, DestinationAt, DestinationGoto, Set
<1>11. ASSUME NEW q \in Requests, CreateWork(q) PROVE WorkInv'
  BY <1>11 DEF CreateWork, DestinationAt, DestinationGoto, Set
<1>12. ASSUME NEW q \in Requests, BindWork(q) PROVE WorkInv'
  BY <1>12 DEF BindWork, DestinationAt, DestinationGoto, NewBinding, Set
<1>13. ASSUME NEW q \in Requests, RejectProposal(q) PROVE WorkInv'
  BY <1>13 DEF RejectProposal, DestinationIdle, DestinationGoto, Decidable,
     Set
<1>14. ASSUME NEW q \in Requests, ReceiveCancellation(q) PROVE WorkInv'
  BY <1>14 DEF ReceiveCancellation, DestinationIdle, ReadCancellations, Set
<1>15. ASSUME NEW q \in Requests, RefuseCancellation(q) PROVE WorkInv'
  BY <1>15 DEF RefuseCancellation, DestinationIdle, Set
<1>16. ASSUME NEW q \in Requests, AcceptCancellation(q) PROVE WorkInv'
  BY <1>16 DEF AcceptCancellation, DestinationIdle, DestinationGoto, Pending,
     Set
<1>17. ASSUME NEW q \in Requests, SettleCancellation(q) PROVE WorkInv'
  BY <1>17 DEF SettleCancellation, DestinationAt, DestinationDone,
     DestinationGoto, Set
<1>18. ASSUME NEW q \in Requests, AdvanceWork(q) PROVE WorkInv'
  BY <1>18 DEF AdvanceWork, DestinationIdle, WorkGoes, OnlyWork, Set
<1>19. ASSUME NEW q \in Requests, SubmitWork(q) PROVE WorkInv'
  BY <1>19 DEF SubmitWork, WorkGoes, OnlyWork, Set
<1>20. ASSUME NEW q \in Requests, ObserveResult(q) PROVE WorkInv'
  BY <1>20 DEF ObserveResult, DestinationIdle, DestinationGoto, WorkGoes,
     OnlyWork, Set
<1>21. ASSUME NEW q \in Requests, ApproveAgain(q) PROVE WorkInv'
  BY <1>21 DEF ApproveAgain, DestinationIdle, DestinationGoto, Publishes
<1>22. ASSUME NEW q \in Requests, PublishReceipt(q) PROVE WorkInv'
  BY <1>22 DEF PublishReceipt, DestinationAt, DestinationDone,
     DestinationGoto, Set
<1>23. ASSUME NEW q \in Requests, NEW r \in Revisions, DeliverReceipt(q, r)
       PROVE WorkInv'
  BY <1>23 DEF DeliverReceipt, AppendReceipt
<1>24. CASE CrashDestination
  BY <1>24 DEF CrashDestination, DestinationDone, DestinationGoto
<1>25. CASE UNCHANGED vars
  BY <1>25 DEF vars
<1>26. QED
  BY <1>1, <1>2, <1>3, <1>4, <1>5, <1>6, <1>7, <1>8, <1>9, <1>10, <1>11,
     <1>12, <1>13, <1>14, <1>15, <1>16, <1>17, <1>18, <1>19, <1>20, <1>21,
     <1>22, <1>23, <1>24, <1>25 DEF Next, Setup, Source, Destination

--------------------------------------------------------------------------
(* Receipts *)

\* A receipt was published before it is delivered, mirrored and consumed.
LEMMA ReceiptStep ==
    ASSUME TypeOK, ChainInv, WorkInv, ReceiptInv, ConsumptionInv, [Next]_vars
    PROVE ReceiptInv'
<1> USE DelegationAssumption DEF TypeOK, SourceTypeOK, DestinationTypeOK,
    ChainInv, WorkInv, ReceiptInv, source, destination, exchange, world, setup
<1>1. CASE Setup
  BY <1>1, SetupFrame
<1>2. ASSUME NEW q \in Requests, NEW s \in Steps \cup {NoStep}, CreateRequest(q, s)
      PROVE ReceiptInv'
  BY <1>2 DEF CreateRequest, SourceIdle, IsNextSequence, NewRequest,
     Delegated, Idle, Set
<1>3. ASSUME NEW q \in Requests, PushRequest(q) PROVE ReceiptInv'
  BY <1>3 DEF PushRequest, AppendRequest
<1>4. ASSUME NEW q \in Requests, ProposeCancellation(q) PROVE ReceiptInv'
  BY <1>4 DEF ProposeCancellation, AppendCancellation
<1>5. ASSUME NEW q \in Requests, EnsureAttempt(q) PROVE ReceiptInv'
  BY <1>5 DEF EnsureAttempt, Set
<1>6. ASSUME NEW q \in Requests, NEW r \in Revisions, PullReceipt(q, r)
      PROVE ReceiptInv'
  BY <1>6 DEF PullReceipt, SourceIdle, ReadReceipts, Idle
<1>7. ASSUME NEW q \in Requests, NEW r \in Revisions, ConsumeUnbound(q, r)
      PROVE ReceiptInv'
  BY <1>7 DEF ConsumeUnbound, SourceIdle, Consumable, Idle
<1>8. ASSUME NEW q \in Requests, NEW r \in Revisions, ConsumeBound(q, r)
      PROVE ReceiptInv'
  BY <1>8 DEF ConsumeBound, SourceIdle, Consumable, Idle
<1>9. ASSUME NEW s \in Steps, BlockAttempt(s) PROVE ReceiptInv'
  BY <1>9 DEF BlockAttempt, Set
<1>10. ASSUME NEW s \in Steps, ScheduleStep(s) PROVE ReceiptInv'
  BY <1>10 DEF ScheduleStep, Set
<1>11. ASSUME NEW s \in Steps, LocalSubmit(s) PROVE ReceiptInv'
  BY <1>11 DEF LocalSubmit
<1>12. ASSUME NEW s \in Steps, RetryStep(s) PROVE ReceiptInv'
  BY <1>12 DEF RetryStep, SourceIdle, Idle, Set
<1>13. CASE BindStep
  BY <1>13 DEF BindStep, Idle
<1>14. CASE StartMission
  BY <1>14 DEF StartMission, SourceIdle, Idle
<1>15. CASE ResumeMission
  BY <1>15 DEF ResumeMission, SourceIdle, Idle
<1>16. CASE Ensured
  BY <1>16 DEF Ensured
<1>17. CASE EndEvaluation
  BY <1>17 DEF EndEvaluation, Idle
<1>18. CASE ReleaseAttempt
  BY <1>18 DEF ReleaseAttempt, Idle, Set
<1>19. CASE ActivateAttempt
  BY <1>19 DEF ActivateAttempt, Set
<1>20. CASE CompleteAttempt
  BY <1>20 DEF CompleteAttempt, Set
<1>21. CASE RecordConsumption
  <2>1. <<src.req, src.rev>> \in mirror
    BY <1>21 DEF RecordConsumption, ConsumptionInv, Requests
  <2>2. QED BY <1>21, <2>1 DEF RecordConsumption, Idle
<1>22. CASE CrashSource
  BY <1>22 DEF CrashSource, Idle
<1>23. ASSUME NEW q \in Requests, ReceiveRequest(q) PROVE ReceiptInv'
  BY <1>23 DEF ReceiveRequest, ReadInbox, Follows, DestinationIdle,
     DestinationGoto
<1>24. ASSUME NEW q \in Requests, SaveProposal(q) PROVE ReceiptInv'
  BY <1>24 DEF SaveProposal, DestinationAt, DestinationGoto, NewProposal, Set
<1>25. ASSUME NEW q \in Requests, AdmitProposal(q) PROVE ReceiptInv'
  BY <1>25 DEF AdmitProposal, DestinationAt, DestinationGoto, Evaluate,
     PolicyAllows, WithinCaps, Set
<1>26. ASSUME NEW q \in Requests, RequestGate(q) PROVE ReceiptInv'
  BY <1>26 DEF RequestGate, DestinationAt, DestinationGoto, Set
<1>27. ASSUME NEW q \in Requests, SettleProposal(q) PROVE ReceiptInv'
  BY <1>27 DEF SettleProposal, DestinationAt, DestinationDone,
     DestinationGoto, Verdict, Set
<1>28. ASSUME NEW q \in Requests, RevalidateProposal(q) PROVE ReceiptInv'
  BY <1>28 DEF RevalidateProposal, DestinationIdle, DestinationDone,
     DestinationGoto, Evaluate, PolicyAllows, WithinCaps, Set
<1>29. ASSUME NEW q \in Requests, ExpireGate(q) PROVE ReceiptInv'
  BY <1>29 DEF ExpireGate, DestinationAt, DestinationGoto, Set
<1>30. ASSUME NEW q \in Requests, ApproveGate(q) PROVE ReceiptInv'
  BY <1>30 DEF ApproveGate, DestinationAt, DestinationGoto, Set
<1>31. ASSUME NEW q \in Requests, CreateWork(q) PROVE ReceiptInv'
  BY <1>31 DEF CreateWork, DestinationAt, DestinationGoto, Set
<1>32. ASSUME NEW q \in Requests, BindWork(q) PROVE ReceiptInv'
  BY <1>32 DEF BindWork, DestinationAt, DestinationGoto, NewBinding, Set
<1>33. ASSUME NEW q \in Requests, RejectProposal(q) PROVE ReceiptInv'
  BY <1>33 DEF RejectProposal, DestinationIdle, DestinationGoto, Decidable,
     Set
<1>34. ASSUME NEW q \in Requests, ReceiveCancellation(q) PROVE ReceiptInv'
  BY <1>34 DEF ReceiveCancellation, DestinationIdle, ReadCancellations, Set
<1>35. ASSUME NEW q \in Requests, RefuseCancellation(q) PROVE ReceiptInv'
  BY <1>35 DEF RefuseCancellation, DestinationIdle, Set
<1>36. ASSUME NEW q \in Requests, AcceptCancellation(q) PROVE ReceiptInv'
  BY <1>36 DEF AcceptCancellation, DestinationIdle, DestinationGoto, Pending,
     Set
<1>37. ASSUME NEW q \in Requests, SettleCancellation(q) PROVE ReceiptInv'
  BY <1>37 DEF SettleCancellation, DestinationAt, DestinationDone,
     DestinationGoto, Set
<1>38. ASSUME NEW q \in Requests, AdvanceWork(q) PROVE ReceiptInv'
  BY <1>38 DEF AdvanceWork, DestinationIdle, WorkGoes, OnlyWork, Set
<1>39. ASSUME NEW q \in Requests, SubmitWork(q) PROVE ReceiptInv'
  BY <1>39 DEF SubmitWork, WorkGoes, OnlyWork, Set
<1>40. ASSUME NEW q \in Requests, ObserveResult(q) PROVE ReceiptInv'
  BY <1>40 DEF ObserveResult, DestinationIdle, DestinationGoto, WorkGoes,
     OnlyWork, Set
<1>41. ASSUME NEW q \in Requests, ApproveAgain(q) PROVE ReceiptInv'
  BY <1>41 DEF ApproveAgain, DestinationIdle, DestinationGoto, Publishes
<1>42. ASSUME NEW q \in Requests, PublishReceipt(q) PROVE ReceiptInv'
  BY <1>42 DEF PublishReceipt, DestinationAt, DestinationDone,
     DestinationGoto, Set
<1>43. ASSUME NEW q \in Requests, NEW r \in Revisions, DeliverReceipt(q, r)
       PROVE ReceiptInv'
  BY <1>43 DEF DeliverReceipt, AppendReceipt
<1>44. CASE CrashDestination
  BY <1>44 DEF CrashDestination, DestinationDone, DestinationGoto
<1>45. CASE UNCHANGED vars
  BY <1>45 DEF vars
<1>46. QED
  BY <1>1, <1>2, <1>3, <1>4, <1>5, <1>6, <1>7, <1>8, <1>9, <1>10, <1>11,
     <1>12, <1>13, <1>14, <1>15, <1>16, <1>17, <1>18, <1>19, <1>20, <1>21,
     <1>22, <1>23, <1>24, <1>25, <1>26, <1>27, <1>28, <1>29, <1>30, <1>31,
     <1>32, <1>33, <1>34, <1>35, <1>36, <1>37, <1>38, <1>39, <1>40, <1>41,
     <1>42, <1>43, <1>44, <1>45 DEF Next, Setup, Source, Destination

--------------------------------------------------------------------------
(* Attempts of the source *)

\* A step that was delegated is never scheduled for the source itself.
LEMMA AttemptStep ==
    ASSUME TypeOK, AttemptInv, ConsumptionInv, [Next]_vars PROVE AttemptInv'
<1> USE DelegationAssumption DEF TypeOK, SourceTypeOK, DestinationTypeOK,
    AttemptInv, ConsumptionInv, Delegated, AttemptState, SourceAt, source,
    destination, exchange, world, setup
<1>1. CASE Setup
  BY <1>1, SetupFrame
<1>2. ASSUME NEW q \in Requests, NEW s \in Steps \cup {NoStep}, CreateRequest(q, s)
      PROVE AttemptInv'
  <2>1. \A p \in Requests : p # q => asks'[p] = asks[p]
    BY <1>2 DEF CreateRequest, NewRequest, Set
  <2>2. q \notin bound BY <1>2 DEF CreateRequest, IsNextSequence
  <2>3. src' = Idle \/ (src'.at = "bind" /\ src'.req = q /\ s \in Steps /\ mission = "none")
    BY <1>2 DEF CreateRequest, SourceIdle, Idle
  <2>4. asks'[q] = s BY <1>2 DEF CreateRequest, NewRequest, Set
  <2>5. UNCHANGED <<bound, mission, attempt, localEffects>>
    BY <1>2 DEF CreateRequest
  <2>6. \A p \in bound : asks'[p] = asks[p] BY <2>1, <2>2
  <2>7. \A t \in Steps : Delegated(t)' <=> Delegated(t) BY <2>5, <2>6
  <2>8. q # 0 BY DEF Requests
  <2>9. QED BY <2>3, <2>4, <2>5, <2>6, <2>7, <2>8 DEF Idle
<1>3. ASSUME NEW q \in Requests, PushRequest(q) PROVE AttemptInv'
  BY <1>3 DEF PushRequest, AppendRequest
<1>4. ASSUME NEW q \in Requests, ProposeCancellation(q) PROVE AttemptInv'
  BY <1>4 DEF ProposeCancellation, AppendCancellation
<1>5. ASSUME NEW q \in Requests, EnsureAttempt(q) PROVE AttemptInv'
  BY <1>5 DEF EnsureAttempt, Set
<1>6. ASSUME NEW q \in Requests, NEW r \in Revisions, PullReceipt(q, r)
      PROVE AttemptInv'
  BY <1>6 DEF PullReceipt, SourceIdle, ReadReceipts, Idle
<1>7. ASSUME NEW q \in Requests, NEW r \in Revisions, ConsumeUnbound(q, r)
      PROVE AttemptInv'
  BY <1>7 DEF ConsumeUnbound, SourceIdle, Consumable, Idle
<1>8. ASSUME NEW q \in Requests, NEW r \in Revisions, ConsumeBound(q, r)
      PROVE AttemptInv'
  BY <1>8 DEF ConsumeBound, SourceIdle, Consumable, Idle
<1>9. ASSUME NEW s \in Steps, BlockAttempt(s) PROVE AttemptInv'
  BY <1>9 DEF BlockAttempt, Set
<1>10. ASSUME NEW s \in Steps, ScheduleStep(s) PROVE AttemptInv'
  BY <1>10 DEF ScheduleStep, Set
<1>11. ASSUME NEW s \in Steps, LocalSubmit(s) PROVE AttemptInv'
  BY <1>11 DEF LocalSubmit
<1>12. ASSUME NEW s \in Steps, RetryStep(s) PROVE AttemptInv'
  BY <1>12 DEF RetryStep, SourceIdle, Idle, Set
<1>13. CASE BindStep
  BY <1>13 DEF BindStep, Idle
<1>14. CASE StartMission
  BY <1>14 DEF StartMission, SourceIdle, Idle
<1>15. CASE ResumeMission
  BY <1>15 DEF ResumeMission, SourceIdle, Idle
<1>16. CASE Ensured
  BY <1>16 DEF Ensured
<1>17. CASE EndEvaluation
  BY <1>17 DEF EndEvaluation, Idle
<1>18. CASE ReleaseAttempt
  <2>1. PICK t \in Steps : t = asks[src.req] BY <1>18 DEF ReleaseAttempt
  <2>2. UNCHANGED <<asks, bound, mission, localEffects>> /\ mission # "none"
    BY <1>18 DEF ReleaseAttempt
  <2>3. CASE attempt[t] = "blocked"
    <3>1. attempt' = [attempt EXCEPT ![t] = "released"] /\ src'.at = "activate"
      BY <1>18, <2>1, <2>3 DEF ReleaseAttempt, Set
    <3>2. attempt'[t] = "released" /\ \A s \in Steps \ {t} : attempt'[s] = attempt[s]
      BY <3>1
    <3>3. QED BY <2>2, <2>3, <3>1, <3>2
  <2>4. CASE attempt[t] # "blocked"
    BY <1>18, <2>1, <2>4 DEF ReleaseAttempt, Idle
  <2>5. QED BY <2>3, <2>4
<1>19. CASE ActivateAttempt
  BY <1>19 DEF ActivateAttempt, Set
<1>20. CASE CompleteAttempt
  BY <1>20 DEF CompleteAttempt, Set
<1>21. CASE RecordConsumption
  BY <1>21 DEF RecordConsumption, Idle
<1>22. CASE CrashSource
  BY <1>22 DEF CrashSource, Idle
<1>23. CASE Destination
  BY <1>23, DestinationFrame
<1>24. CASE UNCHANGED vars
  BY <1>24 DEF vars
<1>25. QED
  BY <1>1, <1>2, <1>3, <1>4, <1>5, <1>6, <1>7, <1>8, <1>9, <1>10, <1>11,
     <1>12, <1>13, <1>14, <1>15, <1>16, <1>17, <1>18, <1>19, <1>20, <1>21,
     <1>22, <1>23, <1>24 DEF Next, Setup, Source, Destination

--------------------------------------------------------------------------
(* Consumption of receipts *)

\* A request takes one receipt: its attempt waits for none afterwards.
LEMMA ConsumptionStep ==
    ASSUME TypeOK, InboxInv, ReceiptInv, WorkInv, AttemptInv, ConsumptionInv, [Next]_vars
    PROVE ConsumptionInv'
<1> USE DelegationAssumption DEF TypeOK, SourceTypeOK, DestinationTypeOK,
    ConsumptionInv, ConsumedOnce, AttemptInv, SourceAt, source, destination,
    exchange, world, setup
<1>1. CASE Setup
  BY <1>1, SetupFrame
<1>2. ASSUME NEW q \in Requests, NEW s \in Steps \cup {NoStep}, CreateRequest(q, s)
      PROVE ConsumptionInv'
  <2>1. \A p \in Requests : p # q => asks'[p] = asks[p]
    BY <1>2 DEF CreateRequest, NewRequest, Set
  <2>2. q \notin bound BY <1>2 DEF CreateRequest, IsNextSequence
  <2>3. src' = Idle \/ (src'.at = "bind" /\ src'.req = q)
    BY <1>2 DEF CreateRequest, SourceIdle, Idle
  <2>4. \A r \in Revisions : <<q, r>> \notin consumed
    BY <1>2 DEF CreateRequest, IsNextSequence, ReceiptInv, InboxInv, RemoteWorkIsAuthorized
  <2>5. UNCHANGED <<bound, attempt, mirror, consumed, effects>>
    BY <1>2 DEF CreateRequest
  <2>6. QED BY <2>1, <2>2, <2>3, <2>4, <2>5 DEF Idle
<1>3. ASSUME NEW q \in Requests, PushRequest(q) PROVE ConsumptionInv'
  BY <1>3 DEF PushRequest, AppendRequest
<1>4. ASSUME NEW q \in Requests, ProposeCancellation(q) PROVE ConsumptionInv'
  BY <1>4 DEF ProposeCancellation, AppendCancellation
<1>5. ASSUME NEW q \in Requests, EnsureAttempt(q) PROVE ConsumptionInv'
  BY <1>5 DEF EnsureAttempt, Set
<1>6. ASSUME NEW q \in Requests, NEW r \in Revisions, PullReceipt(q, r)
      PROVE ConsumptionInv'
  BY <1>6 DEF PullReceipt, SourceIdle, ReadReceipts, Idle
<1>7. ASSUME NEW q \in Requests, NEW r \in Revisions, ConsumeUnbound(q, r)
      PROVE ConsumptionInv'
  BY <1>7 DEF ConsumeUnbound, SourceIdle, Consumable, Idle
<1>8. ASSUME NEW q \in Requests, NEW r \in Revisions, ConsumeBound(q, r)
      PROVE ConsumptionInv'
  <2>1. effects[q] > 0 /\ <<q, r>> \in mirror
    BY <1>8 DEF ConsumeBound, Consumable, ReceiptInv
  <2>2. src'.at = "ensure" /\ src'.req = q /\ src'.rev = r /\ q \in bound /\ r # 0
    BY <1>8 DEF ConsumeBound, Revisions
  <2>3. UNCHANGED <<asks, bound, attempt, mirror, consumed, effects>>
    BY <1>8 DEF ConsumeBound
  <2>4. QED BY <2>1, <2>2, <2>3
<1>9. ASSUME NEW s \in Steps, BlockAttempt(s) PROVE ConsumptionInv'
  BY <1>9 DEF BlockAttempt, Set
<1>10. ASSUME NEW s \in Steps, ScheduleStep(s) PROVE ConsumptionInv'
  BY <1>10 DEF ScheduleStep, Set
<1>11. ASSUME NEW s \in Steps, LocalSubmit(s) PROVE ConsumptionInv'
  BY <1>11 DEF LocalSubmit
<1>12. ASSUME NEW s \in Steps, RetryStep(s) PROVE ConsumptionInv'
  BY <1>12 DEF RetryStep, SourceIdle, Idle, Set
<1>13. CASE BindStep
  BY <1>13 DEF BindStep, Idle
<1>14. CASE StartMission
  BY <1>14 DEF StartMission, SourceIdle, Idle
<1>15. CASE ResumeMission
  BY <1>15 DEF ResumeMission, SourceIdle, Idle
<1>16. CASE Ensured
  BY <1>16 DEF Ensured
<1>17. CASE EndEvaluation
  BY <1>17 DEF EndEvaluation, Idle
<1>18. CASE ReleaseAttempt
  <2>1. asks[src.req] \in Steps BY <1>18 DEF ReleaseAttempt
  <2>2. CASE attempt[asks[src.req]] = "blocked"
    <3>1. \A s \in Steps : attempt'[s] = attempt[s] \/ attempt[s] = "blocked"
      BY <1>18, <2>1, <2>2 DEF ReleaseAttempt, Set
    <3>2. src'.at = "activate" /\ src'.req = src.req /\ src'.rev = src.rev
      BY <1>18, <2>2 DEF ReleaseAttempt
    <3>3. attempt'[asks[src.req]] = "released"
      BY <1>18, <2>1, <2>2 DEF ReleaseAttempt, Set
    <3>4. UNCHANGED <<asks, bound, mirror, consumed, effects>>
      BY <1>18 DEF ReleaseAttempt
    <3>5. src.req \in bound /\ src.rev # 0 /\ src.req # 0 /\ effects[src.req] > 0 /\ <<src.req, src.rev>> \in mirror
      BY <1>18 DEF ReleaseAttempt, Requests
    <3>6. \A r \in Revisions : <<src.req, r>> \notin consumed
      BY <2>2, <3>5
    <3>7. QED BY <3>1, <3>2, <3>3, <3>4, <3>5, <3>6
  <2>3. CASE attempt[asks[src.req]] # "blocked"
    BY <1>18, <2>3 DEF ReleaseAttempt, Idle
  <2>4. QED BY <2>2, <2>3
<1>19. CASE ActivateAttempt
  BY <1>19 DEF ActivateAttempt, Set
<1>20. CASE CompleteAttempt
  BY <1>20 DEF CompleteAttempt, Set
<1>21. CASE RecordConsumption
  BY <1>21 DEF RecordConsumption, Idle
<1>22. CASE CrashSource
  BY <1>22 DEF CrashSource, Idle
<1>23. ASSUME NEW q \in Requests, ReceiveRequest(q) PROVE ConsumptionInv'
  BY <1>23 DEF ReceiveRequest, ReadInbox, Follows, DestinationIdle,
     DestinationGoto
<1>24. ASSUME NEW q \in Requests, SaveProposal(q) PROVE ConsumptionInv'
  BY <1>24 DEF SaveProposal, DestinationAt, DestinationGoto, NewProposal, Set
<1>25. ASSUME NEW q \in Requests, AdmitProposal(q) PROVE ConsumptionInv'
  BY <1>25 DEF AdmitProposal, DestinationAt, DestinationGoto, Evaluate,
     PolicyAllows, WithinCaps, Set
<1>26. ASSUME NEW q \in Requests, RequestGate(q) PROVE ConsumptionInv'
  BY <1>26 DEF RequestGate, DestinationAt, DestinationGoto, Set
<1>27. ASSUME NEW q \in Requests, SettleProposal(q) PROVE ConsumptionInv'
  BY <1>27 DEF SettleProposal, DestinationAt, DestinationDone,
     DestinationGoto, Verdict, Set
<1>28. ASSUME NEW q \in Requests, RevalidateProposal(q) PROVE ConsumptionInv'
  BY <1>28 DEF RevalidateProposal, DestinationIdle, DestinationDone,
     DestinationGoto, Evaluate, PolicyAllows, WithinCaps, Set
<1>29. ASSUME NEW q \in Requests, ExpireGate(q) PROVE ConsumptionInv'
  BY <1>29 DEF ExpireGate, DestinationAt, DestinationGoto, Set
<1>30. ASSUME NEW q \in Requests, ApproveGate(q) PROVE ConsumptionInv'
  BY <1>30 DEF ApproveGate, DestinationAt, DestinationGoto, Set
<1>31. ASSUME NEW q \in Requests, CreateWork(q) PROVE ConsumptionInv'
  BY <1>31 DEF CreateWork, DestinationAt, DestinationGoto, Set
<1>32. ASSUME NEW q \in Requests, BindWork(q) PROVE ConsumptionInv'
  BY <1>32 DEF BindWork, DestinationAt, DestinationGoto, NewBinding, Set
<1>33. ASSUME NEW q \in Requests, RejectProposal(q) PROVE ConsumptionInv'
  BY <1>33 DEF RejectProposal, DestinationIdle, DestinationGoto, Decidable,
     Set
<1>34. ASSUME NEW q \in Requests, ReceiveCancellation(q) PROVE ConsumptionInv'
  BY <1>34 DEF ReceiveCancellation, DestinationIdle, ReadCancellations, Set
<1>35. ASSUME NEW q \in Requests, RefuseCancellation(q) PROVE ConsumptionInv'
  BY <1>35 DEF RefuseCancellation, DestinationIdle, Set
<1>36. ASSUME NEW q \in Requests, AcceptCancellation(q) PROVE ConsumptionInv'
  BY <1>36 DEF AcceptCancellation, DestinationIdle, DestinationGoto, Pending,
     Set
<1>37. ASSUME NEW q \in Requests, SettleCancellation(q) PROVE ConsumptionInv'
  BY <1>37 DEF SettleCancellation, DestinationAt, DestinationDone,
     DestinationGoto, Set
<1>38. ASSUME NEW q \in Requests, AdvanceWork(q) PROVE ConsumptionInv'
  BY <1>38 DEF AdvanceWork, DestinationIdle, WorkGoes, OnlyWork, Set
<1>39. ASSUME NEW q \in Requests, SubmitWork(q) PROVE ConsumptionInv'
  BY <1>39 DEF SubmitWork, WorkGoes, OnlyWork, Set
<1>40. ASSUME NEW q \in Requests, ObserveResult(q) PROVE ConsumptionInv'
  BY <1>40 DEF ObserveResult, DestinationIdle, DestinationGoto, WorkGoes,
     OnlyWork, Set
<1>41. ASSUME NEW q \in Requests, ApproveAgain(q) PROVE ConsumptionInv'
  BY <1>41 DEF ApproveAgain, DestinationIdle, DestinationGoto, Publishes
<1>42. ASSUME NEW q \in Requests, PublishReceipt(q) PROVE ConsumptionInv'
  BY <1>42 DEF PublishReceipt, DestinationAt, DestinationDone,
     DestinationGoto, Set
<1>43. ASSUME NEW q \in Requests, NEW r \in Revisions, DeliverReceipt(q, r)
       PROVE ConsumptionInv'
  BY <1>43 DEF DeliverReceipt, AppendReceipt
<1>44. CASE CrashDestination
  BY <1>44 DEF CrashDestination, DestinationDone, DestinationGoto
<1>45. CASE UNCHANGED vars
  BY <1>45 DEF vars
<1>46. QED
  BY <1>1, <1>2, <1>3, <1>4, <1>5, <1>6, <1>7, <1>8, <1>9, <1>10, <1>11,
     <1>12, <1>13, <1>14, <1>15, <1>16, <1>17, <1>18, <1>19, <1>20, <1>21,
     <1>22, <1>23, <1>24, <1>25, <1>26, <1>27, <1>28, <1>29, <1>30, <1>31,
     <1>32, <1>33, <1>34, <1>35, <1>36, <1>37, <1>38, <1>39, <1>40, <1>41,
     <1>42, <1>43, <1>44, <1>45 DEF Next, Setup, Source, Destination

--------------------------------------------------------------------------
(* The limits of the policy *)

\* There are finitely many requests.
LEMMA RequestsFinite == IsFiniteSet(Requests)
BY DelegationAssumption, FS_Interval DEF Requests

\* Requests that leave the two counted sets never break a limit.
LEMMA CapsKept ==
    ASSUME CapsHold,
           {p \in Requests : proposal[p] = "waiting_human"}'
             \subseteq {p \in Requests : proposal[p] = "waiting_human"},
           NotStarted' \subseteq NotStarted
    PROVE  CapsHold'
<1> USE DelegationAssumption
<1>1. /\ IsFiniteSet({p \in Requests : proposal[p] = "waiting_human"})
      /\ IsFiniteSet(NotStarted)
  BY RequestsFinite, FS_Subset DEF NotStarted
<1>2. /\ Cardinality({p \in Requests : proposal[p] = "waiting_human"}')
           <= Cardinality({p \in Requests : proposal[p] = "waiting_human"})
      /\ Cardinality({p \in Requests : proposal[p] = "waiting_human"}') \in Nat
      /\ Cardinality({p \in Requests : proposal[p] = "waiting_human"}) \in Nat
  BY <1>1, FS_Subset, FS_CardinalityType
<1>3. /\ Cardinality(NotStarted') <= Cardinality(NotStarted)
      /\ Cardinality(NotStarted') \in Nat /\ Cardinality(NotStarted) \in Nat
  BY <1>1, FS_Subset, FS_CardinalityType
<1>4. QED BY <1>2, <1>3 DEF CapsHold

\* A proposal is put before a human, and work accepted, below the limits.
LEMMA CapsStep ==
    ASSUME TypeOK, ChainInv, CapsHold, [Next]_vars PROVE CapsHold'
<1> USE DelegationAssumption DEF TypeOK, SourceTypeOK, DestinationTypeOK,
    source, destination, exchange, world, setup
<1>1. CASE Setup
  BY <1>1, SetupFrame DEF CapsHold, NotStarted
<1>2. CASE Source
  BY <1>2, SourceFrame DEF CapsHold, NotStarted
<1>3. ASSUME NEW q \in Requests, ReceiveRequest(q) PROVE CapsHold'
  BY <1>3, CapsKept DEF ReceiveRequest, ReadInbox, Follows, DestinationIdle,
     DestinationGoto, NotStarted
<1>4. ASSUME NEW q \in Requests, SaveProposal(q) PROVE CapsHold'
  BY <1>4, CapsKept DEF SaveProposal, DestinationAt, DestinationGoto,
     NewProposal, Set, NotStarted
<1>5. ASSUME NEW q \in Requests, AdmitProposal(q) PROVE CapsHold'
  BY <1>5, CapsKept DEF AdmitProposal, DestinationAt, DestinationGoto, Evaluate,
     PolicyAllows, WithinCaps, Set, NotStarted
<1>6. ASSUME NEW q \in Requests, RequestGate(q) PROVE CapsHold'
  BY <1>6, CapsKept DEF RequestGate, DestinationAt, DestinationGoto, Set,
     NotStarted
<1>7. ASSUME NEW q \in Requests, SettleProposal(q) PROVE CapsHold'
  <2>1. UNCHANGED NotStarted
    BY <1>7 DEF SettleProposal, NotStarted
  <2>2. CASE dst.at = "wait"
    <3>1. Pending \in SUBSET Requests BY DEF Pending
    <3>2. {p \in Requests : proposal[p] = "waiting_human"}' \in SUBSET Pending
      BY <1>7, <2>2 DEF SettleProposal, DestinationAt, Set, Verdict, Pending, ChainInv
    <3>3. IsFiniteSet(Pending) /\ Cardinality(Pending) \in Nat
      BY <3>1, RequestsFinite, FS_Subset, FS_CardinalityType
    <3>4. /\ Cardinality({p \in Requests : proposal[p] = "waiting_human"}') <= Cardinality(Pending)
          /\ Cardinality({p \in Requests : proposal[p] = "waiting_human"}') \in Nat
      BY <3>2, <3>3, FS_Subset, FS_CardinalityType
    <3>5. Cardinality(Pending) < MaxPending
      BY <2>2 DEF ChainInv
    <3>6. QED BY <2>1, <3>3, <3>4, <3>5 DEF CapsHold
  <2>3. CASE dst.at # "wait"
    <3>1. {p \in Requests : proposal[p] = "waiting_human"}'
             \subseteq {p \in Requests : proposal[p] = "waiting_human"}
      BY <1>7, <2>3 DEF SettleProposal, DestinationAt, Set, Verdict
    <3>2. QED BY <2>1, <3>1, CapsKept
  <2>4. QED BY <2>2, <2>3
<1>8. ASSUME NEW q \in Requests, RevalidateProposal(q) PROVE CapsHold'
  BY <1>8, CapsKept DEF RevalidateProposal, DestinationIdle, DestinationDone,
     DestinationGoto, Evaluate, PolicyAllows, WithinCaps, Set, NotStarted
<1>9. ASSUME NEW q \in Requests, ExpireGate(q) PROVE CapsHold'
  BY <1>9, CapsKept DEF ExpireGate, DestinationAt, DestinationGoto, Set,
     NotStarted
<1>10. ASSUME NEW q \in Requests, ApproveGate(q) PROVE CapsHold'
  BY <1>10, CapsKept DEF ApproveGate, DestinationAt, DestinationGoto, Set,
     NotStarted
<1>11. ASSUME NEW q \in Requests, CreateWork(q) PROVE CapsHold'
  BY <1>11, CapsKept DEF CreateWork, DestinationAt, DestinationGoto, Set,
     NotStarted
<1>12. ASSUME NEW q \in Requests, BindWork(q) PROVE CapsHold'
  <2>1. UNCHANGED {p \in Requests : proposal[p] = "waiting_human"}
    BY <1>12 DEF BindWork
  <2>2. NotStarted' \in SUBSET (NotStarted \cup {q})
    BY <1>12 DEF BindWork, NewBinding, Set, NotStarted
  <2>3. IsFiniteSet(NotStarted) /\ Cardinality(NotStarted) \in Nat
    BY RequestsFinite, FS_Subset, FS_CardinalityType DEF NotStarted
  <2>4. /\ IsFiniteSet(NotStarted \cup {q})
        /\ Cardinality(NotStarted \cup {q}) \in Nat
        /\ Cardinality(NotStarted \cup {q}) <= Cardinality(NotStarted) + 1
    <3>1. /\ IsFiniteSet(NotStarted \cup {q})
          /\ Cardinality(NotStarted \cup {q})
               = IF q \in NotStarted THEN Cardinality(NotStarted)
                                     ELSE Cardinality(NotStarted) + 1
      BY <2>3, FS_AddElement
    <3>2. QED BY <2>3, <3>1
  <2>5. /\ Cardinality(NotStarted') <= Cardinality(NotStarted \cup {q})
        /\ Cardinality(NotStarted') \in Nat
    BY <2>2, <2>4, FS_Subset, FS_CardinalityType
  <2>6. Cardinality(NotStarted) < MaxNotStarted
    BY <1>12 DEF BindWork, DestinationAt, ChainInv
  <2>7. Cardinality(NotStarted') <= MaxNotStarted
    BY <2>3, <2>4, <2>5, <2>6
  <2>8. QED BY <2>1, <2>7 DEF CapsHold
<1>13. ASSUME NEW q \in Requests, RejectProposal(q) PROVE CapsHold'
  BY <1>13, CapsKept DEF RejectProposal, DestinationIdle, DestinationGoto,
     Decidable, Set, NotStarted
<1>14. ASSUME NEW q \in Requests, ReceiveCancellation(q) PROVE CapsHold'
  BY <1>14, CapsKept DEF ReceiveCancellation, DestinationIdle, ReadCancellations,
     Set, NotStarted
<1>15. ASSUME NEW q \in Requests, RefuseCancellation(q) PROVE CapsHold'
  BY <1>15, CapsKept DEF RefuseCancellation, DestinationIdle, Set, NotStarted
<1>16. ASSUME NEW q \in Requests, AcceptCancellation(q) PROVE CapsHold'
  BY <1>16, CapsKept DEF AcceptCancellation, DestinationIdle, DestinationGoto,
     Pending, Set, NotStarted
<1>17. ASSUME NEW q \in Requests, SettleCancellation(q) PROVE CapsHold'
  BY <1>17, CapsKept DEF SettleCancellation, DestinationAt, DestinationDone,
     DestinationGoto, Set, NotStarted
<1>18. ASSUME NEW q \in Requests, AdvanceWork(q) PROVE CapsHold'
  BY <1>18, CapsKept DEF AdvanceWork, DestinationIdle, WorkGoes, OnlyWork, Set,
     NotStarted
<1>19. ASSUME NEW q \in Requests, SubmitWork(q) PROVE CapsHold'
  BY <1>19, CapsKept DEF SubmitWork, WorkGoes, OnlyWork, Set, NotStarted
<1>20. ASSUME NEW q \in Requests, ObserveResult(q) PROVE CapsHold'
  BY <1>20, CapsKept DEF ObserveResult, DestinationIdle, DestinationGoto,
     WorkGoes, OnlyWork, Set, NotStarted
<1>21. ASSUME NEW q \in Requests, ApproveAgain(q) PROVE CapsHold'
  BY <1>21, CapsKept DEF ApproveAgain, DestinationIdle, DestinationGoto,
     Publishes, NotStarted
<1>22. ASSUME NEW q \in Requests, PublishReceipt(q) PROVE CapsHold'
  BY <1>22, CapsKept DEF PublishReceipt, DestinationAt, DestinationDone,
     DestinationGoto, Set, NotStarted
<1>23. ASSUME NEW q \in Requests, NEW r \in Revisions, DeliverReceipt(q, r)
       PROVE CapsHold'
  BY <1>23, CapsKept DEF DeliverReceipt, AppendReceipt, NotStarted
<1>24. CASE CrashDestination
  BY <1>24, CapsKept DEF CrashDestination, DestinationDone, DestinationGoto,
     NotStarted
<1>25. CASE UNCHANGED vars
  BY <1>25 DEF vars, CapsHold, NotStarted
<1>26. QED
  BY <1>1, <1>2, <1>3, <1>4, <1>5, <1>6, <1>7, <1>8, <1>9, <1>10, <1>11,
     <1>12, <1>13, <1>14, <1>15, <1>16, <1>17, <1>18, <1>19, <1>20, <1>21,
     <1>22, <1>23, <1>24, <1>25 DEF Next, Setup, Source, Destination

--------------------------------------------------------------------------
(* The invariants of delegation *)

\* DelegationInv is inductive: it holds of every reachable state.
THEOREM DelegationInvariant == Spec => []DelegationInv
<1>1. Init => DelegationInv
  <2> SUFFICES ASSUME Init PROVE DelegationInv
    OBVIOUS
  <2> USE DelegationAssumption DEF Init, Idle
  <2>1. SourceTypeOK BY DEF SourceTypeOK, AttemptState, SourceAt
  <2>2. DestinationTypeOK
    BY DEF DestinationTypeOK, ProposalState, WorkState, DestinationStep
  <2>3. InboxInv BY DEF InboxInv, InboundIsPrefix, RemoteWorkIsAuthorized
  <2>4. ChainInv /\ AttemptInv BY DEF ChainInv, AttemptInv, Delegated
  <2>5. WorkInv BY DEF WorkInv, EffectsAreReviewed
  <2>6. ReceiptInv BY DEF ReceiptInv
  <2>7. ConsumptionInv BY DEF ConsumptionInv, ConsumedOnce
  <2>8. CapsHold
    <3>1. /\ {q \in Requests : proposal[q] = "waiting_human"} = {}
          /\ NotStarted = {}
      BY DEF NotStarted
    <3>2. /\ Cardinality({q \in Requests : proposal[q] = "waiting_human"}) = 0
          /\ Cardinality(NotStarted) = 0
      BY <3>1, FS_EmptySet
    <3>3. QED BY <3>2 DEF CapsHold
  <2>9. QED
    BY <2>1, <2>2, <2>3, <2>4, <2>5, <2>6, <2>7, <2>8 DEF DelegationInv, TypeOK
<1>2. DelegationInv /\ [Next]_vars => DelegationInv'
  <2> SUFFICES ASSUME DelegationInv, [Next]_vars PROVE DelegationInv'
    OBVIOUS
  <2>0. /\ SourceTypeOK /\ DestinationTypeOK /\ TypeOK /\ InboxInv /\ ChainInv /\ WorkInv
        /\ ReceiptInv /\ AttemptInv /\ ConsumptionInv /\ CapsHold
    BY DEF DelegationInv, TypeOK
  <2>1. SourceTypeOK' BY <2>0, SourceTypeStep
  <2>2. DestinationTypeOK' BY <2>0, DestinationTypeStep
  <2>3. crashes' \in Nat BY <2>0, CrashesStep
  <2>4. InboxInv' BY <2>0, InboxStep
  <2>5. ChainInv' BY <2>0, ChainStep
  <2>6. WorkInv' BY <2>0, WorkStep
  <2>7. ReceiptInv' BY <2>0, ReceiptStep
  <2>8. AttemptInv' BY <2>0, AttemptStep
  <2>9. ConsumptionInv' BY <2>0, ConsumptionStep
  <2>10. CapsHold' BY <2>0, CapsStep
  <2>11. QED
    BY <2>1, <2>2, <2>3, <2>4, <2>5, <2>6, <2>7, <2>8, <2>9, <2>10
    DEF DelegationInv, TypeOK
<1>3. QED BY <1>1, <1>2, PTL DEF Spec

\* Every record of both instances stays in its range.
THEOREM DelegationTypesHold == Spec => []TypeOK
<1>1. DelegationInv => TypeOK
  BY DEF DelegationInv
<1>2. QED BY <1>1, DelegationInvariant, PTL

\* Whatever the exchange delays, repeats or loses, the destination holds a
\* prefix of what the source asked.
THEOREM InboundIsPrefixHolds == Spec => []InboundIsPrefix
<1>1. DelegationInv => InboundIsPrefix
  BY DEF DelegationInv, InboxInv
<1>2. QED BY <1>1, DelegationInvariant, PTL

\* No local work without a request, a policy and a human approval.
THEOREM RemoteWorkIsAuthorizedHolds == Spec => []RemoteWorkIsAuthorized
<1>1. DelegationInv => RemoteWorkIsAuthorized
  BY DEF DelegationInv, InboxInv
<1>2. QED BY <1>1, DelegationInvariant, PTL

\* Delegated work takes effect once, and once more only after a review.
THEOREM EffectsAreReviewedHolds == Spec => []EffectsAreReviewed
<1>1. DelegationInv => EffectsAreReviewed
  BY DEF DelegationInv, WorkInv
<1>2. QED BY <1>1, DelegationInvariant, PTL

\* Waiting requests and accepted work stay within the limits of the policy.
THEOREM CapsHoldAlways == Spec => []CapsHold
<1>1. DelegationInv => CapsHold
  BY DEF DelegationInv
<1>2. QED BY <1>1, DelegationInvariant, PTL

\* The source executes a step it delegated only after a human retried it.
THEOREM DelegatedStepStaysRemoteHolds == Spec => []DelegatedStepStaysRemote
<1>1. DelegationInv => DelegatedStepStaysRemote
  BY DEF DelegationInv, TypeOK, SourceTypeOK, AttemptInv, DelegatedStepStaysRemote
<1>2. QED BY <1>1, DelegationInvariant, PTL

\* Of all receipts of a request for a step, at most one is ever consumed.
THEOREM ConsumedOnceHolds == Spec => []ConsumedOnce
<1>1. DelegationInv => ConsumedOnce
  BY DEF DelegationInv, ConsumptionInv
<1>2. QED BY <1>1, DelegationInvariant, PTL

--------------------------------------------------------------------------
(* The promise *)

\* Every step is a step of the promise, or one nobody promised anything about.
LEMMA PromiseStep ==
    ASSUME TypeOK, InboxInv, ChainInv, WorkInv, AttemptInv, ConsumptionInv, [Next]_vars
    PROVE Promise!Next \/ UNCHANGED Promise!vars
<1> USE DelegationAssumption DEF TypeOK, SourceTypeOK, DestinationTypeOK,
    AttemptState, source, destination, exchange, world, setup
<1>1. CASE Setup
  BY <1>1, SetupFrame DEF Promise!vars
<1>2. ASSUME NEW q \in Requests, NEW s \in Steps \cup {NoStep}, CreateRequest(q, s)
      PROVE Promise!Next \/ UNCHANGED Promise!vars
  <2>1. Promise!Ask(q)
    BY <1>2 DEF CreateRequest, IsNextSequence, NewRequest, Set, Promise!Ask
  <2>2. QED BY <2>1 DEF Promise!Next
<1>3. ASSUME NEW q \in Requests, PushRequest(q)
      PROVE Promise!Next \/ UNCHANGED Promise!vars
  BY <1>3 DEF PushRequest, AppendRequest, Promise!vars
<1>4. ASSUME NEW q \in Requests, ProposeCancellation(q)
      PROVE Promise!Next \/ UNCHANGED Promise!vars
  BY <1>4 DEF ProposeCancellation, AppendCancellation, Promise!vars
<1>5. ASSUME NEW q \in Requests, EnsureAttempt(q)
      PROVE Promise!Next \/ UNCHANGED Promise!vars
  BY <1>5 DEF EnsureAttempt, Set, Promise!vars
<1>6. ASSUME NEW q \in Requests, NEW r \in Revisions, PullReceipt(q, r)
      PROVE Promise!Next \/ UNCHANGED Promise!vars
  BY <1>6 DEF PullReceipt, SourceIdle, ReadReceipts, Idle, Promise!vars
<1>7. ASSUME NEW q \in Requests, NEW r \in Revisions, ConsumeUnbound(q, r)
      PROVE Promise!Next \/ UNCHANGED Promise!vars
  BY <1>7 DEF ConsumeUnbound, SourceIdle, Consumable, Idle, Promise!vars
<1>8. ASSUME NEW q \in Requests, NEW r \in Revisions, ConsumeBound(q, r)
      PROVE Promise!Next \/ UNCHANGED Promise!vars
  BY <1>8 DEF ConsumeBound, SourceIdle, Consumable, Idle, Promise!vars
<1>9. ASSUME NEW s \in Steps, BlockAttempt(s)
      PROVE Promise!Next \/ UNCHANGED Promise!vars
  BY <1>9 DEF BlockAttempt, Set, Promise!vars
<1>10. ASSUME NEW s \in Steps, ScheduleStep(s)
       PROVE Promise!Next \/ UNCHANGED Promise!vars
  BY <1>10 DEF ScheduleStep, Set, Promise!vars
<1>11. ASSUME NEW s \in Steps, LocalSubmit(s)
       PROVE Promise!Next \/ UNCHANGED Promise!vars
  BY <1>11 DEF LocalSubmit, Promise!vars
<1>12. ASSUME NEW s \in Steps, RetryStep(s) PROVE Promise!Next \/ UNCHANGED Promise!vars
  BY <1>12 DEF RetryStep, SourceIdle, Idle, Set, Promise!vars
<1>13. CASE BindStep
  BY <1>13 DEF BindStep, Idle, Promise!vars
<1>14. CASE StartMission
  BY <1>14 DEF StartMission, SourceIdle, Idle, Promise!vars
<1>15. CASE ResumeMission
  BY <1>15 DEF ResumeMission, SourceIdle, Idle, Promise!vars
<1>16. CASE Ensured
  BY <1>16 DEF Ensured, Promise!vars
<1>17. CASE EndEvaluation
  BY <1>17 DEF EndEvaluation, Idle, Promise!vars
<1>18. CASE ReleaseAttempt
  BY <1>18 DEF ReleaseAttempt, Idle, Set, Promise!vars
<1>19. CASE ActivateAttempt
  <2>1. PICK s \in Steps : s = asks[src.req]
    BY <1>19 DEF ActivateAttempt, ConsumptionInv, AttemptInv
  <2>2. attempt[s] = "released" /\ attempt' = [attempt EXCEPT ![s] = "active"]
    BY <1>19, <2>1 DEF ActivateAttempt, Set, ConsumptionInv
  <2>3. {t \in Steps : attempt[t] = "completed"}' = {t \in Steps : attempt[t] = "completed"}
    BY <2>2
  <2>4. QED BY <1>19, <2>3 DEF ActivateAttempt, Promise!vars
<1>20. CASE CompleteAttempt
  <2>1. PICK q \in Requests : q = src.req /\ q \in bound /\ effects[q] > 0
    BY <1>20 DEF CompleteAttempt, ConsumptionInv, Requests
  <2>2. PICK s \in Steps : s = asks[q]
    BY <2>1 DEF AttemptInv
  <2>3. attempt[s] = "active" /\ attempt' = [attempt EXCEPT ![s] = "completed"]
    BY <1>20, <2>1, <2>2 DEF CompleteAttempt, Set, ConsumptionInv
  <2>4. {t \in Steps : attempt[t] = "completed"}'
           = {t \in Steps : attempt[t] = "completed"} \cup {s}
    BY <2>3
  <2>5. UNCHANGED <<asks, gate, effects>>
    BY <1>20 DEF CompleteAttempt
  <2>6. Promise!Release(s)
    BY <2>1, <2>2, <2>3, <2>4, <2>5 DEF Promise!Release
  <2>7. QED BY <2>6 DEF Promise!Next
<1>21. CASE RecordConsumption
  BY <1>21 DEF RecordConsumption, Idle, Promise!vars
<1>22. CASE CrashSource
  BY <1>22 DEF CrashSource, Idle, Promise!vars
<1>23. ASSUME NEW q \in Requests, ReceiveRequest(q)
       PROVE Promise!Next \/ UNCHANGED Promise!vars
  BY <1>23 DEF ReceiveRequest, ReadInbox, Follows, DestinationIdle,
     DestinationGoto, Promise!vars
<1>24. ASSUME NEW q \in Requests, SaveProposal(q)
       PROVE Promise!Next \/ UNCHANGED Promise!vars
  BY <1>24 DEF SaveProposal, DestinationAt, DestinationGoto, NewProposal, Set,
     Promise!vars
<1>25. ASSUME NEW q \in Requests, AdmitProposal(q)
       PROVE Promise!Next \/ UNCHANGED Promise!vars
  BY <1>25 DEF AdmitProposal, DestinationAt, DestinationGoto, Evaluate,
     PolicyAllows, WithinCaps, Set, Promise!vars
<1>26. ASSUME NEW q \in Requests, RequestGate(q)
       PROVE Promise!Next \/ UNCHANGED Promise!vars
  BY <1>26 DEF RequestGate, DestinationAt, DestinationGoto, Set, GateDecision,
     ChainInv, Promise!vars
<1>27. ASSUME NEW q \in Requests, SettleProposal(q)
       PROVE Promise!Next \/ UNCHANGED Promise!vars
  BY <1>27 DEF SettleProposal, DestinationAt, DestinationDone, DestinationGoto,
     Verdict, Set, Promise!vars
<1>28. ASSUME NEW q \in Requests, RevalidateProposal(q)
       PROVE Promise!Next \/ UNCHANGED Promise!vars
  BY <1>28 DEF RevalidateProposal, DestinationIdle, DestinationDone,
     DestinationGoto, Evaluate, PolicyAllows, WithinCaps, Set, Promise!vars
<1>29. ASSUME NEW q \in Requests, ExpireGate(q)
       PROVE Promise!Next \/ UNCHANGED Promise!vars
  BY <1>29 DEF ExpireGate, DestinationAt, DestinationGoto, Set, GateDecision,
     ChainInv, Promise!vars
<1>30. ASSUME NEW q \in Requests, ApproveGate(q)
       PROVE Promise!Next \/ UNCHANGED Promise!vars
  <2>1. Promise!Decide(q)
    <3>1. gate[q] = "requested" /\ asks[q] # NotAsked
      BY <1>30 DEF ApproveGate, DestinationAt, ChainInv, InboxInv, InboundIsPrefix
    <3>2. QED BY <1>30, <3>1 DEF ApproveGate, Set, GateDecision, Promise!Decide
  <2>2. QED BY <2>1 DEF Promise!Next
<1>31. ASSUME NEW q \in Requests, CreateWork(q)
       PROVE Promise!Next \/ UNCHANGED Promise!vars
  BY <1>31 DEF CreateWork, DestinationAt, DestinationGoto, Set, Promise!vars
<1>32. ASSUME NEW q \in Requests, BindWork(q)
       PROVE Promise!Next \/ UNCHANGED Promise!vars
  BY <1>32 DEF BindWork, DestinationAt, DestinationGoto, NewBinding, Set,
     Promise!vars
<1>33. ASSUME NEW q \in Requests, RejectProposal(q)
       PROVE Promise!Next \/ UNCHANGED Promise!vars
  <2>1. Promise!Decide(q)
    <3>1. gate[q] = "requested" /\ asks[q] # NotAsked
      BY <1>33 DEF RejectProposal, InboxInv, InboundIsPrefix
    <3>2. QED BY <1>33, <3>1 DEF RejectProposal, Set, GateDecision, Promise!Decide
  <2>2. QED BY <2>1 DEF Promise!Next
<1>34. ASSUME NEW q \in Requests, ReceiveCancellation(q)
       PROVE Promise!Next \/ UNCHANGED Promise!vars
  BY <1>34 DEF ReceiveCancellation, DestinationIdle, ReadCancellations, Set,
     Promise!vars
<1>35. ASSUME NEW q \in Requests, RefuseCancellation(q)
       PROVE Promise!Next \/ UNCHANGED Promise!vars
  BY <1>35 DEF RefuseCancellation, DestinationIdle, Set, Promise!vars
<1>36. ASSUME NEW q \in Requests, AcceptCancellation(q)
       PROVE Promise!Next \/ UNCHANGED Promise!vars
  BY <1>36 DEF AcceptCancellation, DestinationIdle, DestinationGoto, Pending, Set,
     Promise!vars
<1>37. ASSUME NEW q \in Requests, SettleCancellation(q)
       PROVE Promise!Next \/ UNCHANGED Promise!vars
  BY <1>37 DEF SettleCancellation, DestinationAt, DestinationDone,
     DestinationGoto, Set, Promise!vars
<1>38. ASSUME NEW q \in Requests, AdvanceWork(q)
       PROVE Promise!Next \/ UNCHANGED Promise!vars
  BY <1>38 DEF AdvanceWork, DestinationIdle, WorkGoes, OnlyWork, Set, Promise!vars
<1>39. ASSUME NEW q \in Requests, SubmitWork(q)
       PROVE Promise!Next \/ UNCHANGED Promise!vars
  <2>1. UNCHANGED <<asks, gate, attempt>> /\ effects' = [effects EXCEPT ![q] = effects[q] + 1]
    BY <1>39 DEF SubmitWork, OnlyWork, Set
  <2>2. CASE effects[q] = 0
    <3>1. gate[q] = "approved"
      BY <1>39 DEF SubmitWork, WorkGoes, InboxInv, RemoteWorkIsAuthorized
    <3>2. {p \in Requests : effects[p] > 0}' = {p \in Requests : effects[p] > 0} \cup {q}
      BY <2>1, <2>2
    <3>3. Promise!Perform(q)
      BY <2>1, <2>2, <3>1, <3>2 DEF GateDecision, Promise!Perform
    <3>4. QED BY <3>3 DEF Promise!Next
  <2>3. CASE effects[q] # 0
    <3>1. {p \in Requests : effects[p] > 0}' = {p \in Requests : effects[p] > 0}
      BY <2>1, <2>3
    <3>2. QED BY <2>1, <3>1 DEF Promise!vars
  <2>4. QED BY <2>2, <2>3
<1>40. ASSUME NEW q \in Requests, ObserveResult(q)
       PROVE Promise!Next \/ UNCHANGED Promise!vars
  BY <1>40 DEF ObserveResult, DestinationIdle, DestinationGoto, WorkGoes,
     OnlyWork, Set, Promise!vars
<1>41. ASSUME NEW q \in Requests, ApproveAgain(q)
       PROVE Promise!Next \/ UNCHANGED Promise!vars
  BY <1>41 DEF ApproveAgain, DestinationIdle, DestinationGoto, Publishes,
     Promise!vars
<1>42. ASSUME NEW q \in Requests, PublishReceipt(q)
       PROVE Promise!Next \/ UNCHANGED Promise!vars
  BY <1>42 DEF PublishReceipt, DestinationAt, DestinationDone, DestinationGoto,
     Set, Promise!vars
<1>43. ASSUME NEW q \in Requests, NEW r \in Revisions, DeliverReceipt(q, r)
       PROVE Promise!Next \/ UNCHANGED Promise!vars
  BY <1>43 DEF DeliverReceipt, AppendReceipt, Promise!vars
<1>44. CASE CrashDestination
  BY <1>44 DEF CrashDestination, DestinationDone, DestinationGoto, Promise!vars
<1>45. CASE UNCHANGED vars
  BY <1>45 DEF vars, Promise!vars
<1>46. QED
  BY <1>1, <1>2, <1>3, <1>4, <1>5, <1>6, <1>7, <1>8, <1>9, <1>10, <1>11,
     <1>12, <1>13, <1>14, <1>15, <1>16, <1>17, <1>18, <1>19, <1>20, <1>21,
     <1>22, <1>23, <1>24, <1>25, <1>26, <1>27, <1>28, <1>29, <1>30, <1>31,
     <1>32, <1>33, <1>34, <1>35, <1>36, <1>37, <1>38, <1>39, <1>40, <1>41,
     <1>42, <1>43, <1>44, <1>45 DEF Next, Setup, Source, Destination

\* Two instances that crash and an exchange that loses, repeats and delays
\* messages refine the promise.
THEOREM DelegationRefinesPromise == Spec => PromiseKept
<1>1. Init => Promise!Init
  BY DEF Init, GateDecision, Promise!Init
<1>2. DelegationInv /\ [Next]_vars => [Promise!Next]_(Promise!vars)
  <2> SUFFICES ASSUME DelegationInv, [Next]_vars
               PROVE Promise!Next \/ UNCHANGED Promise!vars
    OBVIOUS
  <2>1. /\ TypeOK /\ InboxInv /\ ChainInv /\ WorkInv /\ AttemptInv /\ ConsumptionInv
    BY DEF DelegationInv
  <2>2. QED BY <2>1, PromiseStep
<1>3. QED BY <1>1, <1>2, DelegationInvariant, PTL DEF Spec, PromiseKept, Promise!Spec

---------------------------------------------------------------------------
(* What the promise says of the source's attempts *)

\* A step the source calls complete was done at the destination, by work that was
\* asked for this step and that the destination's human had accepted.
ReleasedWorkWasDone ==
    /\ \A q \in Requests : effects[q] > 0 => gate[q] = "approved"
    /\ \A s \in Steps : attempt[s] = "completed" =>
          \E q \in Requests : asks[q] = s /\ effects[q] > 0

\* The same with what the promise has to remember: only what was asked is decided.
DecidedAsAsked ==
    /\ asks \in [Requests -> Steps \cup {NoStep, NotAsked}]
    /\ \A q \in Requests : asks[q] = NotAsked => GateDecision(gate[q]) = "none"
    /\ \A q \in Requests : effects[q] > 0 => GateDecision(gate[q]) = "accepted"
    /\ \A s \in Steps : attempt[s] = "completed" =>
          \E q \in Requests : asks[q] = s /\ effects[q] > 0

\* The promise alone is enough for that: no step of DelegationPromise breaks it.
LEMMA PromiseReleasesDoneWork == Promise!Spec => []DecidedAsAsked
<1> DEFINE decided(q) == GateDecision(gate[q])
           performed == {q \in Requests : effects[q] > 0}
           released == {s \in Steps : attempt[s] = "completed"}
<1>1. Promise!Init => DecidedAsAsked
  <2> SUFFICES ASSUME Promise!Init PROVE DecidedAsAsked
    OBVIOUS
  <2>1. /\ asks = [q \in Requests |-> NotAsked] /\ performed = {} /\ released = {}
        /\ [q \in Requests |-> decided(q)] = [q \in Requests |-> "none"]
    BY DEF Promise!Init
  <2>2. \A q \in Requests : decided(q) = "none"
    <3> HIDE DEF decided
    <3> TAKE q \in Requests
    <3>1. [p \in Requests |-> decided(p)][q] = [p \in Requests |-> "none"][q]
      BY <2>1
    <3>2. QED BY <3>1
  <2>3. QED BY <2>1, <2>2 DEF DecidedAsAsked
<1>2. DecidedAsAsked /\ [Promise!Next]_(Promise!vars) => DecidedAsAsked'
  <2> SUFFICES ASSUME DecidedAsAsked, [Promise!Next]_(Promise!vars) PROVE DecidedAsAsked'
    OBVIOUS
  <2>0. ASSUME [q \in Requests |-> decided(q)]' = [q \in Requests |-> decided(q)]
        PROVE  \A q \in Requests : decided(q)' = decided(q)
    <3> TAKE q \in Requests
    <3>1. [p \in Requests |-> decided(p)'][q] = [p \in Requests |-> decided(p)][q]
      BY <2>0
    <3> HIDE DEF decided
    <3>2. QED BY <3>1
  <2>1. ASSUME NEW q \in Requests, Promise!Ask(q) PROVE DecidedAsAsked'
    <3>1. PICK s \in Steps \cup {NoStep} : asks' = [asks EXCEPT ![q] = s]
      BY <2>1 DEF Promise!Ask
    <3>2. /\ asks[q] = NotAsked /\ performed' = performed /\ released' = released
          /\ \A p \in Requests : decided(p)' = decided(p)
      BY <2>0, <2>1 DEF Promise!Ask
    <3>3. /\ \A p \in Requests : (effects[p] > 0)' <=> effects[p] > 0
          /\ \A t \in Steps : (attempt[t] = "completed")' <=> attempt[t] = "completed"
      BY <3>2
    <3>4. \A p \in Requests : effects[p] > 0 => p # q
      BY <3>2 DEF DecidedAsAsked
    <3>5. QED BY <3>1, <3>2, <3>3, <3>4 DEF DecidedAsAsked
  <2>2. ASSUME NEW q \in Requests, Promise!Decide(q) PROVE DecidedAsAsked'
    <3>1. PICK d \in {"accepted", "rejected"} :
             [p \in Requests |-> decided(p)]' = [[p \in Requests |-> decided(p)] EXCEPT ![q] = d]
      BY <2>2 DEF Promise!Decide
    <3>2. /\ asks[q] # NotAsked /\ [p \in Requests |-> decided(p)][q] = "none"
          /\ asks' = asks /\ performed' = performed /\ released' = released
      BY <2>2 DEF Promise!Decide
    <3>3. /\ \A p \in Requests : (effects[p] > 0)' <=> effects[p] > 0
          /\ \A t \in Steps : (attempt[t] = "completed")' <=> attempt[t] = "completed"
      BY <3>2
    <3>4. decided(q) = "none" /\ \A p \in Requests : p # q => decided(p)' = decided(p)
      <4>1. \A p \in Requests : [r \in Requests |-> decided(r)'][p]
               = [[r \in Requests |-> decided(r)] EXCEPT ![q] = d][p]
        BY <3>1
      <4> HIDE DEF decided
      <4>2. QED BY <3>2, <4>1
    <3>5. \A p \in Requests : effects[p] > 0 => p # q
      BY <3>4 DEF DecidedAsAsked
    <3>6. QED BY <3>2, <3>3, <3>4, <3>5 DEF DecidedAsAsked
  <2>3. ASSUME NEW q \in Requests, Promise!Perform(q) PROVE DecidedAsAsked'
    <3>1. /\ asks' = asks /\ performed' = performed \cup {q} /\ released' = released
          /\ \A p \in Requests : decided(p)' = decided(p)
      BY <2>0, <2>3 DEF Promise!Perform
    <3>2. decided(q) = "accepted"
      BY <2>3 DEF Promise!Perform
    <3>3. /\ \A p \in Requests : (effects[p] > 0)' <=> effects[p] > 0 \/ p = q
          /\ \A t \in Steps : (attempt[t] = "completed")' <=> attempt[t] = "completed"
      BY <3>1
    <3>4. QED BY <3>1, <3>2, <3>3 DEF DecidedAsAsked
  <2>4. ASSUME NEW s \in Steps, Promise!Release(s) PROVE DecidedAsAsked'
    <3>1. /\ asks' = asks /\ performed' = performed /\ released' = released \cup {s}
          /\ \A p \in Requests : decided(p)' = decided(p)
          /\ \E q \in performed : asks[q] = s
      BY <2>0, <2>4 DEF Promise!Release
    <3>2. /\ \A p \in Requests : (effects[p] > 0)' <=> effects[p] > 0
          /\ \A t \in Steps : (attempt[t] = "completed")' <=> attempt[t] = "completed" \/ t = s
      BY <3>1
    <3>3. QED BY <3>1, <3>2 DEF DecidedAsAsked
  <2>5. CASE UNCHANGED Promise!vars
    <3>1. /\ asks' = asks /\ performed' = performed /\ released' = released
          /\ \A p \in Requests : decided(p)' = decided(p)
      BY <2>0, <2>5 DEF Promise!vars
    <3>2. /\ \A p \in Requests : (effects[p] > 0)' <=> effects[p] > 0
          /\ \A t \in Steps : (attempt[t] = "completed")' <=> attempt[t] = "completed"
      BY <3>1
    <3>3. QED BY <3>1, <3>2 DEF DecidedAsAsked
  <2>6. QED BY <2>1, <2>2, <2>3, <2>4, <2>5 DEF Promise!Next
<1>3. QED BY <1>1, <1>2, PTL DEF Promise!Spec

\* A delegated step is complete only with work its own request asked for, done after
\* the destination's human approved it, whatever crashed or was lost on the way.
THEOREM ReleasedWorkWasDoneHolds == Spec => []ReleasedWorkWasDone
<1>1. DecidedAsAsked => ReleasedWorkWasDone
  BY DEF DecidedAsAsked, ReleasedWorkWasDone, GateDecision
<1>2. QED BY <1>1, DelegationRefinesPromise, PromiseReleasesDoneWork, PTL DEF PromiseKept

==========================================================================
