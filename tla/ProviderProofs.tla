--------------------------- MODULE ProviderProofs ---------------------------
(***************************************************************************)
(* Proofs about the provider runtime.  The first half is about one call    *)
(* (ProviderCall), for any length of time, any skew and any number of      *)
(* times the clock is set back; the second about attempts, claims and      *)
(* grants (ProviderExecution), for any attempts, calls, processes and      *)
(* number of crashes.  Each half has its inductive invariant and the       *)
(* safety properties that follow from it.                                  *)
(***************************************************************************)
EXTENDS ProviderProperties, ProviderCall, TLAPS

-----------------------------------------------------------------------------
(* Authorization *)

\* The instant up to which an authorization holds is no later than the expiry
\* of any authority that counts.
LEMMA ValidUntilIsFirst ==
    ASSUME NEW r \in Requests, NEW a \in Counted(r)
    PROVE  ValidUntil(r) \in Int /\ ValidUntil(r) <= r.expires[a]
<1> USE CallAssumption
<1>1. /\ \A b \in Authorities : r.expires[b] \in Int
      /\ "authorityGrant" \in Counted(r)
      /\ Counted(r) \subseteq Authorities
      /\ \A b \in Authorities : b = "authorityGrant" \/ b = "delegation"
  BY DEF Requests, Counted, Authorities, Never
<1>2. \E b \in Counted(r) : \A d \in Counted(r) : r.expires[b] <= r.expires[d]
  <2>1. CASE r.expires["authorityGrant"] <= r.expires["delegation"] \/ "delegation" \notin Counted(r)
    BY <1>1, <2>1 DEF Authorities
  <2>2. CASE ~(r.expires["authorityGrant"] <= r.expires["delegation"]) /\ "delegation" \in Counted(r)
    BY <1>1, <2>2 DEF Authorities
  <2>3. QED BY <2>1, <2>2
<1>3. \E t \in {r.expires[b] : b \in Counted(r)} : \A d \in Counted(r) : t <= r.expires[d]
  BY <1>2
<1>4. /\ ValidUntil(r) \in {r.expires[b] : b \in Counted(r)}
      /\ \A d \in Counted(r) : ValidUntil(r) <= r.expires[d]
  BY <1>3 DEF ValidUntil
<1>5. QED BY <1>1, <1>4

\* An authorization is "allow" only when nothing denies it, nothing is left to
\* review and nothing is unclear (resolveExecutionAuthorization).
LEMMA AllowIsClear ==
    ASSUME NEW r, Decision(r) = "allow" PROVE ~Denied(r) /\ ~NeedsReview(r) /\ ~Unclear(r)
BY DEF Decision

\* What BeginAttempt has checked is what EffectWasAllowed asks for.
LEMMA AllowedIsEnough == ASSUME Allowed, at \in Int, entered PROVE EffectWasAllowed
<1> USE CallAssumption
<1>1. /\ request \in Requests /\ plan.selection = "listed"
      /\ request.exact /\ (request.gateRequired <=> plan.gate # "never")
      /\ Apart(at, request.observed) <= Skew
      /\ at < ValidUntil(request)
      /\ ~Denied(request) /\ ~NeedsReview(request) /\ ~Unclear(request)
  BY AllowIsClear DEF Allowed, Authorizes, Binds
<1>2. plan.gate # "never" => request.gate = "approved"
  BY <1>1 DEF Requests, Denied, NeedsReview
<1>3. request.capability = "met" /\ request.policy = "met"
  BY <1>1 DEF Requests, Denied, Unclear
<1>4. ASSUME NEW a \in Authorities, a = "delegation" => request.actor = "agent"
      PROVE  request.status[a] = "active" /\ request.expires[a] > at
  <2>1. a \in Counted(request)
    BY <1>4 DEF Counted, Authorities
  <2>2. request.status[a] = "active"
    BY <1>1, <2>1 DEF Requests, Denied, Unclear
  <2>3. ValidUntil(request) \in Int /\ ValidUntil(request) <= request.expires[a]
    BY <1>1, <2>1, ValidUntilIsFirst
  <2>4. request.expires[a] \in Int
    BY <1>1, <1>4 DEF Requests, Never
  <2>5. QED BY <1>1, <2>2, <2>3, <2>4
<1>5. QED BY <1>1, <1>2, <1>3, <1>4 DEF EffectWasAllowed

\* A plan that one of the two executors takes is of a model or tool that its
\* manifest lists.
LEMMA ExecutedIsListed ==
    ASSUME NEW m, NEW a, Plannable(m, a), Executes(PlanOf(m, a))
    PROVE  PlanOf(m, a).selection = "listed"
BY DEF Plannable, Executes, ModelExecutes, McpExecutes, PlanOf, ModelProtocols,
       CompilesOpenai, CompilesAnthropic, CompilesTool, ModelAllowed

-----------------------------------------------------------------------------
(* The stages of the call *)

LEMMA StageStep == ASSUME StageInv, [CallNext]_callVars PROVE StageInv'
<1> USE DEF StageInv, Before, Resolving, Sending
<1>1. CASE Compile
  BY <1>1 DEF Compile, Proceed, clocks, times, effect
<1>2. CASE Plan
  <2>1. PICK a \in Asks :
          IF Routed(plan, a, now) /\ Plannable(plan, a)
          THEN /\ plan' = PlanOf(plan, a)
               /\ Proceed("planned")
               /\ UNCHANGED <<request, times, effect, result>>
          ELSE Refuse
    BY <1>2 DEF Plan
  <2>2. CASE Routed(plan, a, now) /\ Plannable(plan, a)
    <3>1. Executes(plan') => plan'.selection = "listed"
      BY <2>1, <2>2, ExecutedIsListed
    <3>2. QED
      BY <1>2, <2>1, <2>2, <3>1 DEF Plan, Proceed, times, effect
  <2>3. CASE ~(Routed(plan, a, now) /\ Plannable(plan, a))
    BY <1>2, <2>1, <2>3 DEF Plan, Refuse, Ends, Proceed, effect
  <2>4. QED BY <2>2, <2>3
<1>3. CASE Unsupported
  BY <1>3 DEF Unsupported, Refuse, Ends, Proceed, effect
<1>4. CASE Observe
  BY <1>4 DEF Observe, Proceed, effect
<1>5. CASE BeginAttempt
  <2>1. PICK t \in {request.observed, now} :
          IF Authorizes(plan, request, t)
          THEN /\ at' = t
               /\ created' \in {t, now}
               /\ Proceed("endpoint")
               /\ UNCHANGED <<plan, request, started, effect, result>>
          ELSE Refuse
    BY <1>5 DEF BeginAttempt
  <2>2. CASE Authorizes(plan, request, t)
    BY <1>5, <2>1, <2>2 DEF BeginAttempt, Proceed, effect, Allowed
  <2>3. CASE ~Authorizes(plan, request, t)
    BY <1>5, <2>1, <2>3 DEF BeginAttempt, Refuse, Ends, Proceed, effect
  <2>4. QED BY <2>2, <2>3
<1>6. CASE ResolveModelEndpoint
  BY <1>6 DEF ResolveModelEndpoint, Throw, Proceed, Call, times, effect, Allowed
<1>7. CASE ResolveMcpEndpoint
  BY <1>7 DEF ResolveMcpEndpoint, Started, Throw, Proceed, Call, times, effect, Allowed
<1>8. CASE ResolveModelCredential
  BY <1>8 DEF ResolveModelCredential, Throw, Proceed, Call, times, effect, Allowed
<1>9. CASE ResolveMcpCredential
  BY <1>9 DEF ResolveMcpCredential, Started, Throw, Proceed, Call, times, effect, Allowed
<1>10. CASE OperationGrant
  BY <1>10 DEF OperationGrant, Started, Throw, Proceed, Call, times, effect, Allowed
<1>11. CASE ClaimRefused
  BY <1>11 DEF ClaimRefused, Throw, Proceed, Call, times, effect, Allowed
<1>12. CASE Enter
  BY <1>12 DEF Enter, Proceed, times, Allowed
<1>13. CASE TransportAnswers
  BY <1>13 DEF TransportAnswers, Proceed, times, Allowed
<1>14. CASE ReturnModel
  BY <1>14 DEF ReturnModel, Throw, Ends, Proceed, Call, times, effect, Allowed
<1>15. CASE ReturnMcp
  BY <1>15 DEF ReturnMcp, Throw, Ends, Proceed, Call, times, effect, Allowed
<1>16. CASE Catch
  BY <1>16 DEF Catch, Ends, Proceed, times, effect, Allowed
<1>17. CASE Tick \/ ClockSetBack
  BY <1>17 DEF Tick, ClockSetBack, Call, times, effect, Allowed
<1>18. CASE UNCHANGED callVars
  BY <1>18 DEF callVars, Allowed
<1>19. QED
  BY <1>1, <1>2, <1>3, <1>4, <1>5, <1>6, <1>7, <1>8, <1>9, <1>10, <1>11, <1>12, <1>13,
     <1>14, <1>15, <1>16, <1>17, <1>18 DEF CallNext

-----------------------------------------------------------------------------
(* The clock *)

LEMMA ClockStep == ASSUME StageInv, ClockInv, [CallNext]_callVars PROVE ClockInv'
<1> USE CallAssumption DEF ClockInv, Before, Resolving, Sending, Time
<1>1. CASE Compile \/ Plan \/ Unsupported
  BY <1>1 DEF StageInv, Compile, Plan, Unsupported, Refuse, Ends, Proceed, effect, clocks
<1>2. CASE Observe
  BY <1>2 DEF StageInv, Observe, Proceed, effect, clocks
<1>3. CASE BeginAttempt
  <2>1. request \in Requests
    BY <1>3 DEF StageInv, BeginAttempt
  <2>2. request.observed \in Time
    BY <2>1 DEF Requests
  <2>3. QED
    BY <1>3, <2>2 DEF StageInv, BeginAttempt, Refuse, Ends, Proceed, effect, clocks
<1>4. CASE ResolveModelEndpoint \/ ResolveMcpEndpoint
  BY <1>4 DEF ResolveModelEndpoint, ResolveMcpEndpoint, Started, Throw, Proceed, Call, times, effect, clocks
<1>5. CASE ResolveModelCredential \/ ResolveMcpCredential
  BY <1>5 DEF ResolveModelCredential, ResolveMcpCredential, Started, Throw, Proceed, Call, times,
              effect, clocks
<1>6. CASE OperationGrant \/ ClaimRefused
  BY <1>6 DEF OperationGrant, ClaimRefused, Started, Throw, Proceed, Call, times, effect, clocks
<1>7. CASE Enter \/ TransportAnswers
  BY <1>7 DEF Enter, TransportAnswers, Proceed, times, effect, clocks
<1>8. CASE ReturnModel \/ ReturnMcp
  BY <1>8 DEF ReturnModel, ReturnMcp, Throw, Ends, Proceed, Call, times, effect, clocks
<1>9. CASE Catch
  BY <1>9 DEF Catch, Ends, Proceed, times, effect, clocks
<1>10. CASE Tick
  <2>1. pc = "observed" => request.observed \in Time
    BY DEF StageInv, Requests
  <2>2. QED BY <1>10, <2>1 DEF Tick, Call, times, effect
<1>11. CASE ClockSetBack
  BY <1>11 DEF ClockSetBack, Call, times, effect
<1>12. CASE UNCHANGED callVars
  BY <1>12 DEF callVars
<1>13. QED
  BY <1>1, <1>2, <1>3, <1>4, <1>5, <1>6, <1>7, <1>8, <1>9, <1>10, <1>11, <1>12 DEF CallNext

-----------------------------------------------------------------------------
(* The outcome *)

LEMMA OutcomeStep == ASSUME StageInv, ClockInv, OutcomeInv, [CallNext]_callVars PROVE OutcomeInv'
<1> USE CallAssumption DEF OutcomeInv, ResultTellsTheEffect, Unusable, Unset
<1>1. CASE Compile \/ Plan \/ Unsupported \/ Observe \/ BeginAttempt
  <2>1. ~entered /\ pc \in Before
    BY <1>1 DEF StageInv, Before, Compile, Plan, Unsupported, Observe, BeginAttempt
  <2>2. UNCHANGED effect
    BY <1>1 DEF Compile, Plan, Unsupported, Observe, BeginAttempt, Refuse
  <2>3. \/ pc' \in {"compiled", "planned", "observed", "endpoint"} /\ result' = result
        \/ pc' = "ended" /\ result' = "refused"
    BY <1>1 DEF Compile, Plan, Unsupported, Observe, BeginAttempt, Refuse, Ends, Proceed
  <2>4. QED BY <2>1, <2>2, <2>3 DEF effect, Before
<1>2. CASE \/ ResolveModelEndpoint \/ ResolveMcpEndpoint \/ ResolveModelCredential
           \/ ResolveMcpCredential \/ OperationGrant \/ ClaimRefused
  <2>1. ~entered /\ pc \in Resolving
    BY <1>2 DEF StageInv, Resolving, ResolveModelEndpoint, ResolveMcpEndpoint,
                ResolveModelCredential, ResolveMcpCredential, OperationGrant, ClaimRefused
  <2>2. UNCHANGED <<effect, result>> /\ pc' \in Resolving \cup {"caught"}
    BY <1>2 DEF ResolveModelEndpoint, ResolveMcpEndpoint, ResolveModelCredential, Resolving,
                ResolveMcpCredential, OperationGrant, ClaimRefused, Started, Throw, Proceed, Call
  <2>3. QED BY <2>1, <2>2 DEF effect, Resolving
<1>3. CASE Enter
  BY <1>3 DEF Enter, Proceed
<1>4. CASE TransportAnswers
  BY <1>4 DEF TransportAnswers, Proceed, ModelExecutes
<1>5. CASE ReturnModel
  <2>1. entered /\ answer \in HttpAnswers \cup {"exception"}
    BY <1>5 DEF StageInv, Sending, ReturnModel
  <2>2. CASE Ordered /\ JsonResponse(answer) /\ Dated
    BY <1>5, <2>1, <2>2
    DEF ReturnModel, Ends, Proceed, effect, JsonResponse, KnownOutcome, ModelReceipt
  <2>3. CASE ~(Ordered /\ JsonResponse(answer) /\ Dated)
    <3>1. Unusable
      BY <1>5, <2>1, <2>3
      DEF ClockInv, Sending, Time, ReturnModel, Ordered, Dated, JsonResponse, HttpAnswers
    <3>2. QED
      BY <1>5, <2>1, <2>3, <3>1 DEF ReturnModel, Throw, Proceed, Call, effect, clocks
  <2>4. QED BY <2>2, <2>3
<1>6. CASE ReturnMcp
  <2>1. entered /\ answer \in ToolAnswers \cup {"exception"}
    BY <1>6 DEF StageInv, Sending, ReturnMcp, McpExecutes, ModelExecutes, ModelProtocols
  <2>2. CASE Ordered /\ ToolResponse(answer) /\ Dated
    BY <1>6, <2>1, <2>2
    DEF ReturnMcp, Ends, Proceed, effect, ToolResponse, KnownOutcome, McpReceipt
  <2>3. CASE ~(Ordered /\ ToolResponse(answer) /\ Dated)
    <3>1. Unusable
      BY <1>6, <2>1, <2>3
      DEF ClockInv, Sending, Time, ReturnMcp, Ordered, Dated, ToolResponse, ToolAnswers
    <3>2. QED
      BY <1>6, <2>1, <2>3, <3>1 DEF ReturnMcp, Throw, Proceed, Call, effect, clocks
  <2>4. QED BY <2>2, <2>3
<1>7. CASE Catch
  <2>1. CASE ~port
    BY <1>7, <2>1 DEF StageInv, Catch, Ends, Proceed, effect, clocks
  <2>2. CASE port /\ Dated
    BY <1>7, <2>2 DEF StageInv, Catch, Ends, Proceed, effect, clocks
  <2>3. CASE port /\ ~Dated
    <3>1. backs > 0
      BY <1>7, <2>3 DEF ClockInv, Time, Catch, Dated
    <3>2. QED
      BY <1>7, <2>3, <3>1 DEF StageInv, Catch, Ends, Proceed, effect, clocks
  <2>4. QED BY <2>1, <2>2, <2>3
<1>8. CASE Tick
  BY <1>8 DEF Tick, Call, effect
<1>9. CASE ClockSetBack
  BY <1>9 DEF ClockInv, ClockSetBack, Call, effect
<1>10. CASE UNCHANGED callVars
  BY <1>10 DEF callVars
<1>11. QED
  BY <1>1, <1>2, <1>3, <1>4, <1>5, <1>6, <1>7, <1>8, <1>9, <1>10 DEF CallNext

-----------------------------------------------------------------------------
(* The theorems *)

\* Where a call stands, what was checked on the way, the times it has taken and
\* what it will tell agree at every instant.
THEOREM CallInvariant == CallSpec => []WholeCallInv
<1>1. CallInit => WholeCallInv
  <2> SUFFICES ASSUME CallInit PROVE WholeCallInv
    OBVIOUS
  <2>1. StageInv
    BY DEF CallInit, StageInv, Before, Resolving, Sending
  <2>2. ClockInv
    BY CallAssumption DEF CallInit, ClockInv, Before, Resolving, Sending, Time
  <2>3. OutcomeInv
    BY DEF CallInit, OutcomeInv, ResultTellsTheEffect, Unset
  <2>4. QED BY <2>1, <2>2, <2>3 DEF WholeCallInv
<1>2. WholeCallInv /\ [CallNext]_callVars => WholeCallInv'
  BY StageStep, ClockStep, OutcomeStep DEF WholeCallInv
<1>3. QED BY <1>1, <1>2, PTL DEF CallSpec

\* The transport is entered only for what the plan and its authorization allow
\* together (assertAuthorization, the adapters), however the clock moves.
THEOREM EffectWasAllowedHolds == CallSpec => []EffectWasAllowed
<1>1. WholeCallInv => EffectWasAllowed
  <2>1. SUFFICES ASSUME WholeCallInv, entered PROVE EffectWasAllowed
    BY DEF EffectWasAllowed
  <2>2. Allowed
    BY <2>1 DEF WholeCallInv, StageInv
  <2>3. at \in Int
    BY <2>1 DEF WholeCallInv, ClockInv, Time
  <2>4. QED BY <2>1, <2>2, <2>3, AllowedIsEnough
<1>2. QED BY <1>1, CallInvariant, PTL

\* What the caller is told bounds what happened (executeModelProviderAttempt and
\* its MCP twin).
THEOREM ResultTellsTheEffectHolds == CallSpec => []ResultTellsTheEffect
<1>1. WholeCallInv => ResultTellsTheEffect
  BY DEF WholeCallInv, OutcomeInv
<1>2. QED BY <1>1, CallInvariant, PTL

-----------------------------------------------------------------------------
(* Attempts, claims and grants. *)

USE AttemptsAssumption, CallsAssumption, BoundsAssumption
    DEF At, Moves, Goto, Return, claims, recovery, grants
--------------------------------------------------------------------------
(* Types *)

\* The grant record a consumption stores stays within its use limit.
LEMMA UsedType ==
  ASSUME NEW grant \in Grants, Usable(grant) PROVE Used(grant) \in Grants
BY DEF Grants, Usable, Used

\* Returning leaves every call in a state of the code.
LEMMA ReturnType ==
  ASSUME call \in [Calls -> CallState], NEW c \in Calls, Return(c)
  PROVE  call' \in [Calls -> CallState]
<1>1. Idle \in CallState
  BY DEF CallState, CallLocals, Idle, NoGrant, Grants
<1>2. QED
  BY <1>1

\* So does going on to a place that needs no answer, and with an answer to any.
LEMMA GotoType ==
  ASSUME call \in [Calls -> CallState], NEW c \in Calls, call[c].pc # "idle",
         NEW s \in {"consume", "approve", "claim", "invoke", "sent", "read", "write"},
         s \in {"read", "write"} => call[c].answer \in Outcomes,
         Goto(c, s)
  PROVE  call' \in [Calls -> CallState]
<1>1. call[c] \in CallState
  OBVIOUS
<1>2. [call[c] EXCEPT !.pc = s] \in CallState
  BY <1>1 DEF CallState, CallLocals
<1>3. call' = [call EXCEPT ![c] = [call[c] EXCEPT !.pc = s]]
  OBVIOUS
<1>4. QED
  BY <1>2, <1>3

\* And keeping the grant or the answer that was read.
LEMMA GrantReadType ==
  ASSUME call \in [Calls -> CallState], NEW c \in Calls, call[c].pc # "idle", NEW g \in Grants,
         NEW s \in {"approve", "claim"},
         call' = [call EXCEPT ![c].pc = s, ![c].grant = g]
  PROVE  call' \in [Calls -> CallState]
<1>1. call[c] \in CallState
  OBVIOUS
<1>2. [call[c] EXCEPT !.pc = s, !.grant = g] \in CallState
  BY <1>1 DEF CallState, CallLocals
<1>3. call' = [call EXCEPT ![c] = [call[c] EXCEPT !.pc = s, !.grant = g]]
  OBVIOUS
<1>4. QED
  BY <1>2, <1>3

LEMMA AnswerReadType ==
  ASSUME call \in [Calls -> CallState], NEW c \in Calls, call[c].pc # "idle", NEW o \in Outcomes,
         call' = [call EXCEPT ![c].pc = "read", ![c].answer = o]
  PROVE  call' \in [Calls -> CallState]
<1>1. call[c] \in CallState
  OBVIOUS
<1>2. [call[c] EXCEPT !.pc = "read", !.answer = o] \in CallState
  BY <1>1 DEF CallState, CallLocals
<1>3. call' = [call EXCEPT ![c] = [call[c] EXCEPT !.pc = "read", !.answer = o]]
  OBVIOUS
<1>4. QED
  BY <1>2, <1>3

\* Each step of a call, of the recovery and of the grant ledger leaves every
\* record in the states the code knows.
THEOREM TypeCorrect == Spec => []TypeOK
<1> USE DEF TypeOK
<1>1. Init => TypeOK
  BY DEF Init, NoGrant, Grants, Status, CallState, CallLocals, Idle
<1>2. TypeOK /\ [Next]_vars => TypeOK'
  <2> SUFFICES ASSUME TypeOK, [Next]_vars PROVE TypeOK'
    OBVIOUS
  <2>1. NoGrant \in Grants
    BY DEF NoGrant, Grants
  <2>2. ASSUME NEW c \in Calls, NEW a \in Attempts, Begin(c, a) PROVE TypeOK'
    <3>1. call[c] \in CallState
      OBVIOUS
    <3>2. [call[c] EXCEPT !.attempt = a, !.pc = IF a \in Granted THEN "consume" ELSE "claim"] \in CallState
      BY <2>2, <3>1 DEF Begin, CallState, CallLocals
    <3>3. call' \in [Calls -> CallState]
      BY <2>2, <3>2 DEF Begin
    <3>4. QED
      BY <2>2, <3>3 DEF Begin
  <2>3. ASSUME NEW c \in Calls, ReadGrant(c) PROVE TypeOK'
    <3>1. ledger[Home[c]] \in Grants /\ call[c].pc # "idle"
      BY <2>3 DEF ReadGrant
    <3>2. Return(c) \/ call' = [call EXCEPT ![c].pc = "approve", ![c].grant = ledger[Home[c]]]
      BY <2>3 DEF ReadGrant
    <3>3. call' \in [Calls -> CallState]
      BY <3>1, <3>2, ReturnType, GrantReadType
    <3>4. QED
      BY <2>3, <3>3 DEF ReadGrant
  <2>4. ASSUME NEW c \in Calls, ConsumeGrant(c) PROVE TypeOK'
    <3>1. CASE /\ Usable(call[c].grant)
               /\ ledger' = [ledger EXCEPT ![Home[c]] = Used(call[c].grant)]
               /\ spent' = [spent EXCEPT ![Home[c]] = @ + 1]
               /\ call' = [call EXCEPT ![c].pc = "claim", ![c].grant = NoGrant]
      <4>1. call[c].pc # "idle" /\ call[c].grant \in Grants
        BY <2>4 DEF ConsumeGrant, CallState, CallLocals
      <4>2. Used(call[c].grant) \in Grants
        BY <3>1, <4>1, UsedType
      <4>3. ledger' \in [Processes -> Grants]
        BY <3>1, <4>2
      <4>4. call' \in [Calls -> CallState]
        BY <2>1, <3>1, <4>1, GrantReadType
      <4>5. spent' \in [Processes -> Nat]
        BY <3>1
      <4>6. QED
        BY <2>4, <4>3, <4>4, <4>5 DEF ConsumeGrant
    <3>2. CASE Return(c) /\ UNCHANGED grants
      <4>1. call' \in [Calls -> CallState]
        BY <3>2, ReturnType
      <4>2. QED
        BY <2>4, <3>2, <4>1 DEF ConsumeGrant
    <3>3. QED
      BY <2>4, <3>1, <3>2 DEF ConsumeGrant
  <2>5. ASSUME NEW c \in Calls, Acquire(c) PROVE TypeOK'
    <3>1. Return(c) \/ Goto(c, "invoke")
      BY <2>5 DEF Acquire
    <3>2. call' \in [Calls -> CallState]
      BY <2>5, <3>1, ReturnType, GotoType DEF Acquire
    <3>3. status' \in [Attempts -> Status]
      BY <2>5 DEF Acquire, Status
    <3>4. QED
      BY <2>5, <3>2, <3>3 DEF Acquire
  <2>6. ASSUME NEW c \in Calls, Invoke(c) PROVE TypeOK'
    <3>1. call[c].pc # "idle" /\ Goto(c, "sent") /\ call[c].attempt \in Attempts
      BY <2>6 DEF Invoke, CallState
    <3>2. call' \in [Calls -> CallState]
      BY <3>1, GotoType
    <3>3. QED
      BY <2>6, <3>1, <3>2 DEF Invoke
  <2>7. ASSUME NEW c \in Calls, Answer(c) PROVE TypeOK'
    <3>1. PICK o \in Outcomes : call' = [call EXCEPT ![c].pc = "read", ![c].answer = o]
      BY <2>7 DEF Answer
    <3>2. call[c].pc # "idle"
      BY <2>7 DEF Answer
    <3>3. call' \in [Calls -> CallState]
      BY <3>1, <3>2, AnswerReadType
    <3>4. QED
      BY <2>7, <3>3 DEF Answer
  <2>8. ASSUME NEW c \in Calls, LoseOutcome(c) PROVE TypeOK'
    BY <2>8, ReturnType DEF LoseOutcome
  <2>9. ASSUME NEW c \in Calls, ReadClaim(c) PROVE TypeOK'
    <3>1. call[c].pc = "read" /\ call[c].answer \in Outcomes
      BY <2>9 DEF ReadClaim, CallState
    <3>2. Return(c) \/ Goto(c, "write")
      BY <2>9 DEF ReadClaim
    <3>3. call' \in [Calls -> CallState]
      BY <3>1, <3>2, ReturnType, GotoType
    <3>4. QED
      BY <2>9, <3>3 DEF ReadClaim
  <2>10. ASSUME NEW c \in Calls, WriteOutcome(c) PROVE TypeOK'
    <3>1. call[c] \in CallState /\ call[c].pc = "write"
      BY <2>10 DEF WriteOutcome
    <3>2. call' \in [Calls -> CallState]
      BY <2>10, ReturnType DEF WriteOutcome
    <3>3. call[c].attempt \in Attempts /\ call[c].answer \in Status
      BY <3>1 DEF CallState, Outcomes, Status
    <3>4. status' \in [Attempts -> Status]
      BY <2>10, <3>3 DEF WriteOutcome
    <3>5. issued' \subseteq Attempts
      BY <2>10, <3>3 DEF WriteOutcome
    <3>6. QED
      BY <2>10, <3>2, <3>4, <3>5 DEF WriteOutcome
  <2>11. ASSUME NEW p \in Processes, PutGrant(p) PROVE TypeOK'
    BY <2>11 DEF PutGrant, Grants
  <2>12. ASSUME NEW p \in Processes, RevokeGrant(p) PROVE TypeOK'
    <3>1. [ledger[p] EXCEPT !.status = "revoked"] \in Grants
      <4>1. ledger[p] \in Grants
        OBVIOUS
      <4>2. QED
        BY <4>1 DEF Grants
    <3>2. ledger' = [ledger EXCEPT ![p] = [ledger[p] EXCEPT !.status = "revoked"]]
      BY <2>12 DEF RevokeGrant
    <3>3. ledger' \in [Processes -> Grants]
      BY <3>1, <3>2
    <3>4. QED
      BY <2>12, <3>3 DEF RevokeGrant
  <2>13. ASSUME NEW p \in Processes, Crash(p) PROVE TypeOK'
    <3>1. Idle \in CallState
      BY <2>1 DEF CallState, CallLocals, Idle
    <3>2. \A c \in Calls : (IF Home[c] = p THEN Idle ELSE call[c]) \in CallState
      BY <3>1
    <3>3. call' = [c \in Calls |-> IF Home[c] = p THEN Idle ELSE call[c]]
      BY <2>13 DEF Crash
    <3>4. call' \in [Calls -> CallState]
      BY <3>2, <3>3
    <3>5. QED
      BY <2>1, <2>13, <3>4 DEF Crash
  <2>14. ASSUME NEW p \in Processes, Restart(p) PROVE TypeOK'
    BY <2>14 DEF Restart
  <2>15. ASSUME NEW p \in Processes, NEW a \in Attempts, Visit(p, a) PROVE TypeOK'
    BY <2>15 DEF Visit
  <2>16. ASSUME NEW p \in Processes, Recover(p) PROVE TypeOK'
    BY <2>16 DEF Recover, Status
  <2>17. ASSUME NEW p \in Processes, Recovered(p) PROVE TypeOK'
    BY <2>17 DEF Recovered
  <2>18. CASE UNCHANGED vars
    BY <2>18 DEF vars
  <2>19. QED
    BY <2>2, <2>3, <2>4, <2>5, <2>6, <2>7, <2>8, <2>9, <2>10, <2>11, <2>12,
       <2>13, <2>14, <2>15, <2>16, <2>17, <2>18 DEF Next, Execute, Operate
<1>3. QED
  BY <1>1, <1>2, PTL DEF Spec
--------------------------------------------------------------------------
(* The inductive invariant *)

\* A call that returns, or one that goes on without a claim, disturbs no claim.
LEMMA CallReturns ==
  ASSUME TypeOK, CallInv, NEW c \in Calls, Return(c), UNCHANGED claims, UNCHANGED effects
  PROVE  CallInv'
BY DEF TypeOK, CallInv, Holds, Idle

LEMMA CallGoesOn ==
  ASSUME TypeOK, CallInv, NEW c \in Calls, UNCHANGED claims, UNCHANGED effects,
         call[c].pc # "idle", call'[c].attempt = call[c].attempt, ~Holds(c)',
         \A d \in Calls \ {c} : call'[d] = call[d]
  PROVE  CallInv'
BY DEF TypeOK, CallInv, Holds

\* Nobody takes a claim from the call that acquired it, except that the
\* recovery of another process may finish it.
LEMMA CallInvKept ==
  ASSUME TypeOK, ProviderInv, [Next]_vars PROVE CallInv'
<1> USE DEF TypeOK, CallState, CallLocals, Idle, Outcomes, Status, ProviderInv, CallInv, ClaimInv, Holds, Claimed
<1>1. ASSUME NEW c \in Calls, NEW a \in Attempts, Begin(c, a) PROVE CallInv'
  BY <1>1 DEF Begin
<1>2. ASSUME NEW c \in Calls, ReadGrant(c) PROVE CallInv'
  <2>1. CASE Return(c)
    BY <1>2, <2>1, CallReturns DEF ReadGrant
  <2>2. CASE call' = [call EXCEPT ![c].pc = "approve", ![c].grant = ledger[Home[c]]]
    <3>1. /\ call'[c].pc = "approve" /\ call'[c].attempt = call[c].attempt
          /\ \A d \in Calls \ {c} : call'[d] = call[d]
      BY <2>2
    <3>2. QED
      BY <1>2, <3>1, CallGoesOn DEF ReadGrant
  <2>3. QED
    BY <1>2, <2>1, <2>2 DEF ReadGrant
<1>3. ASSUME NEW c \in Calls, ConsumeGrant(c) PROVE CallInv'
  <2>1. CASE Return(c)
    BY <1>3, <2>1, CallReturns DEF ConsumeGrant
  <2>2. CASE call' = [call EXCEPT ![c].pc = "claim", ![c].grant = NoGrant]
    <3>1. /\ call'[c].pc = "claim" /\ call'[c].attempt = call[c].attempt
          /\ \A d \in Calls \ {c} : call'[d] = call[d]
      BY <2>2
    <3>2. QED
      BY <1>3, <3>1, CallGoesOn DEF ConsumeGrant
  <2>3. QED
    BY <1>3, <2>1, <2>2 DEF ConsumeGrant
<1>4. ASSUME NEW c \in Calls, Acquire(c) PROVE CallInv'
  <2> DEFINE a == call[c].attempt
  <2>1. a \in Attempts /\ (Prior[a] # None => Prior[a] \in issued)
    BY <1>4 DEF Acquire
  <2>2. CASE Claimed(a)
    <3>1. Return(c) /\ UNCHANGED <<status, issued, effects>>
      BY <1>4, <2>1, <2>2 DEF Acquire, SameClaim
    <3>2. QED
      BY <3>1, CallReturns
  <2>3. CASE ~Claimed(a)
    <3>1. effects[a] = 0 /\ a \notin issued
      BY <2>1, <2>3
    <3>2. \A d \in Calls : Holds(d) => call[d].attempt # a
      BY <2>1, <2>3
    <3>3. CASE UNCHANGED status /\ Return(c)
      BY <1>4, <3>3, CallReturns DEF Acquire
    <3>4. CASE status' = [status EXCEPT ![a] = "claimed"] /\ Goto(c, "invoke")
      BY <1>4, <2>1, <3>1, <3>2, <3>4 DEF Acquire
    <3>5. QED
      BY <1>4, <3>3, <3>4 DEF Acquire
  <2>4. QED
    BY <2>2, <2>3
<1>5. ASSUME NEW c \in Calls, Invoke(c) PROVE CallInv'
  BY <1>5 DEF Invoke
<1>6. ASSUME NEW c \in Calls, Answer(c) PROVE CallInv'
  BY <1>6 DEF Answer
<1>7. ASSUME NEW c \in Calls, LoseOutcome(c) PROVE CallInv'
  BY <1>7 DEF LoseOutcome
<1>8. ASSUME NEW c \in Calls, ReadClaim(c) PROVE CallInv'
  <2>1. CASE Return(c)
    BY <1>8, <2>1, CallReturns DEF ReadClaim
  <2>2. CASE Goto(c, "write")
    BY <1>8, <2>2 DEF ReadClaim
  <2>3. QED
    BY <1>8, <2>1, <2>2 DEF ReadClaim
<1>9. ASSUME NEW c \in Calls, WriteOutcome(c) PROVE CallInv'
  BY <1>9 DEF WriteOutcome
<1>10. ASSUME NEW p \in Processes, PutGrant(p) PROVE CallInv'
  BY <1>10 DEF PutGrant
<1>11. ASSUME NEW p \in Processes, RevokeGrant(p) PROVE CallInv'
  BY <1>11 DEF RevokeGrant
<1>12. ASSUME NEW p \in Processes, Crash(p) PROVE CallInv'
  BY <1>12 DEF Crash
<1>13. ASSUME NEW p \in Processes, Restart(p) PROVE CallInv'
  BY <1>13 DEF Restart
<1>14. ASSUME NEW p \in Processes, Recover(p) PROVE CallInv'
  BY <1>14 DEF Recover
<1>15. ASSUME NEW p \in Processes, Recovered(p) PROVE CallInv'
  BY <1>15 DEF Recovered
<1>16. ASSUME NEW p \in Processes, NEW a \in Attempts, Visit(p, a) PROVE CallInv'
  BY <1>16 DEF Visit
<1>17. CASE UNCHANGED vars
  BY <1>17 DEF vars
<1>18. QED
  BY <1>1, <1>2, <1>3, <1>4, <1>5, <1>6, <1>7, <1>8, <1>9, <1>10, <1>11, <1>12, <1>13, <1>14, <1>15, <1>16, <1>17
     DEF Next, Execute, Operate

\* A claim precedes its effect, and an outcome follows it.
LEMMA ClaimInvKept ==
  ASSUME TypeOK, ProviderInv, [Next]_vars PROVE ClaimInv'
<1> USE DEF TypeOK, CallState, CallLocals, Idle, Outcomes, Status, ProviderInv, CallInv, ClaimInv, Holds, Claimed
<1>1. ASSUME NEW c \in Calls, NEW a \in Attempts, Begin(c, a) PROVE ClaimInv'
  BY <1>1 DEF Begin
<1>2. ASSUME NEW c \in Calls, ReadGrant(c) PROVE ClaimInv'
  BY <1>2 DEF ReadGrant
<1>3. ASSUME NEW c \in Calls, ConsumeGrant(c) PROVE ClaimInv'
  BY <1>3 DEF ConsumeGrant
<1>4. ASSUME NEW c \in Calls, Acquire(c) PROVE ClaimInv'
  <2> DEFINE a == call[c].attempt
  <2>1. a \in Attempts /\ (Prior[a] # None => Prior[a] \in issued)
    BY <1>4 DEF Acquire
  <2>2. CASE Claimed(a)
    BY <1>4, <2>1, <2>2 DEF Acquire, SameClaim
  <2>3. CASE ~Claimed(a)
    <3>1. effects[a] = 0 /\ a \notin issued
      BY <2>1, <2>3
    <3>2. \A d \in Calls : Holds(d) => call[d].attempt # a
      BY <2>1, <2>3
    <3>3. CASE UNCHANGED status /\ Return(c)
      BY <1>4, <3>3 DEF Acquire
    <3>4. CASE status' = [status EXCEPT ![a] = "claimed"] /\ Goto(c, "invoke")
      BY <1>4, <2>1, <3>1, <3>2, <3>4 DEF Acquire
    <3>5. QED
      BY <1>4, <3>3, <3>4 DEF Acquire
  <2>4. QED
    BY <2>2, <2>3
<1>5. ASSUME NEW c \in Calls, Invoke(c) PROVE ClaimInv'
  BY <1>5 DEF Invoke
<1>6. ASSUME NEW c \in Calls, Answer(c) PROVE ClaimInv'
  BY <1>6 DEF Answer
<1>7. ASSUME NEW c \in Calls, LoseOutcome(c) PROVE ClaimInv'
  BY <1>7 DEF LoseOutcome
<1>8. ASSUME NEW c \in Calls, ReadClaim(c) PROVE ClaimInv'
  BY <1>8 DEF ReadClaim
<1>9. ASSUME NEW c \in Calls, WriteOutcome(c) PROVE ClaimInv'
  BY <1>9 DEF WriteOutcome
<1>10. ASSUME NEW p \in Processes, PutGrant(p) PROVE ClaimInv'
  BY <1>10 DEF PutGrant
<1>11. ASSUME NEW p \in Processes, RevokeGrant(p) PROVE ClaimInv'
  BY <1>11 DEF RevokeGrant
<1>12. ASSUME NEW p \in Processes, Crash(p) PROVE ClaimInv'
  BY <1>12 DEF Crash
<1>13. ASSUME NEW p \in Processes, Restart(p) PROVE ClaimInv'
  BY <1>13 DEF Restart
<1>14. ASSUME NEW p \in Processes, Recover(p) PROVE ClaimInv'
  BY <1>14 DEF Recover
<1>15. ASSUME NEW p \in Processes, Recovered(p) PROVE ClaimInv'
  BY <1>15 DEF Recovered
<1>16. ASSUME NEW p \in Processes, NEW a \in Attempts, Visit(p, a) PROVE ClaimInv'
  BY <1>16 DEF Visit
<1>17. CASE UNCHANGED vars
  BY <1>17 DEF vars
<1>18. QED
  BY <1>1, <1>2, <1>3, <1>4, <1>5, <1>6, <1>7, <1>8, <1>9, <1>10, <1>11, <1>12, <1>13, <1>14, <1>15, <1>16, <1>17
     DEF Next, Execute, Operate

\* The chain of a request does not depend on what its claims say beyond being
\* claimed and issued.
LEMMA ChainStays ==
  ASSUME ChainInv, UNCHANGED issued, \A a \in Attempts : Claimed(a)' <=> Claimed(a), issued \subseteq Attempts
  PROVE  ChainInv'
BY DEF ChainInv, Open, Followed, SameClaim

\* Handing out the uncertain outcome of the open attempt closes the chain.
LEMMA ChainCloses ==
  ASSUME ChainInv, issued \subseteq Attempts,
         NEW a \in Attempts, Open(a), issued' = issued \cup {a},
         \A b \in Attempts : Claimed(b)' <=> Claimed(b)
  PROVE  ChainInv'
<1>1. \A b \in Attempts : Followed(b)' <=> Followed(b)
  BY DEF Followed
<1>2. \A b \in Attempts : Open(b)' => Open(b) /\ Request[b] # Request[a]
  BY DEF ChainInv, Open
<1>3. \A b \in issued : Request[b] = Request[a] => Followed(b)
  BY DEF ChainInv
<1>4. QED
  BY <1>1, <1>2, <1>3 DEF ChainInv, SameClaim, Open

\* A claim that nobody holds extends the closed chain of its request, or
\* begins it.
LEMMA ChainExtends ==
  ASSUME ChainInv, ClaimInv, issued \subseteq Attempts, UNCHANGED issued,
         NEW a \in Attempts, Prior[a] # None => Prior[a] \in issued,
         \A b \in Attempts : SameClaim(a, b) => ~Claimed(b),
         \A b \in Attempts : Claimed(b)' <=> Claimed(b) \/ b = a
  PROVE  ChainInv'
<1>1. \A b \in issued : Claimed(b) /\ b # a
  BY DEF ClaimInv, Claimed, SameClaim
<1>2. \A b \in Attempts : Claimed(b) /\ Request[b] = Request[a] => Prior[a] \in issued
  BY DEF ChainInv, SameClaim
<1>3. Prior[a] # None => ~Followed(Prior[a]) /\ Request[Prior[a]] = Request[a]
  BY DEF Followed, SameClaim
<1>4. \A b \in Attempts : Open(b) => Request[b] # Request[a]
  BY <1>2, <1>3 DEF ChainInv, Open
<1>5. \A b \in issued : Request[b] = Request[a] /\ b # Prior[a] => Followed(b)
  BY <1>1, <1>2, <1>3 DEF ChainInv
<1>6. \A b \in Attempts : Followed(b)' <=> Followed(b) \/ b = Prior[a]
  BY DEF Followed
<1>7. \A b \in Attempts : Open(b)' <=> Open(b) \/ b = a
  BY <1>1 DEF Open
<1>8. \A b, d \in Attempts : Claimed(b)' /\ Claimed(d)' /\ SameClaim(b, d) => b = d
  BY DEF ChainInv, SameClaim
<1>9. \A b \in Attempts : Claimed(b)' =>
        \E d \in Attempts : Prior[d] = None /\ Request[d] = Request[b] /\ Claimed(d)'
  BY <1>1 DEF ChainInv
<1>10. \A b, d \in Attempts : Open(b)' /\ Open(d)' /\ Request[b] = Request[d] => b = d
  BY <1>4, <1>7 DEF ChainInv
<1>11. \A b, d \in Attempts : Open(b)' /\ d \in issued /\ Request[b] = Request[d] => Followed(d)'
  BY <1>5, <1>6, <1>7 DEF ChainInv
<1>12. \A b, d \in issued : Request[b] = Request[d] /\ ~Followed(b)' /\ ~Followed(d)' => b = d
  BY <1>6 DEF ChainInv
<1>13. QED
  BY <1>8, <1>9, <1>10, <1>11, <1>12 DEF ChainInv, SameClaim

\* No step branches the chain of a request, whichever processes take it.
LEMMA ChainInvKept ==
  ASSUME TypeOK, ProviderInv, [Next]_vars PROVE ChainInv'
<1> USE DEF ProviderInv
<1>1. issued \subseteq Attempts
  BY DEF TypeOK
<1>2. CASE UNCHANGED claims
  BY <1>1, <1>2, ChainStays DEF Claimed
<1>3. ASSUME NEW c \in Calls, Acquire(c) PROVE ChainInv'
  <2> DEFINE a == call[c].attempt
  <2>1. a \in Attempts /\ (Prior[a] # None => Prior[a] \in issued)
    BY <1>3 DEF Acquire, CallInv, TypeOK, CallState
  <2>2. CASE \E b \in Attempts : SameClaim(a, b) /\ Claimed(b)
    BY <1>2, <1>3, <2>2 DEF Acquire
  <2>3. CASE \A b \in Attempts : SameClaim(a, b) => ~Claimed(b)
    <3>1. status' = [status EXCEPT ![a] = "claimed"] /\ UNCHANGED issued
      BY <1>3, <2>3 DEF Acquire
    <3>2. \A b \in Attempts : Claimed(b)' <=> Claimed(b) \/ b = a
      BY <2>1, <3>1 DEF TypeOK, Claimed
    <3>3. QED
      BY <1>1, <2>1, <2>3, <3>1, <3>2, ChainExtends
  <2>4. QED
    BY <2>2, <2>3
<1>4. ASSUME NEW c \in Calls, WriteOutcome(c) PROVE ChainInv'
  <2> DEFINE a == call[c].attempt
  <2>1. a \in Attempts /\ call[c].answer \in Outcomes
    BY <1>4 DEF WriteOutcome, TypeOK, CallState
  <2>2. CASE status[a] # "claimed"
    BY <1>2, <1>4, <2>2 DEF WriteOutcome
  <2>3. CASE status[a] = "claimed"
    <3>1. \A b \in Attempts : Claimed(b)' <=> Claimed(b)
      BY <1>4, <2>1, <2>3 DEF WriteOutcome, TypeOK, Claimed, Outcomes
    <3>2. Open(a)
      BY <2>1, <2>3 DEF Open, Claimed, ClaimInv
    <3>3. CASE call[c].answer = "uncertain"
      BY <1>1, <1>4, <2>1, <2>3, <3>1, <3>2, <3>3, ChainCloses DEF WriteOutcome
    <3>4. CASE call[c].answer # "uncertain"
      BY <1>1, <1>4, <2>3, <3>1, <3>4, ChainStays DEF WriteOutcome
    <3>5. QED
      BY <3>3, <3>4
  <2>4. QED
    BY <2>2, <2>3
<1>5. ASSUME NEW p \in Processes, Recover(p) PROVE ChainInv'
  <2>1. \A b \in Attempts : Claimed(b)' <=> Claimed(b)
    BY <1>5 DEF Recover, TypeOK, Claimed
  <2>2. QED
    BY <1>1, <1>5, <2>1, ChainStays DEF Recover
<1>6. CASE \/ \E c \in Calls : Acquire(c) \/ WriteOutcome(c)
           \/ \E p \in Processes : Recover(p)
           \/ UNCHANGED claims
  BY <1>2, <1>3, <1>4, <1>5, <1>6
<1>7. QED
  BY <1>6 DEF Next, Execute, Operate, Begin, ReadGrant, ConsumeGrant, Invoke, Answer,
     LoseOutcome, ReadClaim, PutGrant, RevokeGrant, Crash, Restart, Visit, Recovered, vars
--------------------------------------------------------------------------
(* The safety properties *)

\* The invariant holds in every reachable state.
THEOREM ProviderInvariant == Spec => []ProviderInv
<1>1. Init => ProviderInv
  BY DEF Init, Idle, ProviderInv, CallInv, ClaimInv, ChainInv, Holds, Open, Followed, Claimed, Outcomes
<1>2. TypeOK /\ ProviderInv /\ [Next]_vars => ProviderInv'
  BY CallInvKept, ClaimInvKept, ChainInvKept DEF ProviderInv
<1>3. QED
  BY <1>1, <1>2, TypeCorrect, PTL DEF Spec

\* One request is sent once, and once more for each uncertain outcome.
THEOREM EffectOncePerClaimHolds == Spec => []EffectOncePerClaim
<1>1. TypeOK /\ ProviderInv => EffectOncePerClaim
  BY DEF TypeOK, ProviderInv, ClaimInv, ChainInv, EffectOncePerClaim
<1>2. QED
  BY <1>1, TypeCorrect, ProviderInvariant, PTL

\* Two effects of one request are never in flight together.
THEOREM OneEffectInFlightHolds == Spec => []OneEffectInFlight
<1>1. ASSUME TypeOK, ProviderInv, NEW c \in Calls, NEW d \in Calls, InFlight(c), InFlight(d),
             Request[call[c].attempt] = Request[call[d].attempt]
      PROVE  c = d
  <2>1. Holds(c) /\ Holds(d)
    BY <1>1 DEF InFlight, Holds
  <2>2. call[c].attempt \in Attempts /\ call[d].attempt \in Attempts
    BY <1>1 DEF InFlight, TypeOK, CallState
  <2>3. Open(call[c].attempt) /\ Open(call[d].attempt)
    BY <1>1, <2>1, <2>2 DEF ProviderInv, CallInv, ClaimInv, Open, Claimed
  <2>4. QED
    BY <1>1, <2>1, <2>2, <2>3 DEF ProviderInv, CallInv, ChainInv
<1>2. TypeOK /\ ProviderInv => OneEffectInFlight
  BY <1>1 DEF OneEffectInFlight
<1>3. QED
  BY <1>2, TypeCorrect, ProviderInvariant, PTL

\* A retried attempt was recorded as uncertain, not merely recovered.
THEOREM RetryFollowsUncertaintyHolds == Spec => []RetryFollowsUncertainty
<1>1. TypeOK /\ ProviderInv => RetryFollowsUncertainty
  BY DEF TypeOK, ProviderInv, ClaimInv, RetryFollowsUncertainty
<1>2. QED
  BY <1>1, TypeCorrect, ProviderInvariant, PTL

\* No effect without its durable record, no outcome without its effect.
THEOREM EffectsAreRecordedHolds == Spec => []EffectsAreRecorded
<1>1. TypeOK /\ ProviderInv => EffectsAreRecorded
  BY DEF TypeOK, ProviderInv, ClaimInv, EffectsAreRecorded
<1>2. QED
  BY <1>1, TypeCorrect, ProviderInvariant, PTL

\* A finished claim is never overwritten.
THEOREM ClaimsAreFinalHolds == Spec => ClaimsAreFinal
<1> DEFINE Final == \A a \in Attempts : status[a] \notin {"none", "claimed"} => status'[a] = status[a]
<1>1. ASSUME TypeOK, [Next]_vars PROVE Final
  <2>1. ASSUME NEW c \in Calls, Acquire(c) PROVE Final
    BY <1>1, <2>1 DEF Acquire, TypeOK, Claimed, SameClaim
  <2>2. ASSUME NEW c \in Calls, WriteOutcome(c) PROVE Final
    BY <1>1, <2>2 DEF WriteOutcome, TypeOK
  <2>3. ASSUME NEW p \in Processes, Recover(p) PROVE Final
    BY <1>1, <2>3 DEF Recover, TypeOK
  <2>4. CASE UNCHANGED status
    BY <2>4
  <2>5. QED
    BY <1>1, <2>1, <2>2, <2>3, <2>4 DEF Next, Execute, Operate, Begin, ReadGrant, ConsumeGrant,
       Invoke, Answer, LoseOutcome, ReadClaim, PutGrant, RevokeGrant, Crash, Restart, Visit,
       Recovered, vars
<1>2. TypeOK /\ [Next]_vars => [Final]_vars
  BY <1>1
<1>3. QED
  BY <1>2, TypeCorrect, PTL DEF Spec, ClaimsAreFinal
============================================================================
