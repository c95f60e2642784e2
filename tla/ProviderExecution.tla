------------------------- MODULE ProviderExecution -------------------------
(***************************************************************************)
(* The provider runtime: persistent attempt claims over one SQLite         *)
(* database, shared by the processes that have it open, and the operation  *)
(* grants each process keeps in memory.                                    *)
(*                                                                         *)
(* A call executes one attempt at a request.  It consumes a grant if the   *)
(* operation has one, claims the attempt, enters the provider's transport  *)
(* and records what came back.  Each action is the code between two awaits *)
(* or between two statements of the database; the calls of one process     *)
(* interleave at the former, those of different processes at both.  A      *)
(* claim is written once as claimed, with version 1, and once more, with   *)
(* version 2, so that a write that expects version 1 collides exactly when *)
(* the claim is no longer claimed.                                         *)
(***************************************************************************)
EXTENDS Integers, FiniteSets

CONSTANTS
    Attempts,   \* provider.execution.attempt.v1 records
    Request,    \* the request of an attempt
    Prior,      \* the attempt a reviewed retry follows, None for an initial one
    None,
    Granted,    \* attempts that are executed under an operation grant
    Processes,  \* processes that share the database
    Calls,      \* executions of persisted attempts that may run at a time
    Home,       \* the process of a call
    MaxUses,    \* maxUses of a grant
    MaxCrashes  \* bound on process crashes

ASSUME AttemptsAssumption ==
    /\ None \notin Attempts
    /\ Prior \in [Attempts -> Attempts \cup {None}]
    /\ DOMAIN Request = Attempts
    /\ \A a \in Attempts : Prior[a] # None => Request[a] = Request[Prior[a]]
ASSUME CallsAssumption == Home \in [Calls -> Processes] /\ Granted \subseteq Attempts
ASSUME BoundsAssumption == MaxUses \in Nat \ {0} /\ MaxCrashes \in Nat

VARIABLES
    status,   \* durable: providerExecutionClaim projections
    issued,   \* attempts whose uncertain outcome was handed to the caller
    process,  \* "down", "recovering" or "up"
    todo,     \* claims the recovery of a process still has to visit
    visiting, \* claim whose projection that recovery has read
    call,     \* where a call stands, with its local variables
    ledger,   \* grant record of a process
    spent,    \* ghost: times the grant of a process was consumed
    effects,  \* ghost: times the transport was entered for an attempt
    crashes
vars == <<status, issued, process, todo, visiting, call, ledger, spent, effects, crashes>>

claims == <<status, issued>>
recovery == <<process, todo, visiting>>
grants == <<ledger, spent>>

Outcomes == {"success", "known_failure", "uncertain"}
Status == {"none", "claimed", "recovery_required"} \cup Outcomes
NoGrant == [uses |-> 0, status |-> "missing"]
Grants == [uses : 0..MaxUses, status : {"missing", "active", "exhausted", "revoked"}]
CallLocals == [pc : {"idle", "consume", "approve", "claim", "invoke", "sent", "read", "write"},
               attempt : Attempts \cup {None},
               grant : Grants,  \* the grant record it has read
               answer : Outcomes \cup {None}]
CallState == {s \in CallLocals : /\ s.pc # "idle" => s.attempt \in Attempts
                                 /\ s.pc \in {"read", "write"} => s.answer \in Outcomes}
Idle == [pc |-> "idle", attempt |-> None, grant |-> NoGrant, answer |-> None]

\* A request is claimed once and an uncertain attempt has one successor.
SameClaim(a, b) == Prior[a] = Prior[b] /\ (Prior[a] = None => Request[a] = Request[b])
Claimed(a) == status[a] # "none"

\* A process runs one piece of synchronous code at a time: nothing else of it
\* moves while a call or the recovery is between its read and its write.
Moves(c) == process[Home[c]] = "up" /\ \A d \in Calls \ {c} : Home[d] = Home[c] => call[d].pc # "write"
At(c, step) == Moves(c) /\ call[c].pc = step
Goto(c, step) == call' = [call EXCEPT ![c].pc = step]
Return(c) == call' = [call EXCEPT ![c] = Idle]

Init ==
    /\ status = [a \in Attempts |-> "none"]
    /\ issued = {}
    /\ process = [p \in Processes |-> "down"]
    /\ todo = [p \in Processes |-> {}]
    /\ visiting = [p \in Processes |-> None]
    /\ call = [c \in Calls |-> Idle]
    /\ ledger = [p \in Processes |-> NoGrant]
    /\ spent = [p \in Processes |-> 0]
    /\ effects = [a \in Attempts |-> 0]
    /\ crashes = 0

-----------------------------------------------------------------------------
(* The execution of an attempt                                             *)

\* Mutation: any claimed attempt may be retried.
BeginAnyRetry(c, a) ==
    /\ At(c, "idle")
    /\ Prior[a] # None => Claimed(Prior[a])
    /\ call' = [call EXCEPT ![c].attempt = a, ![c].pc = IF a \in Granted THEN "consume" ELSE "claim"]
    /\ UNCHANGED <<claims, recovery, grants, effects, crashes>>

\* The attempt matches its plan; a reviewed retry is presented together with
\* the uncertain outcome of the attempt it follows.
Begin(c, a) ==
    /\ At(c, "idle")
    /\ Prior[a] # None => Prior[a] \in issued
    /\ call' = [call EXCEPT ![c].attempt = a, ![c].pc = IF a \in Granted THEN "consume" ELSE "claim"]
    /\ UNCHANGED <<claims, recovery, grants, effects, crashes>>

\* consume up to its await: the record is read before the approval is.
ReadGrant(c) ==
    /\ At(c, "consume")
    /\ IF ledger[Home[c]].status = "missing"
       THEN Return(c)
       ELSE call' = [call EXCEPT ![c].pc = "approve", ![c].grant = ledger[Home[c]]]
    /\ UNCHANGED <<claims, recovery, grants, effects, crashes>>

\* The rest of consume works on the record it has read.
Usable(grant) == grant.status = "active" /\ grant.uses < MaxUses
Used(grant) ==
    [uses |-> grant.uses + 1, status |-> IF grant.uses + 1 >= MaxUses THEN "exhausted" ELSE "active"]
ConsumeGrant(c) ==
    /\ At(c, "approve")
    /\ \/ /\ Usable(call[c].grant)
          /\ ledger' = [ledger EXCEPT ![Home[c]] = Used(call[c].grant)]
          /\ spent' = [spent EXCEPT ![Home[c]] = @ + 1]
          /\ call' = [call EXCEPT ![c].pc = "claim", ![c].grant = NoGrant]
       \/ \* refused, unapproved or expired
          Return(c) /\ UNCHANGED grants
    /\ UNCHANGED <<claims, recovery, effects, crashes>>

\* Mutation: the claim is keyed by the attempt.
AcquireByAttempt(c) ==
    /\ At(c, "claim")
    /\ IF Claimed(call[c].attempt)
       THEN Return(c) /\ UNCHANGED status
       ELSE Goto(c, "invoke") /\ status' = [status EXCEPT ![call[c].attempt] = "claimed"]
    /\ UNCHANGED <<issued, recovery, grants, effects, crashes>>

\* acquire, in one transaction: the same attempt is a duplicate and another
\* one of the same claim a collision, and neither reaches the provider.
Acquire(c) ==
    /\ At(c, "claim")
    /\ IF \E b \in Attempts : SameClaim(call[c].attempt, b) /\ Claimed(b)
       THEN Return(c) /\ UNCHANGED status
       ELSE Goto(c, "invoke") /\ status' = [status EXCEPT ![call[c].attempt] = "claimed"]
    /\ UNCHANGED <<issued, recovery, grants, effects, crashes>>

Invoke(c) ==
    /\ At(c, "invoke")
    /\ effects' = [effects EXCEPT ![call[c].attempt] = @ + 1]
    /\ Goto(c, "sent")
    /\ UNCHANGED <<claims, recovery, grants, crashes>>

\* The provider answers, with a result or an error, or the transport throws
\* or returns what cannot be read, and the outcome is uncertain.
Answer(c) ==
    /\ At(c, "sent")
    /\ \E o \in Outcomes : call' = [call EXCEPT ![c].pc = "read", ![c].answer = o]
    /\ UNCHANGED <<claims, recovery, grants, effects, crashes>>

\* The outcome cannot be built, because the clock reads earlier than the
\* attempt's creation, and nothing is recorded.
LoseOutcome(c) ==
    /\ At(c, "sent")
    /\ Return(c)
    /\ UNCHANGED <<claims, recovery, grants, effects, crashes>>

\* recordOutcome reads the claim and throws when it has been finished.
ReadClaim(c) ==
    /\ At(c, "read")
    /\ IF status[call[c].attempt] = "claimed" THEN Goto(c, "write") ELSE Return(c)
    /\ UNCHANGED <<claims, recovery, grants, effects, crashes>>

\* Mutation: the projection is written whatever its version.
WriteOutcomeUnversioned(c) ==
    /\ At(c, "write")
    /\ status' = [status EXCEPT ![call[c].attempt] = call[c].answer]
    /\ issued' = IF call[c].answer = "uncertain" THEN issued \cup {call[c].attempt} ELSE issued
    /\ Return(c)
    /\ UNCHANGED <<recovery, grants, effects, crashes>>

\* Mutation: an uncertain outcome is handed out although it was not recorded.
WriteOutcomeUnrecorded(c) ==
    /\ At(c, "write")
    /\ status' = [status EXCEPT ![call[c].attempt] = IF @ = "claimed" THEN call[c].answer ELSE @]
    /\ issued' = IF call[c].answer = "uncertain" THEN issued \cup {call[c].attempt} ELSE issued
    /\ Return(c)
    /\ UNCHANGED <<recovery, grants, effects, crashes>>

\* Its write collides when another process finished the claim meanwhile.  An
\* uncertain outcome reaches the caller only after it was recorded.
WriteOutcome(c) ==
    /\ At(c, "write")
    /\ IF status[call[c].attempt] = "claimed"
       THEN /\ status' = [status EXCEPT ![call[c].attempt] = call[c].answer]
            /\ issued' = IF call[c].answer = "uncertain" THEN issued \cup {call[c].attempt} ELSE issued
       ELSE UNCHANGED claims
    /\ Return(c)
    /\ UNCHANGED <<recovery, grants, effects, crashes>>

-----------------------------------------------------------------------------
(* Grants, crashes and the recovery of unfinished claims                   *)

PutGrant(p) ==
    /\ process[p] = "up" /\ ledger[p] = NoGrant
    /\ ledger' = [ledger EXCEPT ![p] = [uses |-> 0, status |-> "active"]]
    /\ spent' = [spent EXCEPT ![p] = 0]
    /\ UNCHANGED <<claims, recovery, call, effects, crashes>>

RevokeGrant(p) ==
    /\ process[p] = "up" /\ ledger[p].status \in {"active", "exhausted"}
    /\ ledger' = [ledger EXCEPT ![p].status = "revoked"]
    /\ UNCHANGED <<claims, recovery, call, spent, effects, crashes>>

Crash(p) ==
    /\ process[p] # "down" /\ crashes < MaxCrashes
    /\ process' = [process EXCEPT ![p] = "down"]
    /\ todo' = [todo EXCEPT ![p] = {}]
    /\ visiting' = [visiting EXCEPT ![p] = None]
    /\ call' = [c \in Calls |-> IF Home[c] = p THEN Idle ELSE call[c]]
    /\ ledger' = [ledger EXCEPT ![p] = NoGrant]
    /\ crashes' = crashes + 1
    /\ UNCHANGED <<claims, spent, effects>>

\* recoverUnfinishedClaims, first the list and then one claim after the other.
Restart(p) ==
    /\ process[p] = "down"
    /\ process' = [process EXCEPT ![p] = "recovering"]
    /\ todo' = [todo EXCEPT ![p] = {a \in Attempts : status[a] = "claimed"}]
    /\ UNCHANGED <<claims, visiting, call, grants, effects, crashes>>

Visit(p, a) ==
    /\ process[p] = "recovering" /\ visiting[p] = None /\ a \in todo[p]
    /\ todo' = [todo EXCEPT ![p] = @ \ {a}]
    /\ visiting' = [visiting EXCEPT ![p] = IF status[a] = "claimed" THEN a ELSE None]
    /\ UNCHANGED <<claims, process, call, grants, effects, crashes>>

\* The recovery of another process is found by its event; an outcome recorded
\* meanwhile makes the write collide, which ends this recovery.
Recover(p) ==
    /\ visiting[p] # None
    /\ visiting' = [visiting EXCEPT ![p] = None]
    /\ \/ /\ status[visiting[p]] \in {"claimed", "recovery_required"}
          /\ status' = [status EXCEPT ![visiting[p]] = "recovery_required"]
          /\ UNCHANGED <<process, todo>>
       \/ /\ status[visiting[p]] \in Outcomes
          /\ process' = [process EXCEPT ![p] = "up"]
          /\ todo' = [todo EXCEPT ![p] = {}]
          /\ UNCHANGED status
    /\ UNCHANGED <<issued, call, grants, effects, crashes>>

Recovered(p) ==
    /\ process[p] = "recovering" /\ visiting[p] = None /\ todo[p] = {}
    /\ process' = [process EXCEPT ![p] = "up"]
    /\ UNCHANGED <<claims, todo, visiting, call, grants, effects, crashes>>

-----------------------------------------------------------------------------
Execute(c) ==
    \/ \E a \in Attempts : Begin(c, a)
    \/ ReadGrant(c) \/ ConsumeGrant(c)
    \/ Acquire(c) \/ Invoke(c) \/ Answer(c) \/ LoseOutcome(c)
    \/ ReadClaim(c) \/ WriteOutcome(c)
Operate(p) ==
    \/ PutGrant(p) \/ RevokeGrant(p) \/ Crash(p)
    \/ Restart(p) \/ (\E a \in Attempts : Visit(p, a)) \/ Recover(p) \/ Recovered(p)
Next == (\E c \in Calls : Execute(c)) \/ (\E p \in Processes : Operate(p))
Spec == Init /\ [][Next]_vars
============================================================================
