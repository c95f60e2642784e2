------------------------ MODULE ProviderProperties ------------------------
(***************************************************************************)
(* The properties of the provider runtime.                                 *)
(***************************************************************************)
EXTENDS ProviderExecution

\* Every variable has its type.
TypeOK ==
    /\ status \in [Attempts -> Status]
    /\ issued \subseteq Attempts
    /\ process \in [Processes -> {"down", "recovering", "up"}]
    /\ todo \in [Processes -> SUBSET Attempts]
    /\ visiting \in [Processes -> Attempts \cup {None}]
    /\ call \in [Calls -> CallState]
    /\ ledger \in [Processes -> Grants]
    /\ spent \in [Processes -> Nat]
    /\ effects \in [Attempts -> Nat]
    /\ crashes \in 0..MaxCrashes

\* The provider effect port is entered at most once for a request and at most
\* once for the reviewed retry of an uncertain attempt, whichever processes
\* and attempts compete for it and wherever they crash.
EffectOncePerClaim ==
    \A a, b \in Attempts : effects[a] > 0 /\ effects[b] > 0 /\ SameClaim(a, b) =>
        a = b /\ effects[a] = 1

\* No two effects for one request are in flight at a time: not those of two
\* processes, and not a retry and what it retries.
InFlight(c) == call[c].pc \in {"invoke", "sent"}
OneEffectInFlight ==
    \A c, d \in Calls : InFlight(c) /\ InFlight(d) /\ Request[call[c].attempt] = Request[call[d].attempt] => c = d

\* An effect is retried only after its outcome was recorded as uncertain; a
\* claim that a restart recovered is never retried by itself.
RetryFollowsUncertainty ==
    \A a \in Attempts : Claimed(a) /\ Prior[a] # None => status[Prior[a]] = "uncertain"

\* The record of an effect is durable before the effect, and an outcome is
\* only recorded of an effect that happened.
EffectsAreRecorded ==
    \A a \in Attempts : /\ effects[a] > 0 => Claimed(a)
                        /\ status[a] \in Outcomes => effects[a] = 1

\* A finished claim never changes: neither a late outcome nor the recovery of
\* another process overwrites it.
ClaimsAreFinal ==
    [][\A a \in Attempts : status[a] \notin {"none", "claimed"} => status'[a] = status[a]]_vars

-----------------------------------------------------------------------------
(* The inductive invariant of the proofs                                   *)

Holds(c) == call[c].pc \in {"invoke", "sent", "read", "write"}
Open(a) == Claimed(a) /\ a \notin issued
Followed(a) == \E b \in Attempts : Prior[b] = a /\ Claimed(b)

\* A call that passed acquire is the only one that holds its claim.
CallInv ==
    /\ \A c \in Calls : call[c].pc # "idle" /\ Prior[call[c].attempt] # None =>
           Prior[call[c].attempt] \in issued
    /\ \A c \in Calls : Holds(c) =>
           /\ status[call[c].attempt] \in {"claimed", "recovery_required"}
           /\ effects[call[c].attempt] = (IF call[c].pc = "invoke" THEN 0 ELSE 1)
    /\ \A c, d \in Calls : Holds(c) /\ Holds(d) /\ call[c].attempt = call[d].attempt => c = d

\* What a claim says of its effect, and of what it follows.
ClaimInv ==
    \A a \in Attempts :
        /\ effects[a] \in {0, 1}
        /\ effects[a] = 1 => Claimed(a)
        /\ status[a] \in Outcomes => effects[a] = 1
        /\ a \in issued => status[a] = "uncertain"
        /\ Claimed(a) /\ Prior[a] # None => Prior[a] \in issued

\* The claims of a request form a chain that starts at an initial attempt,
\* and only its last attempt is open.
ChainInv ==
    /\ \A a, b \in Attempts : Claimed(a) /\ Claimed(b) /\ SameClaim(a, b) => a = b
    /\ \A a \in Attempts : Claimed(a) =>
           \E b \in Attempts : Prior[b] = None /\ Request[b] = Request[a] /\ Claimed(b)
    /\ \A a, b \in Attempts : Open(a) /\ Open(b) /\ Request[a] = Request[b] => a = b
    /\ \A a, b \in Attempts : Open(a) /\ b \in issued /\ Request[a] = Request[b] => Followed(b)
    /\ \A a, b \in issued : Request[a] = Request[b] /\ ~Followed(a) /\ ~Followed(b) => a = b

\* The claims, the calls that hold them and the recorded effects fit together,
\* across the awaits of executePersistedModelProviderAttempt and across crashes.
ProviderInv == CallInv /\ ClaimInv /\ ChainInv
===========================================================================
