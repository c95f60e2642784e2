---------------------------- MODULE MCObservation ----------------------------
(* Two deployments of one provider and a host of no provider;                *)
(* the contract ends at the last instant of the clock.                       *)
EXTENDS ProviderObservation, TLC

CONSTANTS b1, b2, c1, c2, given, home, other, alien

MCOrigin == [u \in Urls |-> CASE u = home -> "mine" [] u = other -> "other" [] u = alien -> "alien"]
MCProvider == [o \in {"mine", "other", "alien"} |-> IF o = "alien" THEN None ELSE "vercel"]
MCSymmetry == Permutations(Calls) \cup Permutations(BindingIds)
MCExpiresAt == [p \in {"vercel"} |-> MaxTime]
=============================================================================
