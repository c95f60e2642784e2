------------------------- MODULE DelegationPromise -------------------------
(***************************************************************************)
(* What controlled delegation promises, without the exchange between the   *)
(* two instances, without their crashes and without receipts: the source   *)
(* asks, the destination decides once and by itself, work it accepted is   *)
(* performed there, and a source step is released only by performed work   *)
(* that was asked for this step.                                           *)
(***************************************************************************)
CONSTANTS Requests, Steps,
          NoStep,    \* asked for no particular step
          NotAsked

VARIABLES asked,     \* the source step a request was made for
          decision,  \* the destination's decision
          performed, \* requests whose work took place
          released   \* source steps completed by delegated work
vars == <<asked, decision, performed, released>>

Init ==
    /\ asked = [q \in Requests |-> NotAsked]
    /\ decision = [q \in Requests |-> "none"]
    /\ performed = {} /\ released = {}

Ask(q) ==
    /\ asked[q] = NotAsked
    /\ \E s \in Steps \cup {NoStep} : asked' = [asked EXCEPT ![q] = s]
    /\ UNCHANGED <<decision, performed, released>>

Decide(q) ==
    /\ asked[q] # NotAsked /\ decision[q] = "none"
    /\ \E d \in {"accepted", "rejected"} : decision' = [decision EXCEPT ![q] = d]
    /\ UNCHANGED <<asked, performed, released>>

Perform(q) ==
    /\ decision[q] = "accepted" /\ q \notin performed
    /\ performed' = performed \cup {q}
    /\ UNCHANGED <<asked, decision, released>>

Release(s) ==
    /\ s \notin released /\ \E q \in performed : asked[q] = s
    /\ released' = released \cup {s}
    /\ UNCHANGED <<asked, decision, performed>>

Next == (\E q \in Requests : Ask(q) \/ Decide(q) \/ Perform(q)) \/ (\E s \in Steps : Release(s))
Spec == Init /\ [][Next]_vars
============================================================================
