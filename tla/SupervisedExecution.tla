----------------------- MODULE SupervisedExecution -----------------------
(***************************************************************************)
(* What the S1 execution kernel promises about external effects, stated    *)
(* without processes, crashes, lock tables or event logs: a task reserves  *)
(* all its resources or none, a human decides once, an approved task       *)
(* performs its effect at most once and only while it holds its resources, *)
(* and a task gives its resources up only after the human decided.         *)
(***************************************************************************)
EXTENDS Naturals

CONSTANTS Tasks,      \* the tasks that ask for an external effect
          Resources,  \* browser profiles and provider surfaces
          Needs       \* the resources each task must own exclusively

VARIABLES decision,   \* the human's answer for each task
          holding,    \* the tasks that own the resources they need
          effects     \* how often the effect of each task took place

vars == <<decision, holding, effects>>

Disjoint(t, u) == Needs[t] \cap Needs[u] = {}

Init ==
    /\ decision = [t \in Tasks |-> "none"]
    /\ holding = {}
    /\ effects = [t \in Tasks |-> 0]

Reserve(t) ==
    /\ decision[t] = "none"
    /\ t \notin holding
    /\ \A u \in holding : Disjoint(t, u)
    /\ holding' = holding \cup {t}
    /\ UNCHANGED <<decision, effects>>

Ask(t) ==
    /\ decision[t] = "none"
    /\ t \in holding
    /\ decision' = [decision EXCEPT ![t] = "requested"]
    /\ UNCHANGED <<holding, effects>>

Decide(t) ==
    /\ decision[t] = "requested"
    /\ \E d \in {"approved", "rejected"} : decision' = [decision EXCEPT ![t] = d]
    /\ UNCHANGED <<holding, effects>>

Perform(t) ==
    /\ decision[t] = "approved"
    /\ t \in holding
    /\ effects[t] = 0
    /\ effects' = [effects EXCEPT ![t] = 1]
    /\ UNCHANGED <<decision, holding>>

Release(t) ==
    /\ decision[t] \in {"approved", "rejected"}
    /\ t \in holding
    /\ holding' = holding \ {t}
    /\ UNCHANGED <<decision, effects>>

Next == \E t \in Tasks :
    Reserve(t) \/ Ask(t) \/ Decide(t) \/ Perform(t) \/ Release(t)

Spec == Init /\ [][Next]_vars
==========================================================================
