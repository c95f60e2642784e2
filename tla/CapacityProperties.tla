----------------------- MODULE CapacityProperties -----------------------
(***************************************************************************)
(* The properties of the S6 scheduler.                                     *)
(***************************************************************************)
EXTENDS CapacityScheduling

AdmittedFor(ws) == {w \in LockedFor(ws) : profile[w] \in admitted}
WidestBudget == CHOOSE n \in {GlobalMax[ws] : ws \in Workspaces} :
                    \A ws \in Workspaces : GlobalMax[ws] <= n

\* The caps of docs/contracts/S6-scheduling-policy.md, section 7, as far as
\* the scheduler's own assignments go: however retries, missions without a
\* policy and other workspaces come in between, those that hold a profile
\* never exceed the workspace's cap, nor all of them the widest global one.
BudgetsHold ==
    /\ \A ws \in Workspaces : Cardinality(AdmittedFor(ws)) <= WorkspaceMax[ws]
    /\ Cardinality(UNION {AdmittedFor(ws) : ws \in Workspaces}) <= WidestBudget

\* The scheduler's view of the locks is the one S1 acts on: an assignment it
\* admitted is never turned down by the lock table.
AdmissionIsNeverBlocked ==
    \A s \in admitted : attempt[s] # "blocked"

\* Bounded aging (section 6): a candidate whose boost makes up for its
\* priority is not overtaken by a step whose mission started an interval or
\* more after its own, unless the candidate cannot be started itself.
Aged(s) == Bucket(s) >= Rank[s] /\ Rank[s] <= MaxBoost
AgedNotOvertaken ==
    [][\A s, t \in Steps :
          /\ s \in admitted' \ admitted
          /\ Home(t) = Home(s) /\ Aged(t) /\ Bucket(t) > Bucket(s)
          => ~Eligible(t)]_vars

--------------------------------------------------------------------------
(* The inductive invariant *)

\* Between the steps of one evaluation nothing happens: what was selected is
\* still the first choice and its worker free, and what was admitted still
\* fits the budgets.
PlaceInv ==
    /\ at \in {"evaluate", "revalidate", "create", "end"} => cur.run \in Runs
    /\ at \in {"revalidate", "create"} => /\ cur.step \in Choices(Of[cur.run])
                                         /\ cur.worker \in Compatible(cur.step)
    /\ at = "schedule" =>
          /\ cur.step \in Steps /\ cur.worker \in Workers
          /\ attempt[cur.step] = "ready"
          /\ cur.step \in admitted => /\ WithinBudgets(Home(cur.step))
                                      /\ Free(cur.step, cur.worker)
    /\ at = "retry" => /\ cur.step \in Steps /\ tries[cur.step] < MaxTries
                       /\ \A w \in Workers : profile[w] # cur.step

\* Who holds a profile waits for its gate or its review.
HolderInv == \A w \in Workers : profile[w] # NoStep =>
                attempt[profile[w]] \in {"waiting_human", "recovery_required"}

AdmittedInv == \A s \in admitted : attempt[s] \notin {"none", "blocked"}

CapacityInv == TypeOK /\ PlaceInv /\ HolderInv /\ AdmittedInv /\ BudgetsHold

==========================================================================
