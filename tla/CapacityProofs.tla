-------------------------- MODULE CapacityProofs --------------------------
(***************************************************************************)
(* Proofs about the S6 scheduler, for any workspaces, missions, steps,     *)
(* workers and targets and any length of time: the inductive invariant     *)
(* CapacityInv and the three properties of the scheduler.                  *)
(***************************************************************************)
EXTENDS CapacityProperties, FiniteSetTheorems, TLAPS

--------------------------------------------------------------------------
(* Types *)

\* Every record stays in its range, whatever the scheduler decides.
LEMMA TypeStep ==
    ASSUME TypeOK, PlaceInv, [Next]_vars PROVE TypeOK'
<1> USE CapacityAssumption DEF TypeOK
<1>1. CASE Tick
  BY <1>1 DEF Tick, kernel
<1>2. ASSUME NEW w \in Workers, WorkerChanges(w) PROVE TypeOK'
  BY <1>2 DEF WorkerChanges, kernel, Mishap
<1>3. ASSUME NEW ws \in Workspaces, RecordSchedulingPolicy(ws) PROVE TypeOK'
  BY <1>3 DEF RecordSchedulingPolicy, kernel
<1>4. ASSUME NEW r \in Runs, StartMission(r) PROVE TypeOK'
  BY <1>4 DEF StartMission, Evaluate, Goto, kernel, outside
<1>5. ASSUME NEW r \in Runs, PauseMission(r) PROVE TypeOK'
  BY <1>5 DEF PauseMission, Mishap, kernel, outside
<1>6. ASSUME NEW r \in Runs, ResumeMission(r) PROVE TypeOK'
  BY <1>6 DEF ResumeMission, Evaluate, Goto, kernel, outside
<1>7. ASSUME NEW s \in Steps, Finish(s) PROVE TypeOK'
  BY <1>7 DEF Finish, Settle, Release, Evaluate, Goto, outside
<1>8. ASSUME NEW s \in Steps, Reject(s) PROVE TypeOK'
  BY <1>8 DEF Reject, Settle, Release, Evaluate, Goto, Mishap, outside
<1>9. ASSUME NEW s \in Steps, Fail(s) PROVE TypeOK'
  BY <1>9 DEF Fail, Mishap, kernel, outside
<1>10. ASSUME NEW s \in Steps, ReviewAttempt(s) PROVE TypeOK'
  BY <1>10 DEF ReviewAttempt, Release, Goto, outside
<1>11. ASSUME NEW s \in Steps, LoseAuthority(s) PROVE TypeOK'
  BY <1>11 DEF LoseAuthority, Mishap, kernel
<1>12. ASSUME NEW s \in Steps, StartUnscheduled(s) PROVE TypeOK'
  <2>1. tries' \in [Steps -> 0..MaxTries]
    BY <1>12 DEF StartUnscheduled
  <2>2. PICK w \in AnyWorker(s) : Goto("schedule", cur.run, s, w)
    BY <1>12 DEF StartUnscheduled
  <2>3. w \in Workers
    BY <2>2 DEF AnyWorker
  <2>4. QED BY <1>12, <2>1, <2>2, <2>3 DEF StartUnscheduled, Goto, kernel, outside
<1>13. ASSUME NEW s \in Steps, Decide(s) PROVE TypeOK'
  <2>1. PICK w \in Compatible(s) : Propose(s, w)
    BY <1>13 DEF Decide
  <2>2. w \in Workers
    BY <2>1 DEF Compatible
  <2>3. QED BY <1>13, <2>1, <2>2 DEF Decide, Propose, Goto, kernel, outside
<1>14. CASE Accept
  BY <1>14 DEF Accept, Goto, kernel, outside
<1>15. CASE CreateAttempt
  <2>1. cur.step \in Steps
    BY <1>15 DEF CreateAttempt, PlaceInv, Choices
  <2>2. tries' \in [Steps -> 0..MaxTries]
    BY <1>15, <2>1 DEF CreateAttempt
  <2>3. cur' \in [run : Runs \cup {NoRun}, step : Steps \cup {NoStep},
                worker : Workers \cup {NoWorker}]
    BY <1>15, <2>1 DEF CreateAttempt, Goto
  <2>4. QED BY <1>15, <2>1, <2>2, <2>3 DEF CreateAttempt, Goto, kernel, outside
<1>16. CASE ExecuteLocal
  BY <1>16 DEF ExecuteLocal, Evaluate, Done, Goto, kernel, outside
<1>17. CASE ScheduleReserved
  <2>1. cur.step \in Steps
    BY <1>17 DEF ScheduleReserved, PlaceInv
  <2>2. /\ profile' \in [Workers -> Steps \cup {NoStep}]
        /\ surface' \in [Targets -> Steps \cup {NoStep}]
        /\ attempt' \in [Steps -> {"none", "ready", "waiting_human", "blocked",
                                 "completed", "cancelled", "recovery_required"}]
    BY <1>17, <2>1 DEF ScheduleReserved
  <2>3. QED
    BY <1>17, <2>2 DEF ScheduleReserved, Evaluate, Done, Goto, outside
<1>18. CASE ScheduleBlocked
  BY <1>18 DEF ScheduleBlocked, Evaluate, Done, Goto, kernel, outside
<1>19. CASE ScheduleDenied
  BY <1>19 DEF ScheduleDenied, Done, Goto, kernel, outside
<1>20. CASE EndEvaluation
  BY <1>20 DEF EndEvaluation, Done, Goto, kernel, outside
<1>21. CASE RetryAttempt
  <2>1. run' \in [Runs -> {"none", "running", "paused", "recovery_required", "completed"}]
    BY <1>21 DEF RetryAttempt
  <2>2. CASE run'[RunOf[cur.step]] # "running"
    BY <1>21, <2>1, <2>2 DEF RetryAttempt, Done, Goto, kernel, outside
  <2>3. CASE run'[RunOf[cur.step]] = "running"
    <3>1. tries' \in [Steps -> 0..MaxTries]
      BY <1>21, <2>3 DEF RetryAttempt, PlaceInv
    <3>2. PICK w \in AnyWorker(cur.step) : Goto("schedule", NoRun, cur.step, w)
      BY <1>21, <2>3 DEF RetryAttempt
    <3>3. w \in Workers /\ cur.step \in Steps
      BY <1>21, <3>2 DEF RetryAttempt, PlaceInv, AnyWorker
    <3>4. QED
      BY <1>21, <2>1, <2>3, <3>1, <3>2, <3>3 DEF RetryAttempt, Goto, kernel, outside
  <2>4. QED BY <2>2, <2>3
<1>22. CASE Crash
  BY <1>22 DEF Crash, Mishap, Done, Goto, kernel
<1>23. CASE UNCHANGED vars
  BY <1>23 DEF vars, kernel, outside
<1>24. QED
  BY <1>1, <1>2, <1>3, <1>4, <1>5, <1>6, <1>7, <1>8, <1>9, <1>10, <1>11,
     <1>12, <1>13, <1>14, <1>15, <1>16, <1>17, <1>18, <1>19, <1>20, <1>21,
     <1>22, <1>23 DEF Next, Evaluation, Environment

--------------------------------------------------------------------------
(* Where an evaluation stands *)

\* Choices, workers and budgets are those of the records; nothing else counts.
Records == <<run, since, attempt, profile, surface, live, authorized, now>>
LEMMA SameChoices ==
    ASSUME UNCHANGED Records
    PROVE  /\ \A s \in Steps : Compatible(s)' = Compatible(s)
           /\ \A ws \in Workspaces : Choices(ws)' = Choices(ws)
<1> USE DEF Records
<1>1. \A s \in Steps : Compatible(s)' = Compatible(s)
  BY DEF Compatible, Suits, Home
<1>2. \A ws \in Workspaces : WithinBudgets(ws)' = WithinBudgets(ws)
  BY DEF WithinBudgets, Locked, LockedFor, Home
<1>3. \A s \in Steps : Candidate(s)' = Candidate(s)
  BY DEF Candidate, Ready
<1>4. \A s \in Steps : EffectiveRank(s)' = EffectiveRank(s) /\ Bucket(s)' = Bucket(s)
  BY DEF EffectiveRank, Bucket, Least
<1>5. \A s, t \in Steps : Before(s, t)' = Before(s, t)
  BY <1>4 DEF Before
<1>6. \A s \in Steps : Eligible(s)' = Eligible(s)
  <2>1. \A s \in Steps : Home(s) \in Workspaces
    BY CapacityAssumption DEF Home
  <2>2. QED BY <1>1, <1>2, <1>3, <2>1 DEF Eligible, Home
<1>7. ASSUME NEW ws \in Workspaces PROVE Choices(ws)' = Choices(ws)
  <2> DEFINE E == {s \in Steps : Home(s) = ws /\ Eligible(s)}
  <2>1. E' = E
    BY <1>6 DEF Home
  <2>2. Choices(ws) = {s \in E : \A t \in E : ~Before(t, s)}
    BY DEF Choices
  <2>3. Choices(ws)' = {s \in E : \A t \in E : ~Before(t, s)'}
    BY <2>1 DEF Choices
  <2>4. E \subseteq Steps
    OBVIOUS
  <2> HIDE DEF E
  <2>5. QED BY <1>5, <2>2, <2>3, <2>4
<1>8. QED BY <1>1, <1>7

\* What was selected stays the first choice until its attempt exists.
LEMMA PlaceStep ==
    ASSUME TypeOK, PlaceInv, AdmittedInv, [Next]_vars PROVE PlaceInv'
<1> USE CapacityAssumption
<1>1. CASE Tick
  BY <1>1 DEF Tick, kernel, PlaceInv
<1>2. ASSUME NEW w \in Workers, WorkerChanges(w) PROVE PlaceInv'
  BY <1>2 DEF WorkerChanges, kernel, Mishap, PlaceInv
<1>3. ASSUME NEW ws \in Workspaces, RecordSchedulingPolicy(ws) PROVE PlaceInv'
  BY <1>3 DEF RecordSchedulingPolicy, kernel, PlaceInv
<1>4. ASSUME NEW r \in Runs, StartMission(r) PROVE PlaceInv'
  BY <1>4 DEF StartMission, Evaluate, Goto, kernel, outside, PlaceInv
<1>5. ASSUME NEW r \in Runs, PauseMission(r) PROVE PlaceInv'
  BY <1>5 DEF PauseMission, Mishap, kernel, outside, PlaceInv
<1>6. ASSUME NEW r \in Runs, ResumeMission(r) PROVE PlaceInv'
  BY <1>6 DEF ResumeMission, Evaluate, Goto, kernel, outside, PlaceInv
<1>7. ASSUME NEW s \in Steps, Finish(s) PROVE PlaceInv'
  BY <1>7 DEF Finish, Settle, Evaluate, Goto, PlaceInv
<1>8. ASSUME NEW s \in Steps, Reject(s) PROVE PlaceInv'
  BY <1>8 DEF Reject, Settle, Evaluate, Goto, PlaceInv
<1>9. ASSUME NEW s \in Steps, Fail(s) PROVE PlaceInv'
  BY <1>9 DEF Fail, Mishap, kernel, outside, PlaceInv
<1>10. ASSUME NEW s \in Steps, ReviewAttempt(s) PROVE PlaceInv'
  BY <1>10 DEF TypeOK, ReviewAttempt, Release, Goto, outside, PlaceInv
<1>11. ASSUME NEW s \in Steps, LoseAuthority(s) PROVE PlaceInv'
  BY <1>11 DEF LoseAuthority, Mishap, kernel, PlaceInv
<1>12. ASSUME NEW s \in Steps, StartUnscheduled(s) PROVE PlaceInv'
  <2>1. PICK w \in AnyWorker(s) : Goto("schedule", cur.run, s, w)
    BY <1>12 DEF StartUnscheduled
  <2>2. w \in Workers /\ s \notin admitted
    BY <1>12, <2>1 DEF TypeOK, AdmittedInv, StartUnscheduled, Ready, AnyWorker
  <2>3. QED
    BY <1>12, <2>1, <2>2 DEF TypeOK, PlaceInv, StartUnscheduled, Goto, kernel, outside
<1>13. ASSUME NEW s \in Steps, Decide(s) PROVE PlaceInv'
  <2>1. PICK w \in Compatible(s) : Propose(s, w)
    BY <1>13 DEF Decide
  <2>2. PICK r \in Runs : cur.run = r
    BY <1>13 DEF Decide, PlaceInv
  <2>3. s \in Choices(Of[r]) /\ Of[r] \in Workspaces
    BY <1>13, <2>2 DEF Decide
  <2>4. UNCHANGED Records
    BY <1>13 DEF Decide, Records, kernel, outside
  <2>5. at' = "revalidate" /\ cur'.run = r /\ cur'.step = s /\ cur'.worker = w
    BY <2>1, <2>2 DEF Propose, Goto
  <2>6. s \in Choices(Of[r])' /\ w \in Compatible(s)'
    BY <2>1, <2>3, <2>4, SameChoices
  <2>7. QED BY <2>5, <2>6 DEF PlaceInv
<1>14. CASE Accept
  <2>1. UNCHANGED Records
    BY <1>14 DEF Accept, Records, kernel, outside
  <2>2. PICK r \in Runs, s \in Steps, w \in Workers :
          /\ cur.run = r /\ cur.step = s /\ cur.worker = w
          /\ s \in Choices(Of[r]) /\ w \in Compatible(s)
    BY <1>14 DEF Accept, PlaceInv, Choices, Compatible, TypeOK
  <2>3. \/ at' = "create" /\ cur'.run = r /\ cur'.step = s /\ cur'.worker = w
        \/ at' = "end" /\ cur'.run = r
    BY <1>14, <2>2 DEF Accept, Goto
  <2>4. s \in Choices(Of[r])' /\ w \in Compatible(s)'
    BY <2>1, <2>2, SameChoices
  <2>5. QED BY <2>3, <2>4 DEF PlaceInv
<1>15. CASE CreateAttempt
  <2>1. PICK s \in Steps, w \in Workers :
          /\ cur.step = s /\ cur.worker = w
          /\ Eligible(s) /\ w \in Compatible(s)
    BY <1>15 DEF CreateAttempt, PlaceInv, Choices, Compatible, TypeOK
  <2>2. WithinBudgets(Home(s)) /\ Free(s, w)
    BY <2>1 DEF Eligible, Compatible, Suits, Free
  <2>3. UNCHANGED <<profile, surface>>
    BY <1>15 DEF CreateAttempt, kernel
  <2>4. WithinBudgets(Home(s))' /\ Free(s, w)'
    BY <2>2, <2>3 DEF WithinBudgets, Locked, LockedFor, Home, Free
  <2>5. at' = "schedule" /\ cur'.step = s /\ cur'.worker = w
    BY <1>15, <2>1 DEF CreateAttempt, Goto
  <2>6. attempt'[s] = "ready"
    BY <1>15, <2>1 DEF TypeOK, CreateAttempt
  <2>7. QED BY <2>4, <2>5, <2>6 DEF PlaceInv
<1>16. CASE ExecuteLocal
  <2>1. \/ at' = "idle"
        \/ at' = "evaluate" /\ cur'.run \in Runs
    BY <1>16 DEF TypeOK, ExecuteLocal, Evaluate, Done, Goto
  <2>2. QED BY <2>1 DEF PlaceInv
<1>17. CASE ScheduleReserved
  <2>1. \/ at' = "idle"
        \/ at' = "evaluate" /\ cur'.run \in Runs
    BY <1>17 DEF TypeOK, ScheduleReserved, Evaluate, Done, Goto
  <2>2. QED BY <2>1 DEF PlaceInv
<1>18. CASE ScheduleBlocked
  <2>1. \/ at' = "idle"
        \/ at' = "evaluate" /\ cur'.run \in Runs
    BY <1>18 DEF TypeOK, ScheduleBlocked, Evaluate, Done, Goto
  <2>2. QED BY <2>1 DEF PlaceInv
<1>19. CASE ScheduleDenied
  BY <1>19 DEF ScheduleDenied, Done, Goto, kernel, outside, PlaceInv
<1>20. CASE EndEvaluation
  BY <1>20 DEF EndEvaluation, Done, Goto, kernel, outside, PlaceInv
<1>21. CASE RetryAttempt
  <2>1. CASE run'[RunOf[cur.step]] # "running"
    BY <1>21, <2>1 DEF RetryAttempt, Done, Goto, PlaceInv
  <2>2. CASE run'[RunOf[cur.step]] = "running"
    <3>1. PICK w \in AnyWorker(cur.step) : Goto("schedule", NoRun, cur.step, w)
      BY <1>21, <2>2 DEF RetryAttempt
    <3>2. w \in Workers /\ cur.step \in Steps
      BY <1>21, <3>1 DEF RetryAttempt, PlaceInv, AnyWorker
    <3>3. attempt'[cur.step] = "ready" /\ cur.step \notin admitted'
      BY <1>21, <2>2, <3>2 DEF TypeOK, RetryAttempt
    <3>4. QED BY <3>1, <3>2, <3>3 DEF Goto, PlaceInv
  <2>3. QED BY <2>1, <2>2
<1>22. CASE Crash
  BY <1>22 DEF Crash, Mishap, Done, Goto, kernel, PlaceInv
<1>23. CASE UNCHANGED vars
  <2>1. UNCHANGED Records
    BY <1>23 DEF vars, kernel, outside, Records
  <2>2. UNCHANGED <<at, cur, attempt, tries, profile, surface, admitted>>
    BY <1>23 DEF vars, kernel
  <2>3. ASSUME at' \in {"revalidate", "create"}
        PROVE  (cur.step \in Choices(Of[cur.run]) /\ cur.worker \in Compatible(cur.step))'
    <3>1. PICK r \in Runs, s \in Steps, w \in Workers :
            /\ cur.run = r /\ cur.step = s /\ cur.worker = w
            /\ s \in Choices(Of[r]) /\ w \in Compatible(s)
      BY <2>2, <2>3 DEF PlaceInv, Choices, Compatible, TypeOK
    <3>2. s \in Choices(Of[r])' /\ w \in Compatible(s)'
      BY <2>1, <3>1, SameChoices
    <3>3. cur'.run = r /\ cur'.step = s /\ cur'.worker = w
      BY <2>2, <3>1
    <3>4. QED BY <3>2, <3>3
  <2>4. ASSUME at' = "schedule", (cur.step \in admitted)'
        PROVE  (WithinBudgets(Home(cur.step)) /\ Free(cur.step, cur.worker))'
    <3>1. WithinBudgets(Home(cur.step)) /\ Free(cur.step, cur.worker)
      BY <2>2, <2>4 DEF PlaceInv
    <3>2. QED
      BY <2>2, <3>1 DEF WithinBudgets, Locked, LockedFor, Home, Free
  <2>5. QED
    BY <2>2, <2>3, <2>4 DEF PlaceInv
<1>24. QED
  BY <1>1, <1>2, <1>3, <1>4, <1>5, <1>6, <1>7, <1>8, <1>9, <1>10, <1>11,
     <1>12, <1>13, <1>14, <1>15, <1>16, <1>17, <1>18, <1>19, <1>20, <1>21,
     <1>22, <1>23 DEF Next, Evaluation, Environment

--------------------------------------------------------------------------
(* Who holds a profile, and whom the scheduler admitted *)

\* A profile is held by attempts that wait, and an admitted attempt is never
\* blocked: what was free when it was selected is free when it is scheduled.
LEMMA HolderStep ==
    ASSUME TypeOK, PlaceInv, HolderInv, AdmittedInv, [Next]_vars PROVE (HolderInv /\ AdmittedInv)'
<1> USE CapacityAssumption DEF TypeOK, HolderInv, AdmittedInv
<1>1. CASE Tick
  BY <1>1 DEF Tick, kernel
<1>2. ASSUME NEW w \in Workers, WorkerChanges(w) PROVE (HolderInv /\ AdmittedInv)'
  BY <1>2 DEF WorkerChanges, kernel, Mishap
<1>3. ASSUME NEW ws \in Workspaces, RecordSchedulingPolicy(ws) PROVE (HolderInv /\ AdmittedInv)'
  BY <1>3 DEF RecordSchedulingPolicy, kernel
<1>4. ASSUME NEW r \in Runs, StartMission(r) PROVE (HolderInv /\ AdmittedInv)'
  BY <1>4 DEF StartMission, Evaluate, Goto, kernel, outside
<1>5. ASSUME NEW r \in Runs, PauseMission(r) PROVE (HolderInv /\ AdmittedInv)'
  BY <1>5 DEF PauseMission, Mishap, kernel, outside
<1>6. ASSUME NEW r \in Runs, ResumeMission(r) PROVE (HolderInv /\ AdmittedInv)'
  BY <1>6 DEF ResumeMission, Evaluate, Goto, kernel, outside
<1>7. ASSUME NEW s \in Steps, Finish(s) PROVE (HolderInv /\ AdmittedInv)'
  BY <1>7 DEF Finish, Settle, Release, Evaluate, Goto, outside
<1>8. ASSUME NEW s \in Steps, Reject(s) PROVE (HolderInv /\ AdmittedInv)'
  BY <1>8 DEF Reject, Settle, Release, Evaluate, Goto, Mishap, outside
<1>9. ASSUME NEW s \in Steps, Fail(s) PROVE (HolderInv /\ AdmittedInv)'
  BY <1>9 DEF Fail, Mishap, kernel, outside
<1>10. ASSUME NEW s \in Steps, ReviewAttempt(s) PROVE (HolderInv /\ AdmittedInv)'
  BY <1>10 DEF ReviewAttempt, Release, Goto, outside
<1>11. ASSUME NEW s \in Steps, LoseAuthority(s) PROVE (HolderInv /\ AdmittedInv)'
  BY <1>11 DEF LoseAuthority, Mishap, kernel
<1>12. ASSUME NEW s \in Steps, StartUnscheduled(s) PROVE (HolderInv /\ AdmittedInv)'
  BY <1>12 DEF StartUnscheduled, Ready, AnyWorker, Home, Goto, kernel, outside
<1>13. ASSUME NEW s \in Steps, Decide(s) PROVE (HolderInv /\ AdmittedInv)'
  BY <1>13 DEF Decide, Propose, Goto, kernel, outside
<1>14. CASE Accept
  BY <1>14 DEF Accept, Goto, kernel, outside
<1>15. CASE CreateAttempt
  <2>1. cur.step \in Steps /\ attempt[cur.step] = "none"
    BY <1>15 DEF CreateAttempt, PlaceInv, Choices, Eligible, Candidate, Ready
  <2>2. QED
    BY <1>15, <2>1 DEF CreateAttempt, kernel
<1>16. CASE ExecuteLocal
  BY <1>16 DEF ExecuteLocal, Evaluate, Done, Goto, kernel, outside, PlaceInv
<1>17. CASE ScheduleReserved
  <2>1. cur.step \in Steps /\ cur.worker \in Workers /\ attempt[cur.step] = "ready"
    BY <1>17 DEF ScheduleReserved, PlaceInv
  <2>2. /\ attempt' = [attempt EXCEPT ![cur.step] = "waiting_human"]
        /\ profile' = [profile EXCEPT ![cur.worker] = cur.step]
        /\ admitted' = admitted
    BY <1>17 DEF ScheduleReserved
  <2>3. QED
    BY <2>1, <2>2
<1>18. CASE ScheduleBlocked
  BY <1>18 DEF ScheduleBlocked, Evaluate, Done, Goto, kernel, outside, PlaceInv
<1>19. CASE ScheduleDenied
  BY <1>19 DEF ScheduleDenied, Done, Goto, kernel, outside
<1>20. CASE EndEvaluation
  BY <1>20 DEF EndEvaluation, Done, Goto, kernel, outside
<1>21. CASE RetryAttempt
  BY <1>21 DEF RetryAttempt, AnyWorker, Home, Done, Goto, kernel, outside, PlaceInv
<1>22. CASE Crash
  BY <1>22 DEF Crash, Mishap, Done, Goto, kernel
<1>23. CASE UNCHANGED vars
  BY <1>23 DEF vars, kernel
<1>24. QED
  BY <1>1, <1>2, <1>3, <1>4, <1>5, <1>6, <1>7, <1>8, <1>9, <1>10, <1>11,
     <1>12, <1>13, <1>14, <1>15, <1>16, <1>17, <1>18, <1>19, <1>20, <1>21,
     <1>22, <1>23 DEF Next, Evaluation, Environment

--------------------------------------------------------------------------
(* The budgets *)

\* Everything the scheduler admitted that holds a profile now.
AllAdmitted == UNION {AdmittedFor(ws) : ws \in Workspaces}

\* The widest global budget is one of them, and the rest fit in it.
LEMMA WidestIsWidest ==
    WidestBudget \in Nat /\ \A ws \in Workspaces : GlobalMax[ws] <= WidestBudget
<1>1. \E n \in {GlobalMax[ws] : ws \in Workspaces} : \A ws \in Workspaces : GlobalMax[ws] <= n
  BY CapacityAssumption
<1>2. /\ WidestBudget \in {GlobalMax[ws] : ws \in Workspaces}
      /\ \A ws \in Workspaces : GlobalMax[ws] <= WidestBudget
  BY <1>1 DEF WidestBudget
<1>3. QED BY <1>2, CapacityAssumption

\* A step that puts no admitted attempt on a profile keeps within the budgets.
LEMMA NothingNew ==
    ASSUME TypeOK, TypeOK', BudgetsHold,
           \A w \in Workers : profile'[w] # NoStep /\ profile'[w] \in admitted' =>
              profile[w] = profile'[w] /\ profile'[w] \in admitted
    PROVE  BudgetsHold'
<1> USE CapacityAssumption
<1>1. ASSUME NEW ws \in Workspaces PROVE Cardinality(AdmittedFor(ws)') <= WorkspaceMax[ws]
  <2>1. AdmittedFor(ws)' \subseteq AdmittedFor(ws) /\ AdmittedFor(ws) \subseteq Workers
    BY DEF AdmittedFor, LockedFor, Locked, Home
  <2>2. IsFiniteSet(AdmittedFor(ws))
    BY <2>1, FS_Subset
  <2>3. /\ IsFiniteSet(AdmittedFor(ws)')
        /\ Cardinality(AdmittedFor(ws)') <= Cardinality(AdmittedFor(ws))
    BY <2>1, <2>2, FS_Subset
  <2>4. Cardinality(AdmittedFor(ws)) \in Nat /\ Cardinality(AdmittedFor(ws)') \in Nat
    BY <2>2, <2>3, FS_CardinalityType
  <2>5. QED BY <2>3, <2>4 DEF BudgetsHold
<1>2. Cardinality(AllAdmitted') <= WidestBudget
  <2>1. AllAdmitted' \subseteq AllAdmitted /\ AllAdmitted \subseteq Workers
    BY DEF AllAdmitted, AdmittedFor, LockedFor, Locked, Home
  <2>2. IsFiniteSet(AllAdmitted)
    BY <2>1, FS_Subset
  <2>3. IsFiniteSet(AllAdmitted') /\ Cardinality(AllAdmitted') <= Cardinality(AllAdmitted)
    BY <2>1, <2>2, FS_Subset
  <2>4. Cardinality(AllAdmitted) \in Nat /\ Cardinality(AllAdmitted') \in Nat
    BY <2>2, <2>3, FS_CardinalityType
  <2>5. QED BY <2>3, <2>4, WidestIsWidest DEF BudgetsHold, AllAdmitted
<1>3. WidestBudget' = WidestBudget
  BY DEF WidestBudget
<1>4. QED BY <1>1, <1>2, <1>3 DEF BudgetsHold, AllAdmitted

\* The admitted attempt that takes its profile still fits its workspace's
\* budget and the global one.
LEMMA OneMore ==
    ASSUME TypeOK, PlaceInv, BudgetsHold, ScheduleReserved PROVE BudgetsHold'
<1> USE CapacityAssumption
<1>1. PICK s \in Steps, k \in Workers :
        /\ cur.step = s /\ cur.worker = k
        /\ s \in admitted => WithinBudgets(Home(s))
        /\ profile' = [profile EXCEPT ![k] = s] /\ admitted' = admitted
        /\ profile[k] = NoStep
  BY DEF ScheduleReserved, PlaceInv, Free
<1>2. CASE s \notin admitted
  <2>1. \A w \in Workers : profile'[w] # NoStep /\ profile'[w] \in admitted' =>
              profile[w] = profile'[w] /\ profile'[w] \in admitted
    BY <1>1, <1>2 DEF TypeOK
  <2>2. TypeOK'
    BY TypeStep DEF Next, Evaluation
  <2>3. QED BY <2>1, <2>2, NothingNew
<1>3. CASE s \in admitted
  <2>1. Home(s) \in Workspaces
    BY DEF Home
  <2>2. /\ Cardinality(Locked) < GlobalMax[Home(s)]
        /\ Cardinality(LockedFor(Home(s))) < WorkspaceMax[Home(s)]
    BY <1>1, <1>3 DEF WithinBudgets
  <2>3. ASSUME NEW S, S \subseteq Workers
        PROVE  /\ IsFiniteSet(S) /\ Cardinality(S) \in Nat
               /\ IsFiniteSet(S \cup {k}) /\ Cardinality(S \cup {k}) \in Nat
               /\ Cardinality(S \cup {k}) <= Cardinality(S) + 1
    <3>1. IsFiniteSet(S) /\ Cardinality(S) \in Nat
      BY <2>3, FS_Subset, FS_CardinalityType
    <3>2. /\ IsFiniteSet(S \cup {k})
          /\ Cardinality(S \cup {k}) = IF k \in S THEN Cardinality(S) ELSE Cardinality(S) + 1
      BY <3>1, FS_AddElement
    <3>3. QED BY <3>1, <3>2
  <2>4. ASSUME NEW ws \in Workspaces PROVE Cardinality(AdmittedFor(ws)') <= WorkspaceMax[ws]
    <3>1. CASE ws = Home(s)
      <4>1. AdmittedFor(ws)' \subseteq LockedFor(ws) \cup {k} /\ LockedFor(ws) \subseteq Workers
        BY <1>1, <3>1 DEF TypeOK, AdmittedFor, LockedFor, Locked, Home
      <4>2. /\ IsFiniteSet(LockedFor(ws) \cup {k}) /\ Cardinality(LockedFor(ws)) \in Nat
            /\ Cardinality(LockedFor(ws) \cup {k}) \in Nat
            /\ Cardinality(LockedFor(ws) \cup {k}) <= Cardinality(LockedFor(ws)) + 1
        BY <2>3, <4>1
      <4>3. /\ Cardinality(AdmittedFor(ws)') <= Cardinality(LockedFor(ws) \cup {k})
            /\ Cardinality(AdmittedFor(ws)') \in Nat
        BY <4>1, <4>2, FS_Subset, FS_CardinalityType
      <4>4. QED BY <2>2, <3>1, <4>2, <4>3
    <3>2. CASE ws # Home(s)
      <4>1. AdmittedFor(ws)' \subseteq AdmittedFor(ws) /\ AdmittedFor(ws) \subseteq Workers
        BY <1>1, <3>2 DEF TypeOK, AdmittedFor, LockedFor, Locked, Home
      <4>2. IsFiniteSet(AdmittedFor(ws)) /\ Cardinality(AdmittedFor(ws)) \in Nat
        BY <2>3, <4>1
      <4>3. /\ Cardinality(AdmittedFor(ws)') <= Cardinality(AdmittedFor(ws))
            /\ Cardinality(AdmittedFor(ws)') \in Nat
        BY <4>1, <4>2, FS_Subset, FS_CardinalityType
      <4>4. QED BY <4>2, <4>3 DEF BudgetsHold
    <3>3. QED BY <3>1, <3>2
  <2>5. Cardinality(AllAdmitted') <= WidestBudget
    <3>1. AllAdmitted' \subseteq Locked \cup {k} /\ Locked \subseteq Workers
      BY <1>1 DEF TypeOK, AllAdmitted, AdmittedFor, LockedFor, Locked
    <3>2. /\ IsFiniteSet(Locked \cup {k}) /\ Cardinality(Locked) \in Nat
          /\ Cardinality(Locked \cup {k}) \in Nat
          /\ Cardinality(Locked \cup {k}) <= Cardinality(Locked) + 1
      BY <2>3, <3>1
    <3>3. /\ Cardinality(AllAdmitted') <= Cardinality(Locked \cup {k})
          /\ Cardinality(AllAdmitted') \in Nat
      BY <3>1, <3>2, FS_Subset, FS_CardinalityType
    <3>4. QED BY <2>1, <2>2, <3>2, <3>3, WidestIsWidest
  <2>6. WidestBudget' = WidestBudget
    BY DEF WidestBudget
  <2>7. QED BY <2>4, <2>5, <2>6 DEF BudgetsHold, AllAdmitted
<1>4. QED BY <1>2, <1>3

\* Only a reservation puts anybody on a profile, and only CreateAttempt admits.
LEMMA BudgetStep ==
    ASSUME TypeOK, PlaceInv, HolderInv, BudgetsHold, [Next]_vars PROVE BudgetsHold'
<1>1. CASE ScheduleReserved
  BY <1>1, OneMore
<1>2. CASE CreateAttempt
  <2>1. cur.step \in Steps /\ attempt[cur.step] = "none"
    BY <1>2 DEF CreateAttempt, PlaceInv, Choices, Eligible, Candidate, Ready
  <2>2. \A w \in Workers : profile[w] # NoStep => profile[w] # cur.step
    BY <2>1 DEF HolderInv
  <2>3. QED
    BY <1>2, <2>2, TypeStep, NothingNew DEF CreateAttempt, kernel
<1>3. CASE ~ScheduleReserved /\ ~CreateAttempt
  <2>1. admitted' \subseteq admitted
    BY <1>3 DEF Next, Evaluation, Environment, StartUnscheduled, Decide, Accept, ExecuteLocal,
                ScheduleBlocked, ScheduleDenied, EndEvaluation, RetryAttempt, Tick, WorkerChanges,
                RecordSchedulingPolicy, StartMission, PauseMission, ResumeMission, Finish, Reject,
                Settle, Fail, ReviewAttempt, LoseAuthority, Crash, vars
  <2>2. profile' = profile \/ \E s \in Steps : Release(s)
    BY <1>3 DEF Next, Evaluation, Environment, StartUnscheduled, Decide, Accept, ExecuteLocal,
                ScheduleBlocked, ScheduleDenied, EndEvaluation, RetryAttempt, Tick, WorkerChanges,
                RecordSchedulingPolicy, StartMission, PauseMission, ResumeMission, Finish, Reject,
                Settle, Fail, ReviewAttempt, LoseAuthority, Crash, vars, kernel
  <2>3. \A w \in Workers : profile'[w] # NoStep => profile'[w] = profile[w]
    BY <2>2 DEF Release
  <2>4. QED
    BY <2>1, <2>3, TypeStep, NothingNew
<1>4. QED BY <1>1, <1>2, <1>3

--------------------------------------------------------------------------
(* The theorems *)

\* What an evaluation has selected, who holds profiles and whom the scheduler
\* admitted agree with the records at every instant, a crash between any two
\* saves included.
THEOREM CapacityInvariant == Spec => []CapacityInv
<1>1. Init => CapacityInv
  <2> SUFFICES ASSUME Init PROVE CapacityInv
    OBVIOUS
  <2> USE CapacityAssumption DEF Init
  <2>1. TypeOK
    BY DEF TypeOK
  <2>2. PlaceInv /\ HolderInv /\ AdmittedInv
    BY DEF PlaceInv, HolderInv, AdmittedInv
  <2>3. BudgetsHold
    <3>1. \A ws \in Workspaces : AdmittedFor(ws) = {}
      BY DEF AdmittedFor, LockedFor, Locked
    <3>2. AllAdmitted = {}
      BY <3>1 DEF AllAdmitted
    <3>3. Cardinality({}) = 0
      BY FS_EmptySet
    <3>4. \A ws \in Workspaces : Cardinality(AdmittedFor(ws)) <= WorkspaceMax[ws]
      <4> SUFFICES ASSUME NEW ws \in Workspaces
                   PROVE  Cardinality(AdmittedFor(ws)) <= WorkspaceMax[ws]
        OBVIOUS
      <4>1. Cardinality(AdmittedFor(ws)) = 0
        BY <3>1, <3>3
      <4>2. WorkspaceMax[ws] \in Nat
        OBVIOUS
      <4>3. QED BY <4>1, <4>2
    <3>5. Cardinality(AllAdmitted) <= WidestBudget
      BY <3>2, <3>3, WidestIsWidest
    <3>6. QED BY <3>4, <3>5 DEF BudgetsHold, AllAdmitted
  <2>4. QED BY <2>1, <2>2, <2>3 DEF CapacityInv
<1>2. CapacityInv /\ [Next]_vars => CapacityInv'
  BY TypeStep, PlaceStep, HolderStep, BudgetStep DEF CapacityInv
<1>3. QED BY <1>1, <1>2, PTL DEF Spec

\* The caps of the policies hold for what the scheduler admits, whatever
\* retries, missions without a policy and other workspaces do in between.
THEOREM BudgetsHoldAlways == Spec => []BudgetsHold
<1>1. CapacityInv => BudgetsHold
  BY DEF CapacityInv
<1>2. QED BY <1>1, CapacityInvariant, PTL

\* The lock table never turns down what the scheduler admitted.
THEOREM AdmissionIsNeverBlockedHolds == Spec => []AdmissionIsNeverBlocked
<1>1. CapacityInv => AdmissionIsNeverBlocked
  BY DEF CapacityInv, AdmittedInv, AdmissionIsNeverBlocked
<1>2. QED BY <1>1, CapacityInvariant, PTL

\* A candidate whose boost makes up for its priority ranks before every step
\* of a younger age bucket.
LEMMA AgedComesFirst ==
    ASSUME TypeOK, NEW s \in Steps, NEW t \in Steps, Aged(t), Bucket(t) > Bucket(s)
    PROVE  Before(t, s)
<1> USE CapacityAssumption
<1>1. \A x \in Steps : Bucket(x) \in Int /\ Rank[x] \in Nat
  BY DEF TypeOK, Bucket
<1>2. EffectiveRank(t) = 0
  BY <1>1 DEF EffectiveRank, Least, Aged
<1>3. EffectiveRank(s) \in Int /\ EffectiveRank(s) >= 0
  BY <1>1 DEF EffectiveRank, Least
<1>4. QED BY <1>2, <1>3 DEF Before

\* Bounded aging: a candidate whose boost makes up for its priority is not
\* overtaken by a step whose mission started an interval or more later.
THEOREM AgedNotOvertakenHolds == Spec => AgedNotOvertaken
<1>1. ASSUME CapacityInv, [Next]_vars, NEW s \in Steps, NEW t \in Steps,
             s \in admitted' \ admitted, Home(t) = Home(s), Aged(t), Bucket(t) > Bucket(s)
      PROVE  ~Eligible(t)
  <2>1. CreateAttempt /\ s = cur.step
    BY <1>1 DEF Next, Evaluation, Environment, StartUnscheduled, Decide, Accept, CreateAttempt,
                ExecuteLocal, ScheduleReserved, ScheduleBlocked, ScheduleDenied, EndEvaluation,
                RetryAttempt, Tick, WorkerChanges, RecordSchedulingPolicy, StartMission,
                PauseMission, ResumeMission, Finish, Reject, Settle, Fail, ReviewAttempt,
                LoseAuthority, Crash, vars
  <2>2. s \in Choices(Of[cur.run])
    BY <1>1, <2>1 DEF CapacityInv, PlaceInv, CreateAttempt
  <2>3. Before(t, s)
    BY <1>1, AgedComesFirst DEF CapacityInv
  <2>4. QED BY <1>1, <2>2, <2>3 DEF Choices
<1>2. CapacityInv /\ [Next]_vars =>
        [\A s, t \in Steps :
            /\ s \in admitted' \ admitted
            /\ Home(t) = Home(s) /\ Aged(t) /\ Bucket(t) > Bucket(s)
            => ~Eligible(t)]_vars
  BY <1>1
<1>3. QED BY <1>2, CapacityInvariant, PTL DEF Spec, AgedNotOvertaken
==========================================================================
