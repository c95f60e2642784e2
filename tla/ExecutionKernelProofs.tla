---------------------- MODULE ExecutionKernelProofs ----------------------
(***************************************************************************)
(* Proofs about the S1 execution kernel, for any tasks, resources and      *)
(* number of crashes: types, the inductive invariant KernelInv, the safety *)
(* properties that follow from it, and the refinement of                   *)
(* SupervisedExecution.  Each preservation lemma has one step per action.  *)
(***************************************************************************)
EXTENDS ExecutionKernelProperties, TLAPS

USE KernelAssumption DEF Idle, At, Goto, Done, Quiet, Set, durable, log
--------------------------------------------------------------------------
(* Types *)

\* No command, crash or restart takes a record out of its states, and a
\* command in progress always has a task: the steps of
\* S1ApplicationService and ExecutionCoordinator write what they should.
THEOREM TypeCorrect == Spec => []TypeOK
<1> USE DEF TypeOK, RunState, RecoveryReason, GateState, TaskState, ExecState, Step
<1>1. Init => TypeOK
  BY DEF Init
<1>2. TypeOK /\ [Next]_vars => TypeOK'
  <2> SUFFICES ASSUME TypeOK, [Next]_vars PROVE TypeOK'
    OBVIOUS
  <2>1. ASSUME NEW t \in Tasks, CreateTask(t) PROVE TypeOK'
    BY <2>1 DEF CreateTask
  <2>2. ASSUME NEW t \in Tasks, RejectGate(t) PROVE TypeOK'
    BY <2>2 DEF RejectGate
  <2>3. ASSUME NEW t \in Tasks, RejectAgain(t) PROVE TypeOK'
    BY <2>3 DEF RejectAgain
  <2>4. ASSUME NEW t \in Tasks, ApproveGate(t) PROVE TypeOK'
    BY <2>4 DEF ApproveGate
  <2>5. ASSUME NEW t \in Tasks, ApproveRefused(t) PROVE TypeOK'
    BY <2>5 DEF ApproveRefused
  <2>6. ASSUME NEW t \in Tasks, ApproveObserved(t) PROVE TypeOK'
    BY <2>6 DEF ApproveObserved
  <2>7. ASSUME NEW t \in Tasks, ReviewRelease(t) PROVE TypeOK'
    BY <2>7 DEF ReviewRelease, ReleasedBy, HoldsSome
  <2>8. ASSUME NEW t \in Tasks, RequestBlocked(t) PROVE TypeOK'
    BY <2>8 DEF RequestBlocked
  <2>9. ASSUME NEW t \in Tasks, RequestReady(t) PROVE TypeOK'
    BY <2>9 DEF RequestReady, Acquired
  <2>10. ASSUME NEW t \in Tasks, RecordReservation(t) PROVE TypeOK'
    BY <2>10 DEF RecordReservation
  <2>11. ASSUME NEW t \in Tasks, RequestGate(t) PROVE TypeOK'
    BY <2>11 DEF RequestGate
  <2>12. ASSUME NEW t \in Tasks, LinkTask(t) PROVE TypeOK'
    BY <2>12 DEF LinkTask
  <2>13. ASSUME NEW t \in Tasks, RejectRun(t) PROVE TypeOK'
    BY <2>13 DEF RejectRun, ReleasedBy
  <2>14. ASSUME NEW t \in Tasks, RecordRejectRelease(t) PROVE TypeOK'
    BY <2>14 DEF RecordRejectRelease
  <2>15. ASSUME NEW t \in Tasks, CancelTask(t) PROVE TypeOK'
    BY <2>15 DEF CancelTask
  <2>16. ASSUME NEW t \in Tasks, RecordStart(t) PROVE TypeOK'
    BY <2>16 DEF RecordStart
  <2>17. ASSUME NEW t \in Tasks, Activate(t) PROVE TypeOK'
    BY <2>17 DEF Activate
  <2>18. ASSUME NEW t \in Tasks, ReleaseLocks(t) PROVE TypeOK'
    BY <2>18 DEF ReleaseLocks, ReleasedBy
  <2>19. ASSUME NEW t \in Tasks, ObserveTask(t) PROVE TypeOK'
    BY <2>19 DEF ObserveTask
  <2>20. ASSUME NEW t \in Tasks, RecordEvidence(t) PROVE TypeOK'
    BY <2>20 DEF RecordEvidence
  <2>21. ASSUME NEW t \in Tasks, MarkTaskForReview(t) PROVE TypeOK'
    BY <2>21 DEF MarkTaskForReview
  <2>22. ASSUME NEW t \in Tasks, SupersedeRun(t) PROVE TypeOK'
    BY <2>22 DEF SupersedeRun
  <2>23. ASSUME NEW t \in Tasks, SupersedeTask(t) PROVE TypeOK'
    BY <2>23 DEF SupersedeTask
  <2>24. ASSUME NEW t \in Tasks, RecoverRun(t) PROVE TypeOK'
    BY <2>24 DEF RecoverRun
  <2>25. ASSUME NEW t \in Tasks, RecoverTask(t) PROVE TypeOK'
    BY <2>25 DEF RecoverTask
  <2>26. ASSUME NEW t \in Tasks, Submit(t) PROVE TypeOK'
    BY <2>26 DEF Submit
  <2>27. ASSUME NEW t \in Tasks, ResultObserved(t) PROVE TypeOK'
    BY <2>27 DEF ResultObserved
  <2>28. ASSUME NEW t \in Tasks, ExecutionFails(t) PROVE TypeOK'
    BY <2>28 DEF ExecutionFails
  <2>29. CASE Crash
    <3>1. crashes' \in 0..MaxCrashes
      BY <2>29 DEF Crash
    <3>2. QED
      BY <2>29, <3>1 DEF Crash
  <2>30. CASE Restart
    <3>1. owner' \in [Resources -> Tasks \cup {NoTask}]
      BY <2>30 DEF Restart, LoggedHolders
    <3>2. QED
      BY <2>30, <3>1 DEF Restart
  <2>31. CASE FinishRestart
    BY <2>31 DEF FinishRestart
  <2>32. CASE UNCHANGED vars
    BY <2>32 DEF vars, memory
  <2>33. QED
    BY <2>1, <2>2, <2>3, <2>4, <2>5, <2>6, <2>7, <2>8, <2>9, <2>10,
       <2>11, <2>12, <2>13, <2>14, <2>15, <2>16, <2>17, <2>18, <2>19,
       <2>20, <2>21, <2>22, <2>23, <2>24, <2>25, <2>26, <2>27, <2>28,
       <2>29, <2>30, <2>31, <2>32
       DEF Next, Operator, Continue, Settle
<1>3. QED
  BY <1>1, <1>2, PTL DEF Spec
--------------------------------------------------------------------------
(* The inductive invariant *)

\* What a command's next step relies on is established by the step before
\* it and disturbed by nothing in between, an awaited submission included.
LEMMA StepInvKept ==
  ASSUME TypeOK, KernelInv, [Next]_vars PROVE StepInv'
<1> USE DEF TypeOK, KernelInv, StepInv, RecordInv, ExecInv, HoldsAll, HoldsSome
<1>1. ASSUME NEW t \in Tasks, CreateTask(t) PROVE StepInv'
  BY <1>1 DEF CreateTask
<1>2. ASSUME NEW t \in Tasks, RejectGate(t) PROVE StepInv'
  BY <1>2 DEF RejectGate
<1>3. ASSUME NEW t \in Tasks, RejectAgain(t) PROVE StepInv'
  BY <1>3 DEF RejectAgain
<1>4. ASSUME NEW t \in Tasks, ApproveGate(t) PROVE StepInv'
  BY <1>4 DEF ApproveGate, Approvable
<1>5. ASSUME NEW t \in Tasks, ApproveRefused(t) PROVE StepInv'
  BY <1>5 DEF ApproveRefused
<1>6. ASSUME NEW t \in Tasks, ApproveObserved(t) PROVE StepInv'
  BY <1>6 DEF ApproveObserved
<1>7. ASSUME NEW t \in Tasks, ReviewRelease(t) PROVE StepInv'
  BY <1>7 DEF ReviewRelease, ReleasedBy, LockInv, LoggedHolders
<1>8. ASSUME NEW t \in Tasks, RequestBlocked(t) PROVE StepInv'
  BY <1>8 DEF RequestBlocked
<1>9. ASSUME NEW t \in Tasks, RequestReady(t) PROVE StepInv'
  BY <1>9 DEF RequestReady, Acquired
<1>10. ASSUME NEW t \in Tasks, RecordReservation(t) PROVE StepInv'
  BY <1>10 DEF RecordReservation
<1>11. ASSUME NEW t \in Tasks, RequestGate(t) PROVE StepInv'
  BY <1>11 DEF RequestGate
<1>12. ASSUME NEW t \in Tasks, LinkTask(t) PROVE StepInv'
  BY <1>12 DEF LinkTask
<1>13. ASSUME NEW t \in Tasks, RejectRun(t) PROVE StepInv'
  BY <1>13 DEF RejectRun
<1>14. ASSUME NEW t \in Tasks, RecordRejectRelease(t) PROVE StepInv'
  BY <1>14 DEF RecordRejectRelease
<1>15. ASSUME NEW t \in Tasks, CancelTask(t) PROVE StepInv'
  BY <1>15 DEF CancelTask
<1>16. ASSUME NEW t \in Tasks, RecordStart(t) PROVE StepInv'
  BY <1>16 DEF RecordStart
<1>17. ASSUME NEW t \in Tasks, Activate(t) PROVE StepInv'
  BY <1>17 DEF Activate
<1>18. ASSUME NEW t \in Tasks, ReleaseLocks(t) PROVE StepInv'
  BY <1>18 DEF ReleaseLocks
<1>19. ASSUME NEW t \in Tasks, ObserveTask(t) PROVE StepInv'
  BY <1>19 DEF ObserveTask
<1>20. ASSUME NEW t \in Tasks, RecordEvidence(t) PROVE StepInv'
  BY <1>20 DEF RecordEvidence
<1>21. ASSUME NEW t \in Tasks, MarkTaskForReview(t) PROVE StepInv'
  BY <1>21 DEF MarkTaskForReview
<1>22. ASSUME NEW t \in Tasks, SupersedeRun(t) PROVE StepInv'
  BY <1>22 DEF SupersedeRun
<1>23. ASSUME NEW t \in Tasks, SupersedeTask(t) PROVE StepInv'
  BY <1>23 DEF SupersedeTask
<1>24. ASSUME NEW t \in Tasks, RecoverRun(t) PROVE StepInv'
  BY <1>24 DEF RecoverRun
<1>25. ASSUME NEW t \in Tasks, RecoverTask(t) PROVE StepInv'
  BY <1>25 DEF RecoverTask
<1>26. ASSUME NEW t \in Tasks, Submit(t) PROVE StepInv'
  BY <1>26 DEF Submit
<1>27. ASSUME NEW t \in Tasks, ResultObserved(t) PROVE StepInv'
  BY <1>27 DEF ResultObserved
<1>28. ASSUME NEW t \in Tasks, ExecutionFails(t) PROVE StepInv'
  BY <1>28 DEF ExecutionFails
<1>29. CASE Crash
  BY <1>29 DEF Crash
<1>30. CASE Restart
  BY <1>30 DEF Restart
<1>31. CASE FinishRestart
  BY <1>31 DEF FinishRestart
<1>32. CASE UNCHANGED vars
  BY <1>32 DEF vars, memory
<1>33. QED
  BY <1>1, <1>2, <1>3, <1>4, <1>5, <1>6, <1>7, <1>8, <1>9, <1>10,
     <1>11, <1>12, <1>13, <1>14, <1>15, <1>16, <1>17, <1>18, <1>19,
     <1>20, <1>21, <1>22, <1>23, <1>24, <1>25, <1>26, <1>27, <1>28,
     <1>29, <1>30, <1>31, <1>32
     DEF Next, Operator, Continue, Settle

\* The run, gate, task, events and effects of a task stay consistent with
\* one another over every step of every command.
LEMMA RecordsKept ==
  ASSUME TypeOK, KernelInv, [Next]_vars, NEW u \in Tasks
  PROVE (RecordInv(u) /\ ExecInv(u))'
<1> USE DEF TypeOK, KernelInv, StepInv, RecordInv, ExecInv, SettledRun
<1>1. ASSUME NEW t \in Tasks, CreateTask(t) PROVE (RecordInv(u) /\ ExecInv(u))'
  BY <1>1 DEF CreateTask
<1>2. ASSUME NEW t \in Tasks, RejectGate(t) PROVE (RecordInv(u) /\ ExecInv(u))'
  BY <1>2 DEF RejectGate
<1>3. ASSUME NEW t \in Tasks, RejectAgain(t) PROVE (RecordInv(u) /\ ExecInv(u))'
  BY <1>3 DEF RejectAgain
<1>4. ASSUME NEW t \in Tasks, ApproveGate(t) PROVE (RecordInv(u) /\ ExecInv(u))'
  BY <1>4 DEF ApproveGate, Approvable
<1>5. ASSUME NEW t \in Tasks, ApproveRefused(t) PROVE (RecordInv(u) /\ ExecInv(u))'
  BY <1>5 DEF ApproveRefused
<1>6. ASSUME NEW t \in Tasks, ApproveObserved(t) PROVE (RecordInv(u) /\ ExecInv(u))'
  BY <1>6 DEF ApproveObserved
<1>7. ASSUME NEW t \in Tasks, ReviewRelease(t) PROVE (RecordInv(u) /\ ExecInv(u))'
  BY <1>7 DEF ReviewRelease, HoldsSome, LockInv, LoggedHolders
<1>8. ASSUME NEW t \in Tasks, RequestBlocked(t) PROVE (RecordInv(u) /\ ExecInv(u))'
  BY <1>8 DEF RequestBlocked
<1>9. ASSUME NEW t \in Tasks, RequestReady(t) PROVE (RecordInv(u) /\ ExecInv(u))'
  BY <1>9 DEF RequestReady
<1>10. ASSUME NEW t \in Tasks, RecordReservation(t) PROVE (RecordInv(u) /\ ExecInv(u))'
  BY <1>10 DEF RecordReservation
<1>11. ASSUME NEW t \in Tasks, RequestGate(t) PROVE (RecordInv(u) /\ ExecInv(u))'
  BY <1>11 DEF RequestGate
<1>12. ASSUME NEW t \in Tasks, LinkTask(t) PROVE (RecordInv(u) /\ ExecInv(u))'
  BY <1>12 DEF LinkTask
<1>13. ASSUME NEW t \in Tasks, RejectRun(t) PROVE (RecordInv(u) /\ ExecInv(u))'
  BY <1>13 DEF RejectRun
<1>14. ASSUME NEW t \in Tasks, RecordRejectRelease(t) PROVE (RecordInv(u) /\ ExecInv(u))'
  BY <1>14 DEF RecordRejectRelease
<1>15. ASSUME NEW t \in Tasks, CancelTask(t) PROVE (RecordInv(u) /\ ExecInv(u))'
  BY <1>15 DEF CancelTask
<1>16. ASSUME NEW t \in Tasks, RecordStart(t) PROVE (RecordInv(u) /\ ExecInv(u))'
  BY <1>16 DEF RecordStart
<1>17. ASSUME NEW t \in Tasks, Activate(t) PROVE (RecordInv(u) /\ ExecInv(u))'
  BY <1>17 DEF Activate
<1>18. ASSUME NEW t \in Tasks, ReleaseLocks(t) PROVE (RecordInv(u) /\ ExecInv(u))'
  BY <1>18 DEF ReleaseLocks
<1>19. ASSUME NEW t \in Tasks, ObserveTask(t) PROVE (RecordInv(u) /\ ExecInv(u))'
  BY <1>19 DEF ObserveTask
<1>20. ASSUME NEW t \in Tasks, RecordEvidence(t) PROVE (RecordInv(u) /\ ExecInv(u))'
  BY <1>20 DEF RecordEvidence
<1>21. ASSUME NEW t \in Tasks, MarkTaskForReview(t) PROVE (RecordInv(u) /\ ExecInv(u))'
  BY <1>21 DEF MarkTaskForReview
<1>22. ASSUME NEW t \in Tasks, SupersedeRun(t) PROVE (RecordInv(u) /\ ExecInv(u))'
  BY <1>22 DEF SupersedeRun
<1>23. ASSUME NEW t \in Tasks, SupersedeTask(t) PROVE (RecordInv(u) /\ ExecInv(u))'
  BY <1>23 DEF SupersedeTask
<1>24. ASSUME NEW t \in Tasks, RecoverRun(t) PROVE (RecordInv(u) /\ ExecInv(u))'
  BY <1>24 DEF RecoverRun
<1>25. ASSUME NEW t \in Tasks, RecoverTask(t) PROVE (RecordInv(u) /\ ExecInv(u))'
  BY <1>25 DEF RecoverTask
<1>26. ASSUME NEW t \in Tasks, Submit(t) PROVE (RecordInv(u) /\ ExecInv(u))'
  BY <1>26 DEF Submit
<1>27. ASSUME NEW t \in Tasks, ResultObserved(t) PROVE (RecordInv(u) /\ ExecInv(u))'
  BY <1>27 DEF ResultObserved
<1>28. ASSUME NEW t \in Tasks, ExecutionFails(t) PROVE (RecordInv(u) /\ ExecInv(u))'
  BY <1>28 DEF ExecutionFails
<1>29. CASE Crash
  BY <1>29 DEF Crash
<1>30. CASE Restart
  BY <1>30 DEF Restart
<1>31. CASE FinishRestart
  BY <1>31 DEF FinishRestart
<1>32. CASE UNCHANGED vars
  BY <1>32 DEF vars, memory
<1>33. QED
  BY <1>1, <1>2, <1>3, <1>4, <1>5, <1>6, <1>7, <1>8, <1>9, <1>10,
     <1>11, <1>12, <1>13, <1>14, <1>15, <1>16, <1>17, <1>18, <1>19,
     <1>20, <1>21, <1>22, <1>23, <1>24, <1>25, <1>26, <1>27, <1>28,
     <1>29, <1>30, <1>31, <1>32
     DEF Next, Operator, Continue, Settle

\* A step that leaves the table and the logged reservations alone, and is
\* not about to log or release one, keeps the two in agreement.
LEMMA LocksFrame ==
  ASSUME TypeOK, LockInv, UNCHANGED <<owner, up>>,
         LoggedHolders' = LoggedHolders, at \notin {"reserve", "release"}
  PROVE LockInv'
BY DEF TypeOK, LockInv, ReplayConflict, HoldsAll, HoldsSome

\* Two logged reservations cannot appear where there were none before.
LEMMA NoNewConflict ==
  ASSUME LockInv, LoggedHolders' \subseteq LoggedHolders
  PROVE ~ReplayConflict'
BY DEF LockInv, ReplayConflict

\* The lock table in memory and the reservations in the event log stay in
\* agreement, through acquireAll, releaseAll, crashes and rehydrateLocks.
LEMMA LocksKept ==
  ASSUME TypeOK, KernelInv, [Next]_vars PROVE LockInv'
<1> USE DEF TypeOK, KernelInv, StepInv
<1>1. ASSUME NEW t \in Tasks, CreateTask(t) PROVE LockInv'
  <2>1. LoggedHolders' = LoggedHolders
    BY <1>1 DEF CreateTask, LoggedHolders, SettledRun, RecordInv, ExecInv
  <2>2. QED
    BY <1>1, <2>1, LocksFrame DEF CreateTask
<1>2. ASSUME NEW t \in Tasks, RejectGate(t) PROVE LockInv'
  <2>1. LoggedHolders' = LoggedHolders
    BY <1>2 DEF RejectGate, LoggedHolders, SettledRun, RecordInv, ExecInv
  <2>2. QED
    BY <1>2, <2>1, LocksFrame DEF RejectGate
<1>3. ASSUME NEW t \in Tasks, RejectAgain(t) PROVE LockInv'
  <2>1. LoggedHolders' = LoggedHolders
    BY <1>3 DEF RejectAgain, LoggedHolders, SettledRun, RecordInv, ExecInv
  <2>2. QED
    BY <1>3, <2>1, LocksFrame DEF RejectAgain
<1>4. ASSUME NEW t \in Tasks, ApproveGate(t) PROVE LockInv'
  <2>1. LoggedHolders' = LoggedHolders
    BY <1>4 DEF ApproveGate, LoggedHolders, SettledRun, RecordInv, ExecInv
  <2>2. QED
    BY <1>4, <2>1, LocksFrame DEF ApproveGate
<1>5. ASSUME NEW t \in Tasks, ApproveRefused(t) PROVE LockInv'
  <2>1. LoggedHolders' = LoggedHolders
    BY <1>5 DEF ApproveRefused, LoggedHolders, SettledRun, RecordInv, ExecInv
  <2>2. QED
    BY <1>5, <2>1, LocksFrame DEF ApproveRefused
<1>6. ASSUME NEW t \in Tasks, ApproveObserved(t) PROVE LockInv'
  <2>1. LoggedHolders' = LoggedHolders
    BY <1>6 DEF ApproveObserved, LoggedHolders, SettledRun, RecordInv, ExecInv
  <2>2. QED
    BY <1>6, <2>1, LocksFrame DEF ApproveObserved
<1>7. ASSUME NEW t \in Tasks, ReviewRelease(t) PROVE LockInv'
  <2>1. LoggedHolders' \subseteq LoggedHolders
    BY <1>7 DEF ReviewRelease, LoggedHolders
  <2>2. ~HoldsSome(t)'
    BY <1>7 DEF ReviewRelease, ReleasedBy, HoldsSome
  <2>3. ASSUME NEW u \in Tasks, u # t
        PROVE /\ (u \in LoggedHolders)' <=> u \in LoggedHolders
              /\ HoldsSome(u)' <=> HoldsSome(u)
              /\ HoldsAll(u) => HoldsAll(u)'
    BY <1>7, <2>3 DEF ReviewRelease, ReleasedBy, HoldsSome, HoldsAll, LoggedHolders
  <2>4. (t \in LoggedHolders)' => HoldsAll(t)'
    BY <1>7 DEF ReviewRelease, ReleasedBy, HoldsSome, HoldsAll, LoggedHolders, LockInv
  <2>5. QED
    BY <1>7, <2>1, <2>2, <2>3, <2>4, NoNewConflict DEF ReviewRelease, LockInv
<1>8. ASSUME NEW t \in Tasks, RequestBlocked(t) PROVE LockInv'
  <2>1. LoggedHolders' = LoggedHolders
    BY <1>8 DEF RequestBlocked, LoggedHolders, SettledRun, RecordInv, ExecInv
  <2>2. QED
    BY <1>8, <2>1, LocksFrame DEF RequestBlocked
<1>9. ASSUME NEW t \in Tasks, RequestReady(t) PROVE LockInv'
  <2>1. LoggedHolders' = LoggedHolders /\ t \notin LoggedHolders
    BY <1>9 DEF RequestReady, LoggedHolders, SettledRun, RecordInv
  <2>2. ASSUME NEW u \in Tasks, u # t
        PROVE (HoldsAll(u) => HoldsAll(u)') /\ (HoldsSome(u)' => HoldsSome(u))
    BY <1>9, <2>2 DEF RequestReady, Conflict, Acquired, HoldsAll, HoldsSome
  <2>3. ~ReplayConflict'
    BY <2>1, NoNewConflict
  <2>4. QED
    BY <1>9, <2>1, <2>2, <2>3 DEF RequestReady, LockInv
<1>10. ASSUME NEW t \in Tasks, RecordReservation(t) PROVE LockInv'
  <2>1. LoggedHolders' = LoggedHolders \cup {t}
    BY <1>10 DEF RecordReservation, LoggedHolders, SettledRun, RecordInv
  <2>2. HoldsAll(t)
    BY <1>10 DEF RecordReservation
  <2>3. ASSUME NEW u \in LoggedHolders, u # t PROVE Needs[t] \cap Needs[u] = {}
    BY <1>10, <2>2, <2>3 DEF RecordReservation, LockInv, HoldsAll, LoggedHolders
  <2>4. ~ReplayConflict'
    BY <2>1, <2>3 DEF LockInv, ReplayConflict
  <2>5. QED
    BY <1>10, <2>1, <2>2, <2>4 DEF RecordReservation, LockInv, HoldsAll, HoldsSome
<1>11. ASSUME NEW t \in Tasks, RequestGate(t) PROVE LockInv'
  <2>1. LoggedHolders' = LoggedHolders
    BY <1>11 DEF RequestGate, LoggedHolders, SettledRun, RecordInv, ExecInv
  <2>2. QED
    BY <1>11, <2>1, LocksFrame DEF RequestGate
<1>12. ASSUME NEW t \in Tasks, LinkTask(t) PROVE LockInv'
  <2>1. LoggedHolders' = LoggedHolders
    BY <1>12 DEF LinkTask, LoggedHolders, SettledRun, RecordInv, ExecInv
  <2>2. QED
    BY <1>12, <2>1, LocksFrame DEF LinkTask
<1>13. ASSUME NEW t \in Tasks, RejectRun(t) PROVE LockInv'
  <2>1. LoggedHolders' = LoggedHolders \ {t}
    BY <1>13 DEF RejectRun, LoggedHolders, SettledRun
  <2>2. ~ReplayConflict'
    BY <2>1, NoNewConflict
  <2>3. QED
    BY <1>13, <2>1, <2>2 DEF RejectRun, ReleasedBy, LockInv, HoldsAll, HoldsSome
<1>14. ASSUME NEW t \in Tasks, RecordRejectRelease(t) PROVE LockInv'
  <2>1. LoggedHolders' = LoggedHolders
    BY <1>14 DEF RecordRejectRelease, LoggedHolders, SettledRun, RecordInv, ExecInv
  <2>2. QED
    BY <1>14, <2>1, LocksFrame DEF RecordRejectRelease
<1>15. ASSUME NEW t \in Tasks, CancelTask(t) PROVE LockInv'
  <2>1. LoggedHolders' = LoggedHolders
    BY <1>15 DEF CancelTask, LoggedHolders, SettledRun, RecordInv, ExecInv
  <2>2. QED
    BY <1>15, <2>1, LocksFrame DEF CancelTask
<1>16. ASSUME NEW t \in Tasks, RecordStart(t) PROVE LockInv'
  <2>1. LoggedHolders' = LoggedHolders
    BY <1>16 DEF RecordStart, LoggedHolders, SettledRun, RecordInv, ExecInv
  <2>2. QED
    BY <1>16, <2>1, LocksFrame DEF RecordStart
<1>17. ASSUME NEW t \in Tasks, Activate(t) PROVE LockInv'
  <2>1. LoggedHolders' = LoggedHolders
    BY <1>17 DEF Activate, LoggedHolders, SettledRun, RecordInv, ExecInv
  <2>2. QED
    BY <1>17, <2>1, LocksFrame DEF Activate
<1>18. ASSUME NEW t \in Tasks, ReleaseLocks(t) PROVE LockInv'
  <2>1. LoggedHolders' = LoggedHolders /\ t \notin LoggedHolders
    BY <1>18 DEF ReleaseLocks, LoggedHolders, SettledRun
  <2>2. ~ReplayConflict'
    BY <2>1, NoNewConflict
  <2>3. QED
    BY <1>18, <2>1, <2>2 DEF ReleaseLocks, ReleasedBy, LockInv, HoldsAll, HoldsSome
<1>19. ASSUME NEW t \in Tasks, ObserveTask(t) PROVE LockInv'
  <2>1. LoggedHolders' = LoggedHolders
    BY <1>19 DEF ObserveTask, LoggedHolders, SettledRun, RecordInv, ExecInv
  <2>2. QED
    BY <1>19, <2>1, LocksFrame DEF ObserveTask
<1>20. ASSUME NEW t \in Tasks, RecordEvidence(t) PROVE LockInv'
  <2>1. LoggedHolders' = LoggedHolders
    BY <1>20 DEF RecordEvidence, LoggedHolders, SettledRun, RecordInv, ExecInv
  <2>2. QED
    BY <1>20, <2>1, LocksFrame DEF RecordEvidence
<1>21. ASSUME NEW t \in Tasks, MarkTaskForReview(t) PROVE LockInv'
  <2>1. LoggedHolders' = LoggedHolders
    BY <1>21 DEF MarkTaskForReview, LoggedHolders, SettledRun, RecordInv, ExecInv
  <2>2. QED
    BY <1>21, <2>1, LocksFrame DEF MarkTaskForReview
<1>22. ASSUME NEW t \in Tasks, SupersedeRun(t) PROVE LockInv'
  <2>1. LoggedHolders' = LoggedHolders \ {t}
    BY <1>22 DEF SupersedeRun, LoggedHolders, SettledRun
  <2>2. ~ReplayConflict'
    BY <2>1, NoNewConflict
  <2>3. QED
    BY <1>22, <2>1, <2>2 DEF SupersedeRun, LockInv, HoldsAll, HoldsSome
<1>23. ASSUME NEW t \in Tasks, SupersedeTask(t) PROVE LockInv'
  <2>1. LoggedHolders' = LoggedHolders
    BY <1>23 DEF SupersedeTask, LoggedHolders, SettledRun, RecordInv, ExecInv
  <2>2. QED
    BY <1>23, <2>1, LocksFrame DEF SupersedeTask
<1>24. ASSUME NEW t \in Tasks, RecoverRun(t) PROVE LockInv'
  <2>1. LoggedHolders' = LoggedHolders
    BY <1>24 DEF RecoverRun, LoggedHolders, SettledRun, RecordInv, ExecInv
  <2>2. QED
    BY <1>24, <2>1, LocksFrame DEF RecoverRun
<1>25. ASSUME NEW t \in Tasks, RecoverTask(t) PROVE LockInv'
  <2>1. LoggedHolders' = LoggedHolders
    BY <1>25 DEF RecoverTask, LoggedHolders, SettledRun, RecordInv, ExecInv
  <2>2. QED
    BY <1>25, <2>1, LocksFrame DEF RecoverTask
<1>26. ASSUME NEW t \in Tasks, Submit(t) PROVE LockInv'
  BY <1>26 DEF Submit, LockInv, ReplayConflict, LoggedHolders, HoldsAll, HoldsSome
<1>27. ASSUME NEW t \in Tasks, ResultObserved(t) PROVE LockInv'
  <2>1. LoggedHolders' = LoggedHolders \ {t}
    BY <1>27 DEF ResultObserved, LoggedHolders, SettledRun
  <2>2. ~ReplayConflict'
    BY <2>1, NoNewConflict
  <2>3. QED
    BY <1>27, <2>1, <2>2 DEF ResultObserved, LockInv, HoldsAll, HoldsSome
<1>28. ASSUME NEW t \in Tasks, ExecutionFails(t) PROVE LockInv'
  <2>1. LoggedHolders' = LoggedHolders
    BY <1>28 DEF ExecutionFails, LoggedHolders, SettledRun, RecordInv, ExecInv
  <2>2. QED
    BY <1>28, <2>1, LocksFrame DEF ExecutionFails
<1>29. CASE Crash
  <2>1. LoggedHolders' = LoggedHolders
    BY <1>29 DEF Crash, LoggedHolders
  <2>2. QED
    BY <1>29, <2>1, NoNewConflict DEF Crash, LockInv
<1>30. CASE Restart
  <2>1. LoggedHolders' = LoggedHolders
    BY <1>30 DEF Restart, LoggedHolders
  <2>2. LoggedHolders \subseteq Tasks
    BY DEF LoggedHolders
  <2>3. ASSUME NEW t \in LoggedHolders PROVE HoldsAll(t)'
    <3>1. ASSUME NEW r \in Needs[t] PROVE owner'[r] = t
      <4>1. r \in Resources
        BY <2>2
      <4>2. \A u \in LoggedHolders : r \in Needs[u] => u = t
        BY <1>30, <2>2 DEF Restart, ReplayConflict
      <4>3. QED
        BY <1>30, <4>1, <4>2 DEF Restart
    <3>2. QED
      BY <3>1 DEF HoldsAll
  <2>4. ASSUME NEW t \in Tasks, HoldsSome(t)' PROVE t \in LoggedHolders
    <3>1. PICK r \in Resources : owner'[r] = t
      BY <2>4 DEF HoldsSome
    <3>2. QED
      BY <1>30, <3>1 DEF Restart
  <2>5. ~ReplayConflict'
    BY <2>1, NoNewConflict
  <2>6. QED
    BY <2>1, <2>2, <2>3, <2>4, <2>5 DEF LockInv
<1>31. CASE FinishRestart
  <2>1. LoggedHolders' = LoggedHolders
    BY <1>31 DEF FinishRestart, LoggedHolders, SettledRun, RecordInv, ExecInv
  <2>2. QED
    BY <1>31, <2>1, LocksFrame DEF FinishRestart
<1>32. CASE UNCHANGED vars
  BY <1>32 DEF vars, memory, LockInv, ReplayConflict, LoggedHolders, HoldsAll, HoldsSome
<1>33. QED
  BY <1>1, <1>2, <1>3, <1>4, <1>5, <1>6, <1>7, <1>8, <1>9, <1>10,
     <1>11, <1>12, <1>13, <1>14, <1>15, <1>16, <1>17, <1>18, <1>19,
     <1>20, <1>21, <1>22, <1>23, <1>24, <1>25, <1>26, <1>27, <1>28,
     <1>29, <1>30, <1>31, <1>32
     DEF Next, Operator, Continue, Settle

\* KernelInv holds in every state the kernel can reach.
THEOREM KernelInvariant == Spec => []KernelInv
<1>1. Init => KernelInv
  BY DEF Init, KernelInv, StepInv, RecordInv, ExecInv, LockInv, SettledRun,
         LoggedHolders, ReplayConflict, HoldsAll, HoldsSome
<1>2. TypeOK /\ KernelInv /\ [Next]_vars => KernelInv'
  BY StepInvKept, RecordsKept, LocksKept DEF KernelInv
<1>3. QED
  BY <1>1, <1>2, TypeCorrect, PTL DEF Spec
--------------------------------------------------------------------------
(* The safety properties *)

\* A task whose submission is awaited has its reservation in the log: the
\* fact the lock properties rest on.
LEMMA ExecutingIsLogged ==
  ASSUME TypeOK, KernelInv, NEW t \in Tasks, exec[t] # "none"
  PROVE up /\ t \in LoggedHolders
BY DEF TypeOK, KernelInv, RecordInv, ExecInv, LoggedHolders, SettledRun

\* runtime.execute is only ever awaited for a run that owns its worker and
\* its provider surface.
THEOREM ExecutionOwnsResourcesHolds == Spec => []ExecutionOwnsResources
<1>1. TypeOK /\ KernelInv => ExecutionOwnsResources
  BY ExecutingIsLogged DEF KernelInv, LockInv, ExecutionOwnsResources
<1>2. QED
  BY <1>1, TypeCorrect, KernelInvariant, PTL

\* The locks of an execution that threw, or that a restart found active,
\* exclude every other execution until the reviewed retry releases them.
THEOREM UncertainRunBlocksOthersHolds == Spec => []UncertainRunBlocksOthers
<1>1. TypeOK /\ KernelInv => UncertainRunBlocksOthers
  <2> SUFFICES ASSUME TypeOK, KernelInv, NEW t \in Tasks, NEW u \in Tasks,
                      t # u, Needs[t] \cap Needs[u] # {},
                      run[t] = "waiting_human", recovery[t] # "none",
                      t \notin released, exec[u] # "none"
               PROVE FALSE
    BY DEF UncertainRunBlocksOthers
  <2>1. t \in LoggedHolders
    BY DEF KernelInv, RecordInv, LoggedHolders, SettledRun
  <2>2. u \in LoggedHolders
    BY ExecutingIsLogged
  <2>3. QED
    BY <2>1, <2>2 DEF KernelInv, LockInv, ReplayConflict
<1>2. QED
  BY <1>1, TypeCorrect, KernelInvariant, PTL

\* Approvals, failures, restarts and reviewed retries together submit the
\* payload of a task at most once.
THEOREM EffectAtMostOnceHolds == Spec => []EffectAtMostOnce
<1>1. KernelInv => EffectAtMostOnce
  BY DEF KernelInv, ExecInv, EffectAtMostOnce
<1>2. QED
  BY <1>1, KernelInvariant, PTL

\* Every submission was approved and announced before, and every evidence
\* record stands for a submission.
THEOREM EffectIsAuthorizedHolds == Spec => []EffectIsAuthorized
<1>1. TypeOK /\ KernelInv => EffectIsAuthorized
  <2> SUFFICES ASSUME TypeOK, KernelInv, NEW t \in Tasks
               PROVE /\ effects[t] > 0 => gate[t] = "approved" /\ t \in started \cap reserved
                     /\ t \in evidence => effects[t] > 0 /\ run[t] = "result_observed"
    BY DEF EffectIsAuthorized
  <2>1. RecordInv(t)
    BY DEF KernelInv
  <2>2. QED
    BY <2>1 DEF TypeOK, RecordInv
<1>2. QED
  BY <1>1, TypeCorrect, KernelInvariant, PTL

\* Between commands the lock table is what rehydrateLocks would rebuild.
THEOREM LockTableMatchesLogHolds == Spec => []LockTableMatchesLog
<1>1. KernelInv => LockTableMatchesLog
  BY DEF KernelInv, LockInv, LockTableMatchesLog
<1>2. QED
  BY <1>1, KernelInvariant, PTL

\* rehydrateLocks never throws, wherever the process died.
THEOREM RestartIsPossibleHolds == Spec => []RestartIsPossible
<1>1. KernelInv => RestartIsPossible
  BY DEF KernelInv, LockInv, RestartIsPossible
<1>2. QED
  BY <1>1, KernelInvariant, PTL

\* A run with a recovery reason is never executed again.
THEOREM NeverReplayedHolds == Spec => NeverReplayed
<1>1. TypeOK /\ KernelInv /\ [Next]_vars => [ReplaysNothing]_vars
  <2> SUFFICES ASSUME TypeOK, KernelInv, [Next]_vars,
                      NEW u \in Tasks, recovery[u] # "none"
               PROVE effects'[u] = effects[u] /\ exec'[u] = "none"
    BY DEF ReplaysNothing
  <2>0. exec[u] = "none"
    BY DEF TypeOK, KernelInv, RecordInv, ExecInv
  <2> USE <2>0 DEF TypeOK
  <2>1. ASSUME NEW t \in Tasks, CreateTask(t) PROVE effects'[u] = effects[u] /\ exec'[u] = "none"
    BY <2>1 DEF CreateTask
  <2>2. ASSUME NEW t \in Tasks, RejectGate(t) PROVE effects'[u] = effects[u] /\ exec'[u] = "none"
    BY <2>2 DEF RejectGate
  <2>3. ASSUME NEW t \in Tasks, RejectAgain(t) PROVE effects'[u] = effects[u] /\ exec'[u] = "none"
    BY <2>3 DEF RejectAgain
  <2>4. ASSUME NEW t \in Tasks, ApproveGate(t) PROVE effects'[u] = effects[u] /\ exec'[u] = "none"
    BY <2>4 DEF ApproveGate
  <2>5. ASSUME NEW t \in Tasks, ApproveRefused(t) PROVE effects'[u] = effects[u] /\ exec'[u] = "none"
    BY <2>5 DEF ApproveRefused
  <2>6. ASSUME NEW t \in Tasks, ApproveObserved(t) PROVE effects'[u] = effects[u] /\ exec'[u] = "none"
    BY <2>6 DEF ApproveObserved
  <2>7. ASSUME NEW t \in Tasks, ReviewRelease(t) PROVE effects'[u] = effects[u] /\ exec'[u] = "none"
    BY <2>7 DEF ReviewRelease
  <2>8. ASSUME NEW t \in Tasks, RequestBlocked(t) PROVE effects'[u] = effects[u] /\ exec'[u] = "none"
    BY <2>8 DEF RequestBlocked
  <2>9. ASSUME NEW t \in Tasks, RequestReady(t) PROVE effects'[u] = effects[u] /\ exec'[u] = "none"
    BY <2>9 DEF RequestReady
  <2>10. ASSUME NEW t \in Tasks, RecordReservation(t) PROVE effects'[u] = effects[u] /\ exec'[u] = "none"
    BY <2>10 DEF RecordReservation
  <2>11. ASSUME NEW t \in Tasks, RequestGate(t) PROVE effects'[u] = effects[u] /\ exec'[u] = "none"
    BY <2>11 DEF RequestGate
  <2>12. ASSUME NEW t \in Tasks, LinkTask(t) PROVE effects'[u] = effects[u] /\ exec'[u] = "none"
    BY <2>12 DEF LinkTask
  <2>13. ASSUME NEW t \in Tasks, RejectRun(t) PROVE effects'[u] = effects[u] /\ exec'[u] = "none"
    BY <2>13 DEF RejectRun
  <2>14. ASSUME NEW t \in Tasks, RecordRejectRelease(t) PROVE effects'[u] = effects[u] /\ exec'[u] = "none"
    BY <2>14 DEF RecordRejectRelease
  <2>15. ASSUME NEW t \in Tasks, CancelTask(t) PROVE effects'[u] = effects[u] /\ exec'[u] = "none"
    BY <2>15 DEF CancelTask
  <2>16. ASSUME NEW t \in Tasks, RecordStart(t) PROVE effects'[u] = effects[u] /\ exec'[u] = "none"
    BY <2>16 DEF RecordStart
  <2>17. ASSUME NEW t \in Tasks, Activate(t) PROVE effects'[u] = effects[u] /\ exec'[u] = "none"
    BY <2>17 DEF Activate, KernelInv, StepInv
  <2>18. ASSUME NEW t \in Tasks, ReleaseLocks(t) PROVE effects'[u] = effects[u] /\ exec'[u] = "none"
    BY <2>18 DEF ReleaseLocks
  <2>19. ASSUME NEW t \in Tasks, ObserveTask(t) PROVE effects'[u] = effects[u] /\ exec'[u] = "none"
    BY <2>19 DEF ObserveTask
  <2>20. ASSUME NEW t \in Tasks, RecordEvidence(t) PROVE effects'[u] = effects[u] /\ exec'[u] = "none"
    BY <2>20 DEF RecordEvidence
  <2>21. ASSUME NEW t \in Tasks, MarkTaskForReview(t) PROVE effects'[u] = effects[u] /\ exec'[u] = "none"
    BY <2>21 DEF MarkTaskForReview
  <2>22. ASSUME NEW t \in Tasks, SupersedeRun(t) PROVE effects'[u] = effects[u] /\ exec'[u] = "none"
    BY <2>22 DEF SupersedeRun
  <2>23. ASSUME NEW t \in Tasks, SupersedeTask(t) PROVE effects'[u] = effects[u] /\ exec'[u] = "none"
    BY <2>23 DEF SupersedeTask
  <2>24. ASSUME NEW t \in Tasks, RecoverRun(t) PROVE effects'[u] = effects[u] /\ exec'[u] = "none"
    BY <2>24 DEF RecoverRun
  <2>25. ASSUME NEW t \in Tasks, RecoverTask(t) PROVE effects'[u] = effects[u] /\ exec'[u] = "none"
    BY <2>25 DEF RecoverTask
  <2>26. ASSUME NEW t \in Tasks, Submit(t) PROVE effects'[u] = effects[u] /\ exec'[u] = "none"
    BY <2>26 DEF Submit
  <2>27. ASSUME NEW t \in Tasks, ResultObserved(t) PROVE effects'[u] = effects[u] /\ exec'[u] = "none"
    BY <2>27 DEF ResultObserved
  <2>28. ASSUME NEW t \in Tasks, ExecutionFails(t) PROVE effects'[u] = effects[u] /\ exec'[u] = "none"
    BY <2>28 DEF ExecutionFails
  <2>29. CASE Crash
    BY <2>29 DEF Crash
  <2>30. CASE Restart
    BY <2>30 DEF Restart
  <2>31. CASE FinishRestart
    BY <2>31 DEF FinishRestart
  <2>32. CASE UNCHANGED vars
    BY <2>32 DEF vars, memory
  <2>33. QED
    BY <2>1, <2>2, <2>3, <2>4, <2>5, <2>6, <2>7, <2>8, <2>9, <2>10,
       <2>11, <2>12, <2>13, <2>14, <2>15, <2>16, <2>17, <2>18, <2>19,
       <2>20, <2>21, <2>22, <2>23, <2>24, <2>25, <2>26, <2>27, <2>28,
       <2>29, <2>30, <2>31, <2>32
       DEF Next, Operator, Continue, Settle
<1>2. QED
  BY <1>1, TypeCorrect, KernelInvariant, PTL DEF Spec, NeverReplayed
--------------------------------------------------------------------------
(* The refinement *)

\* Saving a decision is the human's decision, the reservation event is the
\* reservation, and the settled run or the release event gives it up; every
\* other step, a crash included, is invisible to the promise.
THEOREM PromiseKeptHolds == Spec => PromiseKept
<1>1. Init => Promise!Init
  BY DEF Init, Promise!Init, LoggedHolders
<1>2. TypeOK /\ KernelInv /\ [Next]_vars => [Promise!Next]_(Promise!vars)
  <2> SUFFICES ASSUME TypeOK, KernelInv, [Next]_vars
               PROVE Promise!Next \/ UNCHANGED Promise!vars
    OBVIOUS
  <2> USE DEF TypeOK, KernelInv, StepInv, Promise!vars
  <2>1. ASSUME NEW t \in Tasks, CreateTask(t) PROVE Promise!Next \/ UNCHANGED Promise!vars
    BY <2>1 DEF CreateTask, LoggedHolders, SettledRun, RecordInv, ExecInv
  <2>2. ASSUME NEW t \in Tasks, RejectGate(t) PROVE Promise!Next \/ UNCHANGED Promise!vars
    <3>1. Promise!Decide(t)
      BY <2>2 DEF RejectGate, LoggedHolders, Promise!Decide
    <3>2. QED
      BY <3>1 DEF Promise!Next
  <2>3. ASSUME NEW t \in Tasks, RejectAgain(t) PROVE Promise!Next \/ UNCHANGED Promise!vars
    BY <2>3 DEF RejectAgain, LoggedHolders, SettledRun, RecordInv, ExecInv
  <2>4. ASSUME NEW t \in Tasks, ApproveGate(t) PROVE Promise!Next \/ UNCHANGED Promise!vars
    <3>1. CASE gate[t] = "requested"
      <4>1. Promise!Decide(t)
        BY <2>4, <3>1 DEF ApproveGate, LoggedHolders, Promise!Decide
      <4>2. QED
        BY <4>1 DEF Promise!Next
    <3>2. CASE gate[t] = "approved"
      BY <2>4, <3>2 DEF ApproveGate, LoggedHolders
    <3>3. QED
      BY <2>4, <3>1, <3>2 DEF ApproveGate
  <2>5. ASSUME NEW t \in Tasks, ApproveRefused(t) PROVE Promise!Next \/ UNCHANGED Promise!vars
    BY <2>5 DEF ApproveRefused, LoggedHolders, SettledRun, RecordInv, ExecInv
  <2>6. ASSUME NEW t \in Tasks, ApproveObserved(t) PROVE Promise!Next \/ UNCHANGED Promise!vars
    BY <2>6 DEF ApproveObserved, LoggedHolders, SettledRun, RecordInv, ExecInv
  <2>7. ASSUME NEW t \in Tasks, ReviewRelease(t) PROVE Promise!Next \/ UNCHANGED Promise!vars
    <3>1. gate[t] \in {"approved", "rejected"}
      BY <2>7 DEF ReviewRelease, RecordInv, ExecInv, GateState
    <3>2. \/ LoggedHolders' = LoggedHolders
          \/ t \in LoggedHolders /\ LoggedHolders' = LoggedHolders \ {t}
      BY <2>7 DEF ReviewRelease, LoggedHolders, SettledRun, HoldsSome
    <3>3. CASE t \in LoggedHolders /\ LoggedHolders' = LoggedHolders \ {t}
      <4>1. Promise!Release(t)
        BY <2>7, <3>1, <3>3 DEF ReviewRelease, Promise!Release
      <4>2. QED
        BY <4>1 DEF Promise!Next
    <3>4. CASE LoggedHolders' = LoggedHolders
      BY <2>7, <3>4 DEF ReviewRelease
    <3>5. QED
      BY <3>2, <3>3, <3>4
  <2>8. ASSUME NEW t \in Tasks, RequestBlocked(t) PROVE Promise!Next \/ UNCHANGED Promise!vars
    BY <2>8 DEF RequestBlocked, LoggedHolders, SettledRun, RecordInv, ExecInv
  <2>9. ASSUME NEW t \in Tasks, RequestReady(t) PROVE Promise!Next \/ UNCHANGED Promise!vars
    BY <2>9 DEF RequestReady, LoggedHolders, SettledRun, RecordInv, ExecInv
  <2>10. ASSUME NEW t \in Tasks, RecordReservation(t) PROVE Promise!Next \/ UNCHANGED Promise!vars
    <3>1. LoggedHolders' = LoggedHolders \cup {t} /\ t \notin LoggedHolders
      BY <2>10 DEF RecordReservation, LoggedHolders, SettledRun, RecordInv
    <3>2. ASSUME NEW u \in LoggedHolders PROVE Promise!Disjoint(t, u)
      BY <2>10, <3>1, <3>2 DEF RecordReservation, LockInv, HoldsAll, LoggedHolders,
                              Promise!Disjoint
    <3>3. Promise!Reserve(t)
      BY <2>10, <3>1, <3>2 DEF RecordReservation, Promise!Reserve
    <3>4. QED
      BY <3>3 DEF Promise!Next
  <2>11. ASSUME NEW t \in Tasks, RequestGate(t) PROVE Promise!Next \/ UNCHANGED Promise!vars
    <3>1. Promise!Ask(t)
      BY <2>11 DEF RequestGate, LoggedHolders, SettledRun, RecordInv, Promise!Ask
    <3>2. QED
      BY <3>1 DEF Promise!Next
  <2>12. ASSUME NEW t \in Tasks, LinkTask(t) PROVE Promise!Next \/ UNCHANGED Promise!vars
    BY <2>12 DEF LinkTask, LoggedHolders, SettledRun, RecordInv, ExecInv
  <2>13. ASSUME NEW t \in Tasks, RejectRun(t) PROVE Promise!Next \/ UNCHANGED Promise!vars
    <3>1. gate[t] \in {"approved", "rejected"}
      BY <2>13 DEF RejectRun, RecordInv, ExecInv, GateState
    <3>2. \/ LoggedHolders' = LoggedHolders
          \/ t \in LoggedHolders /\ LoggedHolders' = LoggedHolders \ {t}
      BY <2>13 DEF RejectRun, LoggedHolders, SettledRun
    <3>3. CASE t \in LoggedHolders /\ LoggedHolders' = LoggedHolders \ {t}
      <4>1. Promise!Release(t)
        BY <2>13, <3>1, <3>3 DEF RejectRun, Promise!Release
      <4>2. QED
        BY <4>1 DEF Promise!Next
    <3>4. CASE LoggedHolders' = LoggedHolders
      BY <2>13, <3>4 DEF RejectRun
    <3>5. QED
      BY <3>2, <3>3, <3>4
  <2>14. ASSUME NEW t \in Tasks, RecordRejectRelease(t) PROVE Promise!Next \/ UNCHANGED Promise!vars
    BY <2>14 DEF RecordRejectRelease, LoggedHolders, SettledRun, RecordInv, ExecInv
  <2>15. ASSUME NEW t \in Tasks, CancelTask(t) PROVE Promise!Next \/ UNCHANGED Promise!vars
    BY <2>15 DEF CancelTask, LoggedHolders, SettledRun, RecordInv, ExecInv
  <2>16. ASSUME NEW t \in Tasks, RecordStart(t) PROVE Promise!Next \/ UNCHANGED Promise!vars
    BY <2>16 DEF RecordStart, LoggedHolders, SettledRun, RecordInv, ExecInv
  <2>17. ASSUME NEW t \in Tasks, Activate(t) PROVE Promise!Next \/ UNCHANGED Promise!vars
    BY <2>17 DEF Activate, LoggedHolders, SettledRun, RecordInv, ExecInv
  <2>18. ASSUME NEW t \in Tasks, ReleaseLocks(t) PROVE Promise!Next \/ UNCHANGED Promise!vars
    BY <2>18 DEF ReleaseLocks, LoggedHolders, SettledRun, RecordInv, ExecInv
  <2>19. ASSUME NEW t \in Tasks, ObserveTask(t) PROVE Promise!Next \/ UNCHANGED Promise!vars
    BY <2>19 DEF ObserveTask, LoggedHolders, SettledRun, RecordInv, ExecInv
  <2>20. ASSUME NEW t \in Tasks, RecordEvidence(t) PROVE Promise!Next \/ UNCHANGED Promise!vars
    BY <2>20 DEF RecordEvidence, LoggedHolders, SettledRun, RecordInv, ExecInv
  <2>21. ASSUME NEW t \in Tasks, MarkTaskForReview(t) PROVE Promise!Next \/ UNCHANGED Promise!vars
    BY <2>21 DEF MarkTaskForReview, LoggedHolders, SettledRun, RecordInv, ExecInv
  <2>22. ASSUME NEW t \in Tasks, SupersedeRun(t) PROVE Promise!Next \/ UNCHANGED Promise!vars
    <3>1. gate[t] \in {"approved", "rejected"}
      BY <2>22 DEF SupersedeRun, RecordInv, ExecInv, GateState
    <3>2. \/ LoggedHolders' = LoggedHolders
          \/ t \in LoggedHolders /\ LoggedHolders' = LoggedHolders \ {t}
      BY <2>22 DEF SupersedeRun, LoggedHolders, SettledRun
    <3>3. CASE t \in LoggedHolders /\ LoggedHolders' = LoggedHolders \ {t}
      <4>1. Promise!Release(t)
        BY <2>22, <3>1, <3>3 DEF SupersedeRun, Promise!Release
      <4>2. QED
        BY <4>1 DEF Promise!Next
    <3>4. CASE LoggedHolders' = LoggedHolders
      BY <2>22, <3>4 DEF SupersedeRun
    <3>5. QED
      BY <3>2, <3>3, <3>4
  <2>23. ASSUME NEW t \in Tasks, SupersedeTask(t) PROVE Promise!Next \/ UNCHANGED Promise!vars
    BY <2>23 DEF SupersedeTask, LoggedHolders, SettledRun, RecordInv, ExecInv
  <2>24. ASSUME NEW t \in Tasks, RecoverRun(t) PROVE Promise!Next \/ UNCHANGED Promise!vars
    BY <2>24 DEF RecoverRun, LoggedHolders, SettledRun, RecordInv, ExecInv
  <2>25. ASSUME NEW t \in Tasks, RecoverTask(t) PROVE Promise!Next \/ UNCHANGED Promise!vars
    BY <2>25 DEF RecoverTask, LoggedHolders, SettledRun, RecordInv, ExecInv
  <2>26. ASSUME NEW t \in Tasks, Submit(t) PROVE Promise!Next \/ UNCHANGED Promise!vars
    <3>1. effects[t] = 0
      BY <2>26 DEF Submit, ExecInv
    <3>2. t \in LoggedHolders
      BY <2>26, ExecutingIsLogged DEF Submit
    <3>3. Promise!Perform(t)
      BY <2>26, <3>1, <3>2 DEF Submit, LoggedHolders, RecordInv, ExecInv, Promise!Perform
    <3>4. QED
      BY <3>3 DEF Promise!Next
  <2>27. ASSUME NEW t \in Tasks, ResultObserved(t) PROVE Promise!Next \/ UNCHANGED Promise!vars
    <3>1. gate[t] \in {"approved", "rejected"}
      BY <2>27 DEF ResultObserved, RecordInv, ExecInv, GateState
    <3>2. \/ LoggedHolders' = LoggedHolders
          \/ t \in LoggedHolders /\ LoggedHolders' = LoggedHolders \ {t}
      BY <2>27 DEF ResultObserved, LoggedHolders, SettledRun
    <3>3. CASE t \in LoggedHolders /\ LoggedHolders' = LoggedHolders \ {t}
      <4>1. Promise!Release(t)
        BY <2>27, <3>1, <3>3 DEF ResultObserved, Promise!Release
      <4>2. QED
        BY <4>1 DEF Promise!Next
    <3>4. CASE LoggedHolders' = LoggedHolders
      BY <2>27, <3>4 DEF ResultObserved
    <3>5. QED
      BY <3>2, <3>3, <3>4
  <2>28. ASSUME NEW t \in Tasks, ExecutionFails(t) PROVE Promise!Next \/ UNCHANGED Promise!vars
    BY <2>28 DEF ExecutionFails, LoggedHolders, SettledRun, RecordInv, ExecInv
  <2>29. CASE Crash
    BY <2>29 DEF Crash, LoggedHolders, SettledRun, RecordInv, ExecInv
  <2>30. CASE Restart
    BY <2>30 DEF Restart, LoggedHolders, SettledRun, RecordInv, ExecInv
  <2>31. CASE FinishRestart
    BY <2>31 DEF FinishRestart, LoggedHolders, SettledRun, RecordInv, ExecInv
  <2>32. CASE UNCHANGED vars
    BY <2>32 DEF vars, memory, LoggedHolders, SettledRun, RecordInv, ExecInv
  <2>33. QED
    BY <2>1, <2>2, <2>3, <2>4, <2>5, <2>6, <2>7, <2>8, <2>9, <2>10,
       <2>11, <2>12, <2>13, <2>14, <2>15, <2>16, <2>17, <2>18, <2>19,
       <2>20, <2>21, <2>22, <2>23, <2>24, <2>25, <2>26, <2>27, <2>28,
       <2>29, <2>30, <2>31, <2>32
       DEF Next, Operator, Continue, Settle
<1>3. QED
  BY <1>1, <1>2, TypeCorrect, KernelInvariant, PTL
     DEF Spec, PromiseKept, Promise!Spec
==========================================================================
