----------------------- MODULE WorkersAndStoreProofs -----------------------
(***************************************************************************)
(* Proofs about what the program keeps on disk.  The first half is about   *)
(* the browser workers and the profile lease (BrowserWorkers), for any     *)
(* number of processes, starts, tasks and deaths: types, the lease and the *)
(* log are three invariants of their own.  The second is about the event   *)
(* log and its projections (EventStore), for any processes, records,       *)
(* claims and files: StoreInv and the properties that follow from it.      *)
(***************************************************************************)
EXTENDS BrowserWorkers, EventStore, TLAPS

--------------------------------------------------------------------------
(* Types *)

\* A worker's calls leave every variable in its range, whoever makes them.
LEMMA TypeStep == ASSUME TypeOK, [Next]_vars PROVE TypeOK'
<1> USE WorkersAssumption
<1>1. ASSUME NEW c \in Starts, StartReads(c) \/ StartWrites(c) \/ Launched(c) \/ PageOpened(c)
      PROVE  TypeOK'
  <2>1. By[c] \in Processes OBVIOUS
  <2>2. CASE StartReads(c)
    BY <2>1, <2>2 DEF TypeOK, StartReads, Set, disk, WorkerStatus
  <2>3. CASE StartWrites(c)
    BY <2>1, <2>3 DEF TypeOK, StartWrites, Set, WorkerStatus
  <2>4. CASE Launched(c)
    BY <2>1, <2>4 DEF TypeOK, Launched, Set, disk
  <2>5. CASE PageOpened(c)
    BY <2>1, <2>5 DEF TypeOK, PageOpened, Set, disk, WorkerStatus
  <2>6. QED BY <1>1, <2>2, <2>3, <2>4, <2>5
<1>2. ASSUME NEW c \in Starts, LaunchFails(c) \/ OpeningFails(c) \/ FailureCleansUp(c)
      PROVE  TypeOK'
  <2>1. By[c] \in Processes OBVIOUS
  <2>2. CASE LaunchFails(c)
    BY <2>1, <2>2 DEF TypeOK, LaunchFails, Failed, Release, Set, WorkerStatus
  <2>3. CASE OpeningFails(c)
    BY <2>1, <2>3 DEF TypeOK, OpeningFails, Set, disk
  <2>4. CASE FailureCleansUp(c)
    BY <2>1, <2>4 DEF TypeOK, FailureCleansUp, Failed, Release, Closing, Set, WorkerStatus
  <2>5. QED BY <1>2, <2>2, <2>3, <2>4
<1>3. ASSUME NEW c \in Starts, BrowserCloses(c) \/ CloseIsNoticed(c) \/ StopEnds(c)
      PROVE  TypeOK'
  <2>1. By[c] \in Processes OBVIOUS
  <2>2. CASE BrowserCloses(c)
    BY <2>1, <2>2 DEF TypeOK, BrowserCloses, Set, disk, calls
  <2>3. CASE CloseIsNoticed(c)
    BY <2>1, <2>3 DEF TypeOK, CloseIsNoticed, Stopped, Release, Set, calls, WorkerStatus
  <2>4. CASE StopEnds(c)
    BY <2>1, <2>4 DEF TypeOK, StopEnds, Stopped, Release, Closing, Set, WorkerStatus
  <2>5. QED BY <1>3, <2>2, <2>3, <2>4
<1>4. ASSUME NEW p \in Processes, StopNothing(p) \/ StopBegins(p) \/ Pause(p) \/ Resume(p)
      PROVE  TypeOK'
  <2>1. CASE StopNothing(p)
    BY <2>1 DEF TypeOK, StopNothing, Stopped, Release, Set, calls, WorkerStatus
  <2>2. CASE StopBegins(p)
    BY <2>2 DEF TypeOK, StopBegins, Set, disk
  <2>3. CASE Pause(p)
    BY <2>3 DEF TypeOK, Pause, Set, disk, calls, WorkerStatus
  <2>4. CASE Resume(p)
    BY <2>4 DEF TypeOK, Resume, Set, disk, calls, WorkerStatus
  <2>5. QED BY <1>4, <2>1, <2>2, <2>3, <2>4
<1>5. ASSUME NEW p \in Processes, Crash(p) PROVE TypeOK'
  BY <1>5 DEF TypeOK, Crash, Set, disk, WorkerStatus, TaskState
<1>6. ASSUME NEW p \in Processes, Boot(p) PROVE TypeOK'
  BY <1>6 DEF TypeOK, Boot, Set, calls, WorkerStatus, TaskState
<1>7. ASSUME NEW p \in Processes, NEW t \in Tasks, ConfirmDenied(p, t) PROVE TypeOK'
  BY <1>7 DEF TypeOK, ConfirmDenied, Snapshot, Set, calls, TaskState
<1>8. ASSUME NEW p \in Processes, NEW t \in Tasks, Confirm(p, t) PROVE TypeOK'
  <2>1. session[p] \in Starts
    BY <1>8 DEF TypeOK, Confirm
  <2>2. submit' \subseteq [task : Tasks, by : Processes, on : Starts, clicked : BOOLEAN]
    <3>1. [task |-> t, by |-> p, on |-> session[p], clicked |-> FALSE]
            \in [task : Tasks, by : Processes, on : Starts, clicked : BOOLEAN]
      BY <2>1
    <3>2. PICK new : new = [task |-> t, by |-> p, on |-> session[p], clicked |-> FALSE]
      OBVIOUS
    <3>3. submit' = submit \cup {new}
      BY <1>8, <3>2 DEF Confirm
    <3>4. QED BY <3>1, <3>2, <3>3 DEF TypeOK
  <2>3. /\ saved' \in [Tasks -> TaskState]
        /\ task' \in [Processes -> [Tasks -> TaskState]]
        /\ status' \in [Processes -> WorkerStatus]
    BY <1>8 DEF TypeOK, Confirm, Transition, Snapshot, Set, TaskState, WorkerStatus
  <2>4. QED
    BY <1>8, <2>2, <2>3 DEF TypeOK, Confirm
<1>9. ASSUME NEW s \in submit, Click(s) PROVE TypeOK'
  <2>1. effects' \in [Tasks -> 0..MaxEffects]
    BY <1>9 DEF TypeOK, Click
  <2>2. QED BY <1>9, <2>1 DEF TypeOK, Click, disk
<1>10. ASSUME NEW s \in submit, SubmissionEnds(s) PROVE TypeOK'
  BY <1>10 DEF TypeOK, SubmissionEnds, Transition, Snapshot, Set, TaskState, WorkerStatus
<1>11. CASE UNCHANGED vars
  BY <1>11 DEF TypeOK, vars
<1>12. QED
  BY <1>1, <1>2, <1>3, <1>4, <1>5, <1>6, <1>7, <1>8, <1>9, <1>10, <1>11 DEF Next

\* Every variable of a worker stays in its range.
THEOREM TypesHold == Spec => []TypeOK
<1>1. Init => TypeOK
  BY WorkersAssumption DEF Init, TypeOK, TaskState, WorkerStatus
<1>2. QED BY <1>1, TypeStep, PTL DEF Spec

--------------------------------------------------------------------------
(* The lease *)

\* Whatever a step does, the lease of a process that lives has something
\* left that releases it.
LEMMA LeaseStep == ASSUME TypeOK, LeaseInv, [Next]_vars PROVE LeaseInv'
<1> USE WorkersAssumption
<1>1. ASSUME NEW c \in Starts, StartReads(c) PROVE LeaseInv'
  BY <1>1 DEF TypeOK, LeaseInv, Releases, StartReads, Ready, Set, disk
<1>2. ASSUME NEW c \in Starts, StartWrites(c) PROVE LeaseInv'
  BY <1>2 DEF TypeOK, LeaseInv, Releases, StartWrites, Set
<1>3. ASSUME NEW c \in Starts, Launched(c) PROVE LeaseInv'
  BY <1>3 DEF TypeOK, LeaseInv, Releases, Launched, Set, disk
<1>4. ASSUME NEW c \in Starts, PageOpened(c) PROVE LeaseInv'
  BY <1>4 DEF TypeOK, LeaseInv, Releases, PageOpened, Set, disk
<1>5. ASSUME NEW c \in Starts, LaunchFails(c) PROVE LeaseInv'
  BY <1>5 DEF TypeOK, LeaseInv, LaunchFails, Failed, Release, Set
<1>6. ASSUME NEW c \in Starts, OpeningFails(c) PROVE LeaseInv'
  BY <1>6 DEF TypeOK, LeaseInv, Releases, OpeningFails, Set, disk
<1>7. ASSUME NEW c \in Starts, FailureCleansUp(c) PROVE LeaseInv'
  BY <1>7 DEF TypeOK, LeaseInv, FailureCleansUp, Failed, Release, Set
<1>8. ASSUME NEW c \in Starts, BrowserCloses(c) PROVE LeaseInv'
  BY <1>8 DEF LeaseInv, Releases, BrowserCloses, disk, calls
<1>9. ASSUME NEW c \in Starts, CloseIsNoticed(c) PROVE LeaseInv'
  BY <1>9 DEF TypeOK, LeaseInv, Releases, CloseIsNoticed, Stopped, Release, Set, calls
<1>10. ASSUME NEW c \in Starts, StopEnds(c) PROVE LeaseInv'
  BY <1>10 DEF TypeOK, LeaseInv, StopEnds, Stopped, Release, Set
<1>11. ASSUME NEW p \in Processes, StopNothing(p) PROVE LeaseInv'
  BY <1>11 DEF TypeOK, LeaseInv, StopNothing, Stopped, Release, Set, calls
<1>12. ASSUME NEW p \in Processes, StopBegins(p) PROVE LeaseInv'
  <2>1. session[p] \in Starts /\ By[session[p]] = p /\ session[p] \in stopping'
    BY <1>12 DEF TypeOK, LeaseInv, StopBegins
  <2>2. QED BY <1>12, <2>1 DEF TypeOK, LeaseInv, Releases, StopBegins, Set, disk
<1>13. ASSUME NEW p \in Processes, Pause(p) \/ Resume(p) PROVE LeaseInv'
  BY <1>13 DEF LeaseInv, Releases, Pause, Resume, disk, calls
<1>14. ASSUME NEW p \in Processes, Crash(p) PROVE LeaseInv'
  BY <1>14 DEF TypeOK, LeaseInv, Releases, Crash, Set, disk
<1>15. ASSUME NEW p \in Processes, Boot(p) PROVE LeaseInv'
  BY <1>15 DEF TypeOK, LeaseInv, Releases, Boot, Set, calls
<1>16. ASSUME NEW p \in Processes, NEW t \in Tasks, ConfirmDenied(p, t) \/ Confirm(p, t)
       PROVE  LeaseInv'
  BY <1>16 DEF LeaseInv, Releases, ConfirmDenied, Confirm, calls
<1>17. ASSUME NEW s \in submit, Click(s) \/ SubmissionEnds(s) PROVE LeaseInv'
  BY <1>17 DEF LeaseInv, Releases, Click, SubmissionEnds, disk
<1>18. CASE UNCHANGED vars
  BY <1>18 DEF LeaseInv, Releases, vars
<1>19. QED
  BY <1>1, <1>2, <1>3, <1>4, <1>5, <1>6, <1>7, <1>8, <1>9, <1>10, <1>11, <1>12, <1>13,
     <1>14, <1>15, <1>16, <1>17, <1>18 DEF Next

\* The lease of a living process never outlives what would release it.
THEOREM LeaseHolds == Spec => []LeaseInv
<1>1. Init => LeaseInv
  BY WorkersAssumption DEF Init, LeaseInv
<1>2. TypeOK /\ LeaseInv /\ [Next]_vars => LeaseInv'
  BY LeaseStep
<1>3. QED BY <1>1, <1>2, TypesHold, PTL DEF Spec

\* A process that is done with the worker (no session, no start, failure or
\* stop under way) keeps nobody from the profile.
THEOREM ProfileIsNotLockedOutHolds == Spec => []ProfileIsNotLockedOut
<1>1. LeaseInv => ProfileIsNotLockedOut
  BY DEF LeaseInv, Releases, ProfileIsNotLockedOut, AtRest
<1>2. QED BY <1>1, LeaseHolds, PTL

--------------------------------------------------------------------------
(* The log *)

\* A task leaves "ready" in the log before anything is submitted for it.
LEMMA LogStep == ASSUME TypeOK, LogInv, [Next]_vars PROVE LogInv'
<1>1. ASSUME NEW c \in Starts,
             \/ StartReads(c) \/ StartWrites(c) \/ Launched(c) \/ PageOpened(c)
             \/ LaunchFails(c) \/ OpeningFails(c) \/ FailureCleansUp(c)
             \/ BrowserCloses(c) \/ CloseIsNoticed(c) \/ StopEnds(c)
      PROVE  LogInv'
  <2>1. UNCHANGED <<saved, task, submit, effects>>
    BY <1>1 DEF StartReads, StartWrites, Launched, PageOpened, LaunchFails, OpeningFails,
                FailureCleansUp, BrowserCloses, CloseIsNoticed, StopEnds, disk, calls
  <2>2. QED BY <2>1 DEF LogInv, SubmittedIsNeverReady
<1>2. ASSUME NEW p \in Processes, StopNothing(p) \/ StopBegins(p) \/ Pause(p) \/ Resume(p)
      PROVE  LogInv'
  <2>1. UNCHANGED <<saved, task, submit, effects>>
    BY <1>2 DEF StopNothing, StopBegins, Pause, Resume, disk, calls
  <2>2. QED BY <2>1 DEF LogInv, SubmittedIsNeverReady
<1>3. ASSUME NEW p \in Processes, Crash(p) PROVE LogInv'
  BY <1>3 DEF TypeOK, LogInv, SubmittedIsNeverReady, Crash, Set, disk
<1>4. ASSUME NEW p \in Processes, Boot(p) PROVE LogInv'
  BY <1>4 DEF TypeOK, LogInv, SubmittedIsNeverReady, Boot, Set, calls
<1>5. ASSUME NEW p \in Processes, NEW t \in Tasks, ConfirmDenied(p, t) PROVE LogInv'
  BY <1>5 DEF TypeOK, LogInv, SubmittedIsNeverReady, ConfirmDenied, Snapshot, Set, calls
<1>6. ASSUME NEW p \in Processes, NEW t \in Tasks, Confirm(p, t) PROVE LogInv'
  <2>1. /\ saved'[t] # "ready"
        /\ \A u \in Tasks : saved[u] # "ready" => saved'[u] # "ready"
    BY <1>6 DEF TypeOK, LogInv, Confirm, Transition, Snapshot, Set
  <2>2. \A q \in Processes, u \in Tasks : task'[q][u] # "ready" => saved'[u] # "ready"
    BY <1>6, <2>1 DEF TypeOK, LogInv, Confirm, Transition
  <2>3. \A s \in submit' : saved'[s.task] # "ready"
    BY <1>6, <2>1 DEF TypeOK, LogInv, Confirm
  <2>4. QED
    BY <1>6, <2>1, <2>2, <2>3 DEF LogInv, SubmittedIsNeverReady, Confirm
<1>7. ASSUME NEW s \in submit, Click(s) PROVE LogInv'
  <2>1. \A u \in Tasks : effects'[u] > 0 => u = s.task \/ effects[u] > 0
    BY <1>7 DEF TypeOK, Click
  <2>2. \A r \in submit' : r \in submit \/ r.task = s.task
    BY <1>7 DEF TypeOK, Click
  <2>3. QED
    BY <1>7, <2>1, <2>2 DEF TypeOK, LogInv, SubmittedIsNeverReady, Click, disk
<1>8. ASSUME NEW s \in submit, SubmissionEnds(s) PROVE LogInv'
  <2>1. s.task \in Tasks /\ s.by \in Processes
    BY DEF TypeOK
  <2>2. \A u \in Tasks : saved[u] # "ready" => saved'[u] # "ready"
    BY <1>8, <2>1 DEF TypeOK, SubmissionEnds, Transition, Snapshot, Set
  <2>3. \A q \in Processes, u \in Tasks : task'[q][u] # "ready" => saved'[u] # "ready"
    BY <1>8, <2>1 DEF TypeOK, LogInv, SubmissionEnds, Transition, Snapshot, Set
  <2>4. QED
    BY <1>8, <2>2, <2>3 DEF TypeOK, LogInv, SubmittedIsNeverReady, SubmissionEnds
<1>9. CASE UNCHANGED vars
  BY <1>9 DEF LogInv, SubmittedIsNeverReady, vars
<1>10. QED
  BY <1>1, <1>2, <1>3, <1>4, <1>5, <1>6, <1>7, <1>8, <1>9 DEF Next

\* What may have reached the page is never offered as untouched work again.
THEOREM SubmittedIsNeverReadyHolds == Spec => []SubmittedIsNeverReady
<1>1. Init => LogInv
  BY DEF Init, LogInv, SubmittedIsNeverReady
<1>2. TypeOK /\ LogInv /\ [Next]_vars => LogInv'
  BY LogStep
<1>3. LogInv => SubmittedIsNeverReady
  BY DEF LogInv
<1>4. QED BY <1>1, <1>2, <1>3, TypesHold, PTL DEF Spec

--------------------------------------------------------------------------
(* The close event *)

\* The late close event of a browser leaves session, lease and record of the
\* process alone when it uses another browser by then.
THEOREM LateCloseSparesTheNextHolds == Spec => LateCloseSparesTheNext
<1> USE WorkersAssumption
<1> DEFINE Spared(c) == /\ browser[c] = "closed" /\ browser'[c] = "none" /\ By[c] \in up'
                        /\ session[By[c]] \notin {c, NoStart}
                        => session' = session /\ lease' = lease /\ status' = status
<1>1. ASSUME TypeOK, [Next]_vars, NEW c \in Starts PROVE Spared(c)
  <2> SUFFICES ASSUME browser[c] = "closed", browser'[c] = "none", By[c] \in up',
                      session[By[c]] \notin {c, NoStart}
               PROVE  session' = session /\ lease' = lease /\ status' = status
    OBVIOUS
  <2>1. ASSUME NEW d \in Starts, CloseIsNoticed(d)
        PROVE  session' = session /\ lease' = lease /\ status' = status
    <3>1. d = c
      BY <2>1 DEF TypeOK, CloseIsNoticed, Set
    <3>2. QED BY <2>1, <3>1 DEF CloseIsNoticed
  <2>2. ASSUME NEW p \in Processes, Crash(p) PROVE FALSE
    BY <2>2 DEF TypeOK, Crash
  <2>3. ASSUME NEW d \in Starts,
               \/ Launched(d) \/ FailureCleansUp(d) \/ BrowserCloses(d) \/ StopEnds(d)
        PROVE  FALSE
    <3>1. CASE Launched(d)
      BY <1>1, <3>1 DEF TypeOK, Launched, Set
    <3>2. CASE BrowserCloses(d)
      BY <1>1, <3>2 DEF TypeOK, BrowserCloses, Set
    <3>3. CASE FailureCleansUp(d) \/ StopEnds(d)
      <4>1. browser' = browser \/ browser' = [browser EXCEPT ![d] = "closed"]
        BY <3>3 DEF FailureCleansUp, StopEnds, Closing, Set
      <4>2. QED BY <1>1, <4>1 DEF TypeOK
    <3>4. QED BY <2>3, <3>1, <3>2, <3>3
  <2>4. browser' # browser
    OBVIOUS
  <2>5. QED
    BY <1>1, <2>1, <2>2, <2>3, <2>4
    DEF Next, StartReads, StartWrites, PageOpened, LaunchFails, OpeningFails, StopNothing,
        StopBegins, Pause, Resume, Boot, ConfirmDenied, Confirm, Click, SubmissionEnds, vars
<1>2. TypeOK /\ [Next]_vars =>
        [\A c \in Starts :
            /\ browser[c] = "closed" /\ browser'[c] = "none" /\ By[c] \in up'
            /\ session[By[c]] \notin {c, NoStart}
            => session' = session /\ lease' = lease /\ status' = status]_vars
  BY <1>1
<1>3. QED BY <1>2, TypesHold, PTL DEF Spec, LateCloseSparesTheNext

--------------------------------------------------------------------------
(* Events and logs *)

\* What an event says follows from its kind: a record's key holds its version,
\* a claim's key its outcome, and an imported event belongs to no record.
LEMMA EventParts ==
    /\ \A e \in Written :
          /\ e.record \in Kept /\ e.version \in Nat /\ e.version >= 1 /\ Row(e) \in Rows
          /\ e.record \in Records => e.key = <<e.record, e.version>>
          /\ e.record \in Claims => /\ e.key = <<e.record, e.value>>
                                    /\ e.value \in Outcomes
                                    /\ e.version = (IF e.value = "claimed" THEN 1 ELSE 2)
    /\ \A e \in FileEvents : e.record \in Files /\ e.record \notin Kept
<1> USE RecordsAssumption, FilesAssumption DEF Kept, Row, Rows
<1>1. ASSUME NEW e \in RecordEvents
      PROVE  /\ e.record \in Kept /\ e.version \in Nat /\ e.version >= 1 /\ Row(e) \in Rows
             /\ e.key = <<e.record, e.version>>
             /\ e.record \notin Claims
  BY DEF RecordEvents
<1>2. ASSUME NEW e \in ClaimEvents
      PROVE  /\ e.record \in Kept /\ e.version \in Nat /\ e.version >= 1 /\ Row(e) \in Rows
             /\ e.key = <<e.record, e.value>> /\ e.value \in Outcomes
             /\ e.version = (IF e.value = "claimed" THEN 1 ELSE 2)
             /\ e.record \notin Records
  BY DEF ClaimEvents
<1>3. ASSUME NEW e \in FileEvents PROVE e.record \in Files /\ e.record \notin Kept
  <2>1. PICK f \in Files : \E n \in 1..Len(Lines[f]) : e = Imported(f)[n]
    BY DEF FileEvents
  <2>2. e.record = f
    BY <2>1 DEF Imported
  <2>3. QED BY <2>2
<1>4. QED BY <1>1, <1>2, <1>3 DEF Written

\* The last event of a record is the one no other of its events follows.
LEMMA LatestIs ==
    ASSUME NEW l, NEW r, NEW i, Len(l) \in Nat, IsLast(l, r, i)
    PROVE  Latest(l, r) = Row(l[i])
<1>1. \A j \in Own(l, r) : IsLast(l, r, j) => j = i
  BY DEF IsLast, Own
<1>2. (CHOOSE j \in Own(l, r) : IsLast(l, r, j)) = i
  BY <1>1 DEF IsLast
<1>3. QED BY <1>2 DEF Latest, IsLast

\* A log that keeps the events of a record keeps the last of them.
LEMMA LatestKept ==
    ASSUME NEW l, NEW m, NEW r, Len(l) \in Nat, Len(m) \in Nat,
           Own(m, r) = Own(l, r), \A i \in Own(l, r) : m[i] = l[i],
           Own(l, r) = {} \/ \E i \in Own(l, r) : IsLast(l, r, i)
    PROVE  Latest(m, r) = Latest(l, r)
<1>1. CASE Own(l, r) = {}
  BY <1>1 DEF Latest
<1>2. CASE \E i \in Own(l, r) : IsLast(l, r, i)
  <2>1. PICK i \in Own(l, r) : IsLast(l, r, i)
    BY <1>2
  <2>2. IsLast(m, r, i)
    BY <2>1 DEF IsLast
  <2>3. Latest(l, r) = Row(l[i]) /\ Latest(m, r) = Row(m[i])
    BY <2>1, <2>2, LatestIs
  <2>4. QED BY <2>3
<1>3. QED BY <1>1, <1>2

\* An appended event is the last of its record, and nothing else changes.
LEMMA AppendOwn ==
    ASSUME NEW l \in Seq(Written \cup FileEvents), NEW e \in Written \cup FileEvents, NEW r
    PROVE  /\ Append(l, e) \in Seq(Written \cup FileEvents) /\ Len(Append(l, e)) = Len(l) + 1 /\ Len(l) \in Nat
           /\ \A i \in Own(l, r) : Append(l, e)[i] = l[i] /\ i \in 1..Len(l)
           /\ \A i \in 1..Len(l) : Append(l, e)[i] = l[i]
           /\ Append(l, e)[Len(l) + 1] = e
           /\ e.record # r => Own(Append(l, e), r) = Own(l, r)
           /\ e.record = r => Own(Append(l, e), r) = Own(l, r) \cup {Len(l) + 1}
BY DEF Own

\* The same for a whole file.
LEMMA ConcatOwn ==
    ASSUME NEW l \in Seq(Written \cup FileEvents), NEW m \in Seq(Written \cup FileEvents), NEW r
    PROVE  /\ l \o m \in Seq(Written \cup FileEvents) /\ Len(l \o m) = Len(l) + Len(m) /\ Len(l) \in Nat /\ Len(m) \in Nat
           /\ \A i \in Own(l, r) : (l \o m)[i] = l[i] /\ i \in 1..Len(l)
           /\ \A i \in 1..Len(l) : (l \o m)[i] = l[i]
           /\ \A n \in 1..Len(m) : (l \o m)[Len(l) + n] = m[n]
           /\ (\A n \in 1..Len(m) : m[n].record # r) => Own(l \o m, r) = Own(l, r)
           /\ (\A n \in 1..Len(m) : m[n].record = r) =>
                 Own(l \o m, r) = Own(l, r) \cup ((Len(l) + 1)..(Len(l) + Len(m)))
<1>1. /\ l \o m \in Seq(Written \cup FileEvents) /\ Len(l \o m) = Len(l) + Len(m) /\ Len(l) \in Nat /\ Len(m) \in Nat
      /\ \A i \in 1..Len(l) : (l \o m)[i] = l[i]
      /\ \A n \in 1..Len(m) : (l \o m)[Len(l) + n] = m[n]
  OBVIOUS
<1>2. \A i \in (Len(l) + 1)..(Len(l) + Len(m)) :
         i - Len(l) \in 1..Len(m) /\ (l \o m)[i] = m[i - Len(l)]
  BY <1>1
<1>3. (\A n \in 1..Len(m) : m[n].record # r) => Own(l \o m, r) = Own(l, r)
  BY <1>1, <1>2 DEF Own
<1>4. (\A n \in 1..Len(m) : m[n].record = r) =>
         Own(l \o m, r) = Own(l, r) \cup ((Len(l) + 1)..(Len(l) + Len(m)))
  BY <1>1, <1>2 DEF Own
<1>5. QED BY <1>1, <1>3, <1>4 DEF Own

\* What was imported of a file are events of the file.
LEMMA ImportedParts ==
    ASSUME NEW f \in Files
    PROVE  /\ Imported(f) \in Seq(Written \cup FileEvents)
           /\ Len(Imported(f)) = Len(Lines[f]) /\ Len(Lines[f]) \in Nat
           /\ \A n \in 1..Len(Lines[f]) : /\ Imported(f)[n].record = f
                                         /\ Imported(f)[n].value = Lines[f][n]
<1>1. Lines[f] \in Seq(Range(Lines[f]))
  BY FilesAssumption
<1>2. Len(Lines[f]) \in Nat
  BY <1>1
<1>3. \A n \in 1..Len(Lines[f]) : Imported(f)[n] \in FileEvents
  BY DEF FileEvents
<1>4. Imported(f) \in [1..Len(Lines[f]) -> Written \cup FileEvents]
  BY <1>3 DEF Imported
<1>5. Imported(f) \in Seq(Written \cup FileEvents) /\ Len(Imported(f)) = Len(Lines[f])
  BY <1>2, <1>4
<1>6. QED BY <1>2, <1>5 DEF Imported

--------------------------------------------------------------------------
(* Operations *)

\* What an operation carries depends on how far it is.
LEMMA OperationParts ==
    ASSUME StoreTypeOK, NEW p \in StoreProcesses
    PROVE  /\ op[p].pc \in {"look", "compare", "write"} =>
                 op[p].event \in Written /\ op[p] = [pc |-> op[p].pc, event |-> op[p].event]
           /\ op[p].pc = "replace" => op[p].found \in [Records -> Rows]
           /\ op[p].pc = "insert" => op[p].file \in Files
BY DEF StoreTypeOK, Operations, Idle

\* The row of the last event of a record is a row of the log.
LEMMA LatestLogged ==
    ASSUME StoreTypeOK, NEW r \in Kept, HasLast(r)
    PROVE  Logged(r, Latest(log, r)) /\ Latest(log, r) \in Rows
<1>1. CASE Own(log, r) = {}
  BY <1>1 DEF Latest, Logged, Absent, Rows
<1>2. CASE \E i \in Own(log, r) : IsLast(log, r, i)
  <2>1. PICK i \in Own(log, r) : IsLast(log, r, i)
    BY <1>2
  <2>2. Latest(log, r) = Row(log[i])
    BY <2>1, LatestIs DEF StoreTypeOK
  <2>3. log[i] \in Written
    BY EventParts DEF StoreTypeOK, Own
  <2>4. QED BY <2>2, <2>3, EventParts DEF Logged
<1>3. QED BY <1>1, <1>2 DEF HasLast
--------------------------------------------------------------------------
(* Every step *)

\* The other steps leave the tables and the caches alone.
LEMMA OthersRead ==
    ASSUME StoreTypeOK, [StoreNext]_storeVars
    PROVE  \/ \E p \in StoreProcesses : Write(p) \/ Replace(p) \/ Insert(p) \/ Restart(p)
           \/ UNCHANGED <<log, rows, journal, behind, cache>>
<1>1. ASSUME NEW p \in StoreProcesses,
             \/ \E r \in Records, v \in Values : Save(p, r, v)
             \/ \E c \in Claims, what \in {"claimed", "outcome", "recovery"} : WriteClaim(p, c, what)
             \/ Compare(p) \/ Busy(p) \/ ReadLog(p)
             \/ \E f \in Files : Import(p, f)
      PROVE  UNCHANGED <<log, rows, journal, behind, cache>>
  BY <1>1 DEF Save, WriteClaim, Compare, Busy, ReadLog, Import, Reads, Throws
<1>2. ASSUME NEW p \in StoreProcesses, LookUp(p)
      PROVE  UNCHANGED <<log, rows, journal, behind, cache>>
  <2>1. op[p].event.record \in Kept
    BY <1>2, OperationParts, EventParts DEF LookUp, At
  <2>2. QED BY <1>2, <2>1 DEF LookUp, Kept, Reads, Throws
<1>3. CASE UNCHANGED storeVars
  BY <1>3 DEF storeVars
<1>4. QED BY <1>1, <1>2, <1>3 DEF StoreNext

\* A step leaves the log as it is, appends the event in hand under a new key,
\* or adds the lines of a file.
LEMMA StoreLogStep ==
    ASSUME StoreTypeOK, [StoreNext]_storeVars
    PROVE  \/ log' = log
           \/ \E p \in StoreProcesses :
                /\ At(p, "write") /\ Storable(op[p].event)
                /\ ~HasKey(op[p].event.key) /\ Moves(op[p].event)
                /\ log' = Append(log, op[p].event)
                /\ rows' = [rows EXCEPT ![op[p].event.record] = Row(op[p].event)]
                /\ Remember(p, op[p].event) /\ Done(p)
                /\ UNCHANGED <<journal, behind>>
           \/ \E p \in StoreProcesses : \E f \in Files :
                /\ At(p, "insert") /\ op[p].file = f /\ f \notin DOMAIN journal
                /\ log' = log \o Imported(f)
                /\ journal' = [g \in DOMAIN journal \cup {f} |->
                                  IF g = f THEN Len(Imported(f)) ELSE journal[g]]
                /\ Done(p) /\ UNCHANGED <<rows, cache, behind>>
<1>1. ASSUME NEW p \in StoreProcesses, Write(p), log' # log
      PROVE  /\ At(p, "write") /\ Storable(op[p].event)
             /\ ~HasKey(op[p].event.key) /\ Moves(op[p].event)
             /\ log' = Append(log, op[p].event)
             /\ rows' = [rows EXCEPT ![op[p].event.record] = Row(op[p].event)]
             /\ Remember(p, op[p].event) /\ Done(p)
             /\ UNCHANGED <<journal, behind>>
  BY <1>1 DEF Write, Throws
<1>2. ASSUME NEW p \in StoreProcesses, Insert(p), log' # log
      PROVE  \E f \in Files :
                /\ At(p, "insert") /\ op[p].file = f /\ f \notin DOMAIN journal
                /\ log' = log \o Imported(f)
                /\ journal' = [g \in DOMAIN journal \cup {f} |->
                                  IF g = f THEN Len(Imported(f)) ELSE journal[g]]
                /\ Done(p) /\ UNCHANGED <<rows, cache, behind>>
  BY <1>2, OperationParts DEF Insert, Throws, At
<1>3. ASSUME NEW p \in StoreProcesses, Replace(p) \/ Restart(p) PROVE log' = log
  BY <1>3 DEF Replace, Restart
<1>4. QED BY <1>1, <1>2, <1>3, OthersRead

\* A log only grows.
LEMMA LogGrows ==
    ASSUME StoreTypeOK, [StoreNext]_storeVars
    PROVE  /\ log' \in Seq(Written \cup FileEvents)
           /\ \A r : \A i \in Own(log, r) : i \in Own(log', r) /\ log'[i] = log[i]
<1>1. CASE log' = log
  BY <1>1 DEF StoreTypeOK
<1>2. ASSUME NEW p \in StoreProcesses, At(p, "write"), log' = Append(log, op[p].event)
      PROVE  /\ log' \in Seq(Written \cup FileEvents)
             /\ \A r : \A i \in Own(log, r) : i \in Own(log', r) /\ log'[i] = log[i]
  <2>1. op[p].event \in Written \cup FileEvents
    BY <1>2, OperationParts DEF At
  <2>2. QED BY <1>2, <2>1, AppendOwn DEF StoreTypeOK, Own
<1>3. ASSUME NEW f \in Files, log' = log \o Imported(f)
      PROVE  /\ log' \in Seq(Written \cup FileEvents)
             /\ \A r : \A i \in Own(log, r) : i \in Own(log', r) /\ log'[i] = log[i]
  <2>1. Imported(f) \in Seq(Written \cup FileEvents)
    BY ImportedParts
  <2>2. QED BY <1>3, <2>1, ConcatOwn DEF StoreTypeOK, Own
<1>4. QED BY <1>1, <1>2, <1>3, StoreLogStep

\* What a row was written with stays in the log.
LEMMA LoggedStays ==
    ASSUME StoreTypeOK, [StoreNext]_storeVars, NEW r, NEW row, Logged(r, row)
    PROVE  row = Absent \/ \E i \in Own(log', r) : Row(log'[i]) = row
BY LogGrows DEF Logged, Row


\* So does the version before the one in hand.
LEMMA FollowsStays ==
    ASSUME StoreTypeOK, [StoreNext]_storeVars, NEW e, Follows(e)
    PROVE  e.version = 1 \/ \E i \in Own(log', e.record) : log'[i].version = e.version - 1
BY LogGrows DEF Follows

\* An operation nobody continues keeps what it has read.
LEMMA OperationStays ==
    ASSUME StoreTypeOK, [StoreNext]_storeVars, NEW q, OperationOK(q), op'[q] = op[q]
    PROVE  OperationOK(q)'
<1>1. op'[q].pc \in {"look", "compare", "write"} => Follows(op[q].event)'
  BY FollowsStays DEF OperationOK, Follows
<1>2. op'[q].pc = "replace" => \A r \in Records : Logged(r, op[q].found[r])'
  BY LoggedStays DEF OperationOK, Logged
<1>3. QED BY <1>1, <1>2 DEF OperationOK

\* Every operation carries a well-formed event, rows of the log or a clean file.
LEMMA OperationStep ==
    ASSUME StoreTypeOK, \A p \in StoreProcesses : OperationOK(p),
           \A r \in Kept : HasLast(r) /\ Logged(r, rows[r]), [StoreNext]_storeVars
    PROVE  op' \in [StoreProcesses -> Operations] /\ \A q \in StoreProcesses : OperationOK(q)'
<1>1. ASSUME NEW p \in StoreProcesses, NEW step \in Operations, Goes(p, step), OperationOK(p)'
      PROVE  op' \in [StoreProcesses -> Operations] /\ \A q \in StoreProcesses : OperationOK(q)'
  BY <1>1, OperationStays DEF Goes, StoreTypeOK
<1>2. ASSUME NEW p \in StoreProcesses, Done(p)
      PROVE  op' \in [StoreProcesses -> Operations] /\ \A q \in StoreProcesses : OperationOK(q)'
  <2>1. Idle \in Operations BY DEF Operations
  <2>2. op'[p] = Idle BY <1>2 DEF Done, Goes, StoreTypeOK
  <2>3. OperationOK(p)' BY <2>2 DEF OperationOK, Idle
  <2>4. QED BY <1>1, <1>2, <2>1, <2>3 DEF Done
<1>3. ASSUME NEW p \in StoreProcesses, NEW e \in Written, Follows(e),
             NEW at \in {"look", "compare", "write"}, at = "compare" => e.record \in Records,
             Reads(p, [pc |-> at, event |-> e])
      PROVE  op' \in [StoreProcesses -> Operations] /\ \A q \in StoreProcesses : OperationOK(q)'
  <2>1. [pc |-> at, event |-> e] \in Operations BY DEF Operations
  <2>2. op'[p] = [pc |-> at, event |-> e] BY <1>3 DEF Reads, Goes, StoreTypeOK
  <2>3. OperationOK(p)' BY <1>3, <2>2 DEF OperationOK, Reads, Follows
  <2>4. QED BY <1>1, <1>3, <2>1, <2>3 DEF Reads
<1>4. ASSUME NEW p \in StoreProcesses, NEW r \in Records, NEW v \in Values, Save(p, r, v)
      PROVE  op' \in [StoreProcesses -> Operations] /\ \A q \in StoreProcesses : OperationOK(q)'
  <2>1. PICK n \in Nat \ {0} : n = rows[r].version + 1
    BY DEF StoreTypeOK, Rows, Kept
  <2>2. PICK e : e = [key |-> <<r, n>>, record |-> r, version |-> n, value |-> v]
    OBVIOUS
  <2>3. e \in Written BY <2>2 DEF Written, RecordEvents
  <2>4. Follows(e)
    <3>1. rows[r].version \in Nat /\ (rows[r] = Absent \/ \E i \in Own(log, r) : Row(log[i]) = rows[r])
      BY DEF StoreTypeOK, Rows, Kept, Logged
    <3>2. rows[r] = Absent => n = 1
      BY <2>1 DEF Absent
    <3>3. \A i \in Own(log, r) : Row(log[i]) = rows[r] => log[i].version = n - 1
      BY <2>1, <3>1 DEF Row
    <3>4. e.version = n /\ e.record = r BY <2>2
    <3>5. QED BY <3>1, <3>2, <3>3, <3>4 DEF Follows
  <2>5. Reads(p, [pc |-> "look", event |-> e])
    BY <1>4, <2>1, <2>2 DEF Save
  <2>6. QED BY <1>3, <2>3, <2>4, <2>5
<1>5. ASSUME NEW p \in StoreProcesses, NEW c \in Claims, NEW what \in Outcomes, WriteClaim(p, c, what)
      PROVE  op' \in [StoreProcesses -> Operations] /\ \A q \in StoreProcesses : OperationOK(q)'
  <2>1. PICK n : n = IF what = "claimed" THEN 1 ELSE rows[c].version + 1
    OBVIOUS
  <2>2. what # "claimed" => n = 2 /\ \E i \in Own(log, c) : log[i].version = 1
    <3>1. SUFFICES ASSUME what # "claimed"
                   PROVE  n = 2 /\ \E i \in Own(log, c) : log[i].version = 1
      OBVIOUS
    <3>2. rows[c].value = "claimed" BY <1>5, <3>1 DEF WriteClaim
    <3>3. PICK i \in Own(log, c) : Row(log[i]) = rows[c]
      BY <3>2 DEF Logged, Absent, None, Kept
    <3>4. log[i] \in Written /\ log[i].record = c
      BY EventParts DEF StoreTypeOK, Own, Kept
    <3>5. log[i].value = "claimed" /\ log[i].version = rows[c].version
      BY <3>2, <3>3 DEF Row
    <3>6. log[i].version = 1 BY <3>4, <3>5, EventParts
    <3>7. QED BY <2>1, <3>1, <3>5, <3>6
  <2>3. PICK e : e = [key |-> <<c, what>>, record |-> c, version |-> n, value |-> what]
    OBVIOUS
  <2>4. n = IF what = "claimed" THEN 1 ELSE 2 BY <2>1, <2>2
  <2>5. e \in Written BY <2>3, <2>4 DEF Written, ClaimEvents
  <2>6. Follows(e) BY <2>2, <2>3, <2>4 DEF Follows
  <2>7. Reads(p, [pc |-> "look", event |-> e])
    BY <1>5, <2>1, <2>3 DEF WriteClaim
  <2>8. QED BY <1>3, <2>5, <2>6, <2>7
<1>6. ASSUME NEW p \in StoreProcesses, LookUp(p)
      PROVE  op' \in [StoreProcesses -> Operations] /\ \A q \in StoreProcesses : OperationOK(q)'
  <2>1. op[p].event \in Written /\ op[p] = [pc |-> op[p].pc, event |-> op[p].event]
    BY <1>6, OperationParts DEF LookUp, At
  <2>2. op[p].event.record \in Kept BY <2>1, EventParts
  <2>3. Follows(op[p].event) BY <1>6 DEF LookUp, At, OperationOK
  <2>4. \/ Reads(p, [pc |-> "write", event |-> op[p].event])
        \/ Reads(p, [pc |-> "compare", event |-> op[p].event]) /\ op[p].event.record \in Records
        \/ Done(p)
    <3>1. /\ [op[p] EXCEPT !.pc = "write"] = [pc |-> "write", event |-> op[p].event]
          /\ [op[p] EXCEPT !.pc = "compare"] = [pc |-> "compare", event |-> op[p].event]
      BY <2>1
    <3>2. \/ Reads(p, [op[p] EXCEPT !.pc = "write"])
          \/ Reads(p, [op[p] EXCEPT !.pc = "compare"]) /\ op[p].event.record \in Records
          \/ Done(p)
      BY <1>6, <2>2 DEF LookUp, Throws, Kept
    <3>3. QED BY <3>1, <3>2
  <2>5. QED BY <1>2, <1>3, <2>1, <2>3, <2>4
<1>7. ASSUME NEW p \in StoreProcesses, Compare(p)
      PROVE  op' \in [StoreProcesses -> Operations] /\ \A q \in StoreProcesses : OperationOK(q)'
  <2>1. op[p].event \in Written /\ op[p] = [pc |-> op[p].pc, event |-> op[p].event]
    BY <1>7, OperationParts DEF Compare, At
  <2>2. Follows(op[p].event) BY <1>7 DEF Compare, At, OperationOK
  <2>3. Reads(p, [pc |-> "write", event |-> op[p].event]) \/ Done(p)
    BY <1>7, <2>1 DEF Compare, Throws
  <2>4. QED BY <1>2, <1>3, <2>1, <2>2, <2>3
<1>8. ASSUME NEW p \in StoreProcesses, Write(p) \/ Busy(p) \/ Replace(p) \/ Insert(p) \/ Restart(p)
      PROVE  op' \in [StoreProcesses -> Operations] /\ \A q \in StoreProcesses : OperationOK(q)'
  BY <1>2, <1>8 DEF Write, Busy, Replace, Insert, Restart, Throws
<1>9. ASSUME NEW p \in StoreProcesses, ReadLog(p)
      PROVE  op' \in [StoreProcesses -> Operations] /\ \A q \in StoreProcesses : OperationOK(q)'
  <2>1. PICK found : found = [r \in Records |-> Latest(log, r)]
    OBVIOUS
  <2>2. found \in [Records -> Rows] /\ \A r \in Records : Logged(r, found[r])
    BY <2>1, LatestLogged DEF Kept
  <2>3. [pc |-> "replace", found |-> found] \in Operations BY <2>2 DEF Operations
  <2>4. op'[p] = [pc |-> "replace", found |-> found] /\ log' = log
    BY <1>9, <2>1 DEF ReadLog, Reads, Goes, StoreTypeOK
  <2>5. OperationOK(p)' BY <2>2, <2>4 DEF OperationOK, Logged
  <2>6. QED BY <1>1, <1>9, <2>1, <2>3, <2>5 DEF ReadLog, Reads
<1>10. ASSUME NEW p \in StoreProcesses, NEW f \in Files, Import(p, f)
      PROVE  op' \in [StoreProcesses -> Operations] /\ \A q \in StoreProcesses : OperationOK(q)'
  <2>1. [pc |-> "insert", file |-> f] \in Operations BY DEF Operations
  <2>2. op'[p] = [pc |-> "insert", file |-> f]
    BY <1>10 DEF Import, Reads, Goes, StoreTypeOK
  <2>3. OperationOK(p)' BY <1>10, <2>2 DEF OperationOK, Import, Importable
  <2>4. QED BY <1>1, <1>10, <2>1, <2>3 DEF Import, Reads
<1>11. CASE UNCHANGED storeVars
  BY <1>11, OperationStays DEF storeVars, StoreTypeOK
<1>12. QED
  BY <1>4, <1>5, <1>6, <1>7, <1>8, <1>9, <1>10, <1>11 DEF StoreNext, Outcomes

--------------------------------------------------------------------------
(* Types, rows and caches *)

\* Every table and every cache stays in its range.
LEMMA StoreTypeStep ==
    ASSUME StoreTypeOK, \A p \in StoreProcesses : OperationOK(p),
           \A r \in Kept : HasLast(r) /\ Logged(r, rows[r]), [StoreNext]_storeVars
    PROVE  StoreTypeOK'
<1>1. log' \in Seq(Written \cup FileEvents) BY LogGrows
<1>2. op' \in [StoreProcesses -> Operations] BY OperationStep
<1>3. rows' \in [Kept -> Rows] /\ DOMAIN journal' \subseteq Files /\ behind' \subseteq Records
      /\ cache' \in [StoreProcesses -> [Records -> Rows]]
  <2> USE DEF StoreTypeOK, Kept
  <2>1. ASSUME NEW p \in StoreProcesses, Write(p)
        PROVE  rows' \in [Kept -> Rows] /\ DOMAIN journal' \subseteq Files /\ behind' \subseteq Records
               /\ cache' \in [StoreProcesses -> [Records -> Rows]]
    <3>1. Row(op[p].event) \in Rows /\ op[p].event.record \in Kept
      BY <2>1, OperationParts, EventParts DEF Write, At
    <3>2. rows' \in [Kept -> Rows]
      BY <2>1, <3>1 DEF Write, Throws
    <3>3. cache' \in [StoreProcesses -> [Records -> Rows]]
      <4>1. CASE cache' = cache BY <4>1
      <4>2. CASE cache' = [cache EXCEPT ![p][op[p].event.record] = Row(op[p].event)]
        BY <3>1, <4>2
      <4>3. QED BY <2>1, <4>1, <4>2 DEF Write, Throws, Remember
    <3>4. QED BY <2>1, <3>2, <3>3 DEF Write, Throws
  <2>2. ASSUME NEW p \in StoreProcesses, Replace(p)
        PROVE  rows' \in [Kept -> Rows] /\ DOMAIN journal' \subseteq Files /\ behind' \subseteq Records
               /\ cache' \in [StoreProcesses -> [Records -> Rows]]
    <3>1. op[p].found \in [Records -> Rows]
      BY <2>2, OperationParts DEF Replace, At
    <3>2. QED BY <2>2, <3>1 DEF Replace
  <2>3. ASSUME NEW p \in StoreProcesses, Insert(p)
        PROVE  rows' \in [Kept -> Rows] /\ DOMAIN journal' \subseteq Files /\ behind' \subseteq Records
               /\ cache' \in [StoreProcesses -> [Records -> Rows]]
    <3>1. op[p].file \in Files
      BY <2>3, OperationParts DEF Insert, At
    <3>2. QED BY <2>3, <3>1 DEF Insert, Throws
  <2>4. ASSUME NEW p \in StoreProcesses, Restart(p)
        PROVE  rows' \in [Kept -> Rows] /\ DOMAIN journal' \subseteq Files /\ behind' \subseteq Records
               /\ cache' \in [StoreProcesses -> [Records -> Rows]]
    BY <2>4 DEF Restart
  <2>5. CASE UNCHANGED <<rows, journal, behind, cache>>
    BY <2>5
  <2>6. QED BY <2>1, <2>2, <2>3, <2>4, <2>5, OthersRead
<1>4. QED BY <1>1, <1>2, <1>3 DEF StoreTypeOK

\* Each record still has a last event.
LEMMA LastStep ==
    ASSUME StoreTypeOK, NEW r \in Kept, HasLast(r), [StoreNext]_storeVars
    PROVE  HasLast(r)'
<1>1. CASE log' = log
  BY <1>1 DEF HasLast
<1>2. ASSUME NEW p \in StoreProcesses, At(p, "write"), log' = Append(log, op[p].event)
      PROVE  HasLast(r)'
  <2>1. op[p].event \in Written \cup FileEvents
    BY <1>2, OperationParts DEF At
  <2>2. CASE op[p].event.record = r
    <3>1. /\ Own(log', r) = Own(log, r) \cup {Len(log) + 1} /\ Len(log) \in Nat
          /\ \A i \in Own(log, r) : i \in 1..Len(log)
      <4>1. log \in Seq(Written \cup FileEvents) BY DEF StoreTypeOK
      <4>2. /\ Own(Append(log, op[p].event), r) = Own(log, r) \cup {Len(log) + 1}
            /\ Len(log) \in Nat
        BY <2>1, <2>2, <4>1, AppendOwn
      <4>3. QED BY <1>2, <4>2 DEF Own
    <3>2. IsLast(log', r, Len(log) + 1) BY <3>1 DEF IsLast
    <3>3. QED BY <3>1, <3>2 DEF HasLast
  <2>3. CASE op[p].event.record # r
    <3>1. Own(log', r) = Own(log, r)
      BY <1>2, <2>1, <2>3, AppendOwn DEF StoreTypeOK
    <3>2. QED BY <3>1 DEF HasLast, IsLast
  <2>4. QED BY <2>2, <2>3
<1>3. ASSUME NEW f \in Files, log' = log \o Imported(f)
      PROVE  HasLast(r)'
  <2>1. Own(log', r) = Own(log, r)
    <3>1. log \in Seq(Written \cup FileEvents) /\ Imported(f) \in Seq(Written \cup FileEvents)
      BY ImportedParts DEF StoreTypeOK
    <3>2. \A n \in 1..Len(Imported(f)) : Imported(f)[n].record # r
      BY ImportedParts, FilesAssumption DEF Kept
    <3>3. Own(log \o Imported(f), r) = Own(log, r)
      BY <3>1, <3>2, ConcatOwn
    <3>4. QED BY <1>3, <3>3
  <2>2. QED BY <2>1 DEF HasLast, IsLast
<1>4. QED BY <1>1, <1>2, <1>3, StoreLogStep

\* Events of other records leave the last event of a record alone.
LEMMA LatestStep ==
    ASSUME StoreTypeOK, NEW r \in Kept, HasLast(r), [StoreNext]_storeVars,
           Own(log', r) = Own(log, r)
    PROVE  Latest(log', r) = Latest(log, r)
<1>1. Len(log) \in Nat /\ Len(log') \in Nat /\ \A i \in Own(log, r) : log'[i] = log[i]
  BY LogGrows DEF StoreTypeOK
<1>2. QED BY <1>1, LatestKept DEF HasLast

--------------------------------------------------------------------------
(* The rows and the caches *)

\* An append makes a row of the new event; an import appends no row's event.
LEMMA AppendParts ==
    ASSUME StoreTypeOK, NEW p \in StoreProcesses, At(p, "write"), NEW r \in Kept,
           HasLast(r), [StoreNext]_storeVars, log' = Append(log, op[p].event)
    PROVE  /\ op[p].event \in Written /\ op[p].event.record \in Kept
           /\ op[p].event.record # r => /\ Own(log', r) = Own(log, r)
                                        /\ Latest(log', r) = Latest(log, r)
           /\ op[p].event.record = r => /\ Own(log', r) = Own(log, r) \cup {Len(log) + 1}
                                        /\ Latest(log', r) = Row(op[p].event)
           /\ log'[Len(log) + 1] = op[p].event /\ Len(log) \in Nat /\ Len(log') = Len(log) + 1
           /\ \A i \in Own(log, r) : log'[i] = log[i] /\ i \in 1..Len(log)
           /\ \A i \in 1..Len(log) : log'[i] = log[i]
<1>1. log \in Seq(Written \cup FileEvents) /\ op[p].event \in Written \cup FileEvents
      /\ op[p].event \in Written
  BY OperationParts DEF StoreTypeOK, At
<1>2. op[p].event.record \in Kept BY <1>1, EventParts
<1>3. /\ Len(log') = Len(log) + 1 /\ Len(log) \in Nat
      /\ \A i \in Own(log, r) : log'[i] = log[i] /\ i \in 1..Len(log)
      /\ \A i \in 1..Len(log) : log'[i] = log[i]
      /\ log'[Len(log) + 1] = op[p].event
      /\ op[p].event.record # r => Own(log', r) = Own(log, r)
      /\ op[p].event.record = r => Own(log', r) = Own(log, r) \cup {Len(log) + 1}
  <2>1. PICK e \in Written \cup FileEvents : e = op[p].event /\ log' = Append(log, e)
    BY <1>1
  <2>2. /\ Len(Append(log, e)) = Len(log) + 1 /\ Len(log) \in Nat
        /\ \A i \in Own(log, r) : Append(log, e)[i] = log[i] /\ i \in 1..Len(log)
        /\ \A i \in 1..Len(log) : Append(log, e)[i] = log[i]
        /\ Append(log, e)[Len(log) + 1] = e
        /\ e.record # r => Own(Append(log, e), r) = Own(log, r)
        /\ e.record = r => Own(Append(log, e), r) = Own(log, r) \cup {Len(log) + 1}
    <3>1. log \in Seq(Written \cup FileEvents) /\ e \in Written \cup FileEvents
      BY <1>1
    <3>2. Len(Append(log, e)) = Len(log) + 1 /\ Len(log) \in Nat /\ Append(log, e)[Len(log) + 1] = e
      BY <3>1, AppendOwn
    <3>3. \A i \in Own(log, r) : Append(log, e)[i] = log[i] /\ i \in 1..Len(log)
      BY <3>1, AppendOwn
    <3>4. \A i \in 1..Len(log) : Append(log, e)[i] = log[i]
      BY <3>1, AppendOwn
    <3>5. e.record # r => Own(Append(log, e), r) = Own(log, r)
      BY <3>1, AppendOwn
    <3>6. e.record = r => Own(Append(log, e), r) = Own(log, r) \cup {Len(log) + 1}
      BY <3>1, AppendOwn
    <3>7. QED BY <3>2, <3>3, <3>4, <3>5, <3>6
  <2>3. QED BY <2>1, <2>2
<1>4. op[p].event.record # r => Latest(log', r) = Latest(log, r)
  BY <1>3, LatestStep
<1>5. op[p].event.record = r => Latest(log', r) = Row(op[p].event)
  <2>1. SUFFICES ASSUME op[p].event.record = r PROVE Latest(log', r) = Row(op[p].event)
    OBVIOUS
  <2>2. IsLast(log', r, Len(log) + 1) BY <1>3, <2>1 DEF IsLast
  <2>3. Len(log') \in Nat BY <1>3
  <2>4. Latest(log', r) = Row(log'[Len(log) + 1]) BY <2>2, <2>3, LatestIs
  <2>5. QED BY <1>3, <2>4
<1>6. QED BY <1>1, <1>2, <1>3, <1>4, <1>5

\* An import leaves every record alone.
LEMMA ImportParts ==
    ASSUME StoreTypeOK, NEW f \in Files, NEW r \in Kept, HasLast(r),
           [StoreNext]_storeVars, log' = log \o Imported(f)
    PROVE  /\ Own(log', r) = Own(log, r) /\ Latest(log', r) = Latest(log, r)
           /\ \A i \in Own(log, r) : log'[i] = log[i]
<1>1. log \in Seq(Written \cup FileEvents) /\ Imported(f) \in Seq(Written \cup FileEvents)
  BY ImportedParts DEF StoreTypeOK
<1>2. \A n \in 1..Len(Imported(f)) : Imported(f)[n].record # r
  BY ImportedParts, FilesAssumption DEF Kept
<1>3. Own(log', r) = Own(log, r) /\ \A i \in Own(log, r) : log'[i] = log[i]
  <2>1. Own(log \o Imported(f), r) = Own(log, r)
    BY <1>1, <1>2, ConcatOwn
  <2>2. \A i \in Own(log, r) : (log \o Imported(f))[i] = log[i]
    BY <1>1, ConcatOwn
  <2>3. QED BY <2>1, <2>2
<1>4. QED BY <1>3, LatestStep

\* A row is one of the log: written with its event, or put back by a rebuild.
LEMMA RowsLogged ==
    ASSUME StoreTypeOK, \A p \in StoreProcesses : OperationOK(p),
           \A r \in Kept : HasLast(r) /\ Logged(r, rows[r]), [StoreNext]_storeVars,
           NEW r \in Kept
    PROVE  Logged(r, rows[r])'
<1>1. CASE rows'[r] = rows[r]
  <2>1. rows[r] = Absent \/ \E i \in Own(log', r) : Row(log'[i]) = rows[r]
    BY LoggedStays
  <2>2. QED BY <1>1, <2>1 DEF Logged
<1>2. ASSUME NEW p \in StoreProcesses, Write(p), rows'[r] # rows[r]
      PROVE  Logged(r, rows[r])'
  <2>1. /\ At(p, "write") /\ log' = Append(log, op[p].event)
        /\ rows' = [rows EXCEPT ![op[p].event.record] = Row(op[p].event)]
    BY <1>2 DEF Write, Throws
  <2>2. op[p].event.record = r /\ rows'[r] = Row(op[p].event)
    BY <1>2, <2>1 DEF StoreTypeOK
  <2>3. Len(log) + 1 \in Own(log', r) /\ log'[Len(log) + 1] = op[p].event
    BY <2>1, <2>2, AppendParts
  <2>4. QED BY <2>2, <2>3 DEF Logged
<1>3. ASSUME NEW p \in StoreProcesses, Replace(p), rows'[r] # rows[r]
      PROVE  Logged(r, rows[r])'
  <2>1. rows'[r] = op[p].found[r] /\ r \in Records /\ log' = log
    BY <1>3 DEF Replace
  <2>2. Logged(r, op[p].found[r])
    BY <1>3, <2>1 DEF Replace, OperationOK, At
  <2>3. QED BY <2>1, <2>2 DEF Logged
<1>4. ASSUME NEW p \in StoreProcesses, Insert(p) \/ Restart(p)
      PROVE  rows' = rows
  BY <1>4 DEF Insert, Restart, Throws
<1>5. QED BY <1>1, <1>2, <1>3, <1>4, OthersRead

\* A record nothing set back has the row of its last event.
LEMMA RowsStep ==
    ASSUME StoreTypeOK, \A p \in StoreProcesses : OperationOK(p),
           \A r \in Kept : HasLast(r), \A r \in Kept \ behind : rows[r] = Latest(log, r),
           [StoreNext]_storeVars, NEW r \in Kept, r \notin behind'
    PROVE  rows'[r] = Latest(log', r)
<1>1. ASSUME NEW p \in StoreProcesses, Write(p) PROVE rows'[r] = Latest(log', r)
  <2>1. CASE log' = log
    BY <1>1, <2>1 DEF Write, Throws, HasKey, EventsWith, StoreTypeOK
  <2>2. CASE log' # log
    <3>1. /\ At(p, "write") /\ log' = Append(log, op[p].event) /\ behind' = behind
          /\ rows' = [rows EXCEPT ![op[p].event.record] = Row(op[p].event)]
      BY <1>1, <2>2 DEF Write, Throws
    <3>2. CASE op[p].event.record = r
      <4>1. rows'[r] = Row(op[p].event) BY <3>1, <3>2 DEF StoreTypeOK
      <4>2. Latest(log', r) = Row(op[p].event) BY <3>1, <3>2, AppendParts
      <4>3. QED BY <4>1, <4>2
    <3>3. CASE op[p].event.record # r
      <4>1. rows'[r] = rows[r] BY <3>1, <3>3 DEF StoreTypeOK
      <4>2. Latest(log', r) = Latest(log, r) BY <3>1, <3>3, AppendParts
      <4>3. QED BY <3>1, <4>1, <4>2
    <3>4. QED BY <3>2, <3>3
  <2>3. QED BY <2>1, <2>2
<1>2. ASSUME NEW p \in StoreProcesses, Replace(p) PROVE rows'[r] = Latest(log', r)
  <2>1. CASE r \in Records
    BY <1>2, <2>1 DEF Replace
  <2>2. CASE r \notin Records
    BY <1>2, <2>2 DEF Replace, StoreTypeOK
  <2>3. QED BY <2>1, <2>2
<1>3. ASSUME NEW p \in StoreProcesses, Insert(p) PROVE rows'[r] = Latest(log', r)
  <2>1. rows' = rows /\ behind' = behind BY <1>3 DEF Insert, Throws
  <2>2. CASE log' = log BY <2>1, <2>2
  <2>3. CASE log' # log
    <3>1. op[p].file \in Files /\ log' = log \o Imported(op[p].file)
      BY <1>3, <2>3, OperationParts DEF Insert, Throws, At
    <3>2. QED BY <2>1, <3>1, ImportParts
  <2>4. QED BY <2>2, <2>3
<1>4. ASSUME NEW p \in StoreProcesses, Restart(p) PROVE rows'[r] = Latest(log', r)
  BY <1>4 DEF Restart
<1>5. CASE UNCHANGED <<log, rows, journal, behind, cache>>
  BY <1>5
<1>6. QED BY <1>1, <1>2, <1>3, <1>4, <1>5, OthersRead

\* A repository remembers what it appended, found appended, or read at its start.
LEMMA CacheStep ==
    ASSUME StoreTypeOK, \A r \in Kept : HasLast(r) /\ Logged(r, rows[r]), [StoreNext]_storeVars,
           NEW q \in StoreProcesses, NEW r \in Records, Logged(r, cache[q][r])
    PROVE  Logged(r, cache[q][r])'
<1>1. CASE cache'[q][r] = cache[q][r]
  <2>1. cache[q][r] = Absent \/ \E i \in Own(log', r) : Row(log'[i]) = cache[q][r]
    BY LoggedStays
  <2>2. QED BY <1>1, <2>1 DEF Logged
<1>2. ASSUME NEW p \in StoreProcesses, Write(p), cache'[q][r] # cache[q][r]
      PROVE  Logged(r, cache[q][r])'
  <2>1. Remember(p, op[p].event) /\ At(p, "write")
    BY <1>2 DEF Write, Throws
  <2>2. op[p].event.record = r /\ cache'[q][r] = Row(op[p].event)
    <3>1. cache' = [cache EXCEPT ![p][op[p].event.record] = Row(op[p].event)]
          /\ op[p].event.record \in Records
      BY <1>2, <2>1 DEF Remember
    <3>2. QED BY <1>2, <3>1 DEF StoreTypeOK
  <2>3. \E i \in 1..Len(log') : log'[i] = op[p].event
    <3>1. CASE log' = log
      BY <1>2, <2>1, <3>1 DEF Write, Throws, SameEvent, EventsWith, HasKey
    <3>2. CASE log' # log
      <4>1. log' = Append(log, op[p].event) BY <1>2, <3>2 DEF Write, Throws
      <4>2. log'[Len(log) + 1] = op[p].event /\ Len(log) \in Nat /\ Len(log') = Len(log) + 1
        BY <2>1, <4>1, AppendParts DEF Kept
      <4>3. QED BY <4>2
    <3>3. QED BY <3>1, <3>2
  <2>4. QED BY <2>2, <2>3 DEF Logged, Own
<1>3. ASSUME NEW p \in StoreProcesses, Restart(p), cache'[q][r] # cache[q][r]
      PROVE  Logged(r, cache[q][r])'
  <2>1. cache'[q][r] = rows[r] /\ log' = log BY <1>3 DEF Restart, StoreTypeOK
  <2>2. QED BY <2>1 DEF Logged, Kept
<1>4. ASSUME NEW p \in StoreProcesses, Replace(p) \/ Insert(p) PROVE cache' = cache
  BY <1>4 DEF Replace, Insert, Throws
<1>5. QED BY <1>1, <1>2, <1>3, <1>4, OthersRead

\* No secret reaches the log.
LEMMA SecretsStep ==
    ASSUME StoreTypeOK, \A p \in StoreProcesses : OperationOK(p), [StoreNext]_storeVars,
           \A i \in 1..Len(log) : log[i].value \notin Secrets
    PROVE  \A i \in 1..Len(log') : log'[i].value \notin Secrets
<1>1. CASE log' = log
  BY <1>1
<1>2. ASSUME NEW p \in StoreProcesses, At(p, "write"), Storable(op[p].event),
             log' = Append(log, op[p].event)
      PROVE  \A i \in 1..Len(log') : log'[i].value \notin Secrets
  <2>1. op[p].event \in Written \cup FileEvents /\ log \in Seq(Written \cup FileEvents)
    BY <1>2, OperationParts DEF At, StoreTypeOK
  <2>2. QED BY <1>2, <2>1 DEF Storable
<1>3. ASSUME NEW p \in StoreProcesses, NEW f \in Files, At(p, "insert"), op[p].file = f,
             log' = log \o Imported(f)
      PROVE  \A i \in 1..Len(log') : log'[i].value \notin Secrets
  <2>1. Imported(f) \in Seq(Written \cup FileEvents) /\ log \in Seq(Written \cup FileEvents)
    BY ImportedParts DEF StoreTypeOK
  <2>2. \A n \in 1..Len(Imported(f)) : Imported(f)[n].value \notin Secrets
    <3>1. Importable(f) BY <1>3 DEF OperationOK, At
    <3>2. \A n \in 1..Len(Lines[f]) : Lines[f][n] \in Range(Lines[f])
      BY FilesAssumption
    <3>3. QED BY <3>1, <3>2, ImportedParts DEF Importable
  <2>3. QED BY <1>3, <2>1, <2>2
<1>4. QED BY <1>1, <1>2, <1>3, StoreLogStep

--------------------------------------------------------------------------
(* Histories and imports *)

\* A new event of a record has the version that follows its last one: its key is
\* new, the version before is in the log, and a claim's row does not move back.
LEMMA NextVersion ==
    ASSUME StoreTypeOK, NEW p \in StoreProcesses, At(p, "write"), Follows(op[p].event),
           ~HasKey(op[p].event.key), Moves(op[p].event), NEW r \in Kept,
           op[p].event.record = r, HasLast(r), HistoryHasOneLine,
           r \in Claims => rows[r] = Latest(log, r)
    PROVE  \A i \in Own(log, r) : log[i].version < op[p].event.version
<1>1. PICK e \in Written : e = op[p].event
  BY OperationParts DEF At
<1>2. \A i \in Own(log, r) : /\ log[i] \in Written /\ log[i].record = r /\ log[i].key # e.key
                             /\ log[i].version \in Nat /\ log[i].version >= 1
  <2>1. \A i \in Own(log, r) : i \in 1..Len(log) /\ log[i].record = r
    BY DEF Own
  <2>2. \A i \in Own(log, r) : log[i] \in Written
    BY <2>1, EventParts DEF StoreTypeOK
  <2>3. \A i \in Own(log, r) : log[i].key # e.key
    BY <1>1, <2>1 DEF HasKey, EventsWith
  <2>4. QED BY <2>1, <2>2, <2>3, EventParts
<1>3. e.version \in Nat /\ e.version >= 1 /\ e.record = r
  BY <1>1, EventParts
<1>4. \A i \in Own(log, r) : log[i].version # e.version
  <2>1. CASE r \in Records
    BY <1>1, <1>2, <1>3, <2>1, EventParts
  <2>2. CASE r \in Claims
    <3>1. SUFFICES ASSUME NEW i \in Own(log, r), log[i].version = e.version PROVE FALSE
      OBVIOUS
    <3>2. /\ log[i].key = <<r, log[i].value>> /\ log[i].value \in Outcomes
          /\ log[i].version = IF log[i].value = "claimed" THEN 1 ELSE 2
          /\ e.key = <<r, e.value>> /\ e.version = IF e.value = "claimed" THEN 1 ELSE 2
      BY <1>2, <1>3, <2>2, EventParts
    <3>3. log[i].value # e.value /\ log[i].version = 2 /\ e.version = 2
      BY <1>2, <3>1, <3>2
    <3>4. PICK j \in Own(log, r) : IsLast(log, r, j)
      BY DEF HasLast
    <3>5. i <= j /\ i \in Nat /\ j \in Nat
      BY <3>4 DEF IsLast, Own
    <3>6. log[j].version = 2
      <4>1. CASE i = j BY <3>3, <4>1
      <4>2. CASE i < j
        <5>1. log[i].version < log[j].version BY <4>2 DEF HistoryHasOneLine
        <5>2. log[j].version = IF log[j].value = "claimed" THEN 1 ELSE 2
          BY <1>2, <2>2, EventParts
        <5>3. QED BY <3>3, <5>1, <5>2
      <4>3. QED BY <3>5, <4>1, <4>2
    <3>7. Latest(log, r) = Row(log[j])
      BY <3>4, LatestIs DEF StoreTypeOK
    <3>8. rows[r].version = 2 /\ rows[r].value = log[j].value
      BY <2>2, <3>6, <3>7 DEF Row
    <3>9. Row(e) = rows[r]
      BY <1>1, <1>3, <3>3, <3>8 DEF Moves
    <3>10. e.value = log[j].value
      BY <3>8, <3>9 DEF Row
    <3>11. log[j].key = <<r, log[j].value>>
      BY <1>2, <2>2, EventParts
    <3>12. QED BY <1>2, <3>2, <3>10, <3>11
  <2>3. QED BY <2>1, <2>2 DEF Kept
<1>5. SUFFICES ASSUME NEW i \in Own(log, r), log[i].version > e.version PROVE FALSE
  BY <1>1, <1>2, <1>3, <1>4
<1>6. \E j \in Own(log, r) : log[j].version = e.version
  BY <1>2, <1>3, <1>5 DEF HistoryHasOneLine
<1>7. QED BY <1>4, <1>6

\* Appending the next version prolongs the history of a record.
LEMMA LineStep ==
    ASSUME StoreTypeOK, \A p \in StoreProcesses : OperationOK(p),
           \A r \in Kept : HasLast(r), \A r \in Claims : rows[r] = Latest(log, r),
           HistoryHasOneLine, [StoreNext]_storeVars
    PROVE  HistoryHasOneLine'
<1>1. CASE log' = log
  BY <1>1 DEF HistoryHasOneLine
<1>2. ASSUME NEW p \in StoreProcesses, At(p, "write"), ~HasKey(op[p].event.key),
             Moves(op[p].event), log' = Append(log, op[p].event)
      PROVE  HistoryHasOneLine'
  <2>1. SUFFICES ASSUME NEW r \in Kept, NEW i \in Own(log', r)
        PROVE  /\ log'[i].version >= 1
               /\ \A j \in Own(log', r) : j < i => log'[j].version < log'[i].version
               /\ \A v \in 1..log'[i].version : \E j \in Own(log', r) : j <= i /\ log'[j].version = v
    BY DEF HistoryHasOneLine
  <2>2. CASE i \in Own(log, r)
    <3>1. /\ log'[i] = log[i] /\ i \in 1..Len(log)
          /\ \A j \in Own(log, r) : log'[j] = log[j] /\ j \in Own(log', r)
          /\ \A j \in Own(log', r) : j < i => j \in Own(log, r)
      BY <1>2, <2>2, AppendParts
    <3>2. QED BY <2>2, <3>1 DEF HistoryHasOneLine
  <2>3. CASE i \notin Own(log, r)
    <3>1. PICK e \in Written : e = op[p].event
      BY <1>2, AppendParts
    <3>2. /\ e.record = r /\ i = Len(log) + 1 /\ log'[i] = e
          /\ Own(log', r) = Own(log, r) \cup {i}
          /\ \A j \in Own(log, r) : log'[j] = log[j] /\ j \in 1..Len(log)
          /\ Len(log) \in Nat
      BY <1>2, <2>3, <3>1, AppendParts
    <3>3. e.version \in Nat /\ e.version >= 1 /\ Follows(e)
      BY <1>2, <3>1, EventParts DEF At, OperationOK
    <3>4. \A j \in Own(log, r) : log[j].version < e.version
      BY <1>2, <3>1, <3>2, <3>3, NextVersion
    <3>5. \A v \in 1..(e.version - 1) : \E j \in Own(log, r) : log[j].version = v
      <4>1. CASE e.version = 1 BY <4>1
      <4>2. CASE e.version # 1
        <5>1. PICK k \in Own(log, r) : log[k].version = e.version - 1
          BY <3>2, <3>3, <4>2 DEF Follows
        <5>2. QED BY <5>1 DEF HistoryHasOneLine
      <4>3. QED BY <4>1, <4>2
    <3>6. \A v \in 1..e.version : \E j \in Own(log', r) : j <= i /\ log'[j].version = v
      <4>1. SUFFICES ASSUME NEW v \in 1..e.version
                     PROVE  \E j \in Own(log', r) : j <= i /\ log'[j].version = v
        OBVIOUS
      <4>2. CASE v = e.version BY <3>2, <4>2
      <4>3. CASE v # e.version
        <5>1. v \in 1..(e.version - 1) BY <3>3, <4>3
        <5>2. PICK j \in Own(log, r) : log[j].version = v BY <3>5, <5>1
        <5>3. j \in Own(log', r) /\ j <= i /\ log'[j].version = v BY <3>2, <5>2
        <5>4. QED BY <5>3
      <4>4. QED BY <4>2, <4>3
    <3>7. log'[i].version >= 1 BY <3>2, <3>3
    <3>8. \A j \in Own(log', r) : j < i => log'[j].version < log'[i].version
      <4>1. SUFFICES ASSUME NEW j \in Own(log', r), j < i PROVE log'[j].version < log'[i].version
        OBVIOUS
      <4>2. j \in Own(log, r) BY <3>2, <4>1
      <4>3. log'[j] = log[j] /\ log'[i] = e BY <3>2, <4>2
      <4>4. QED BY <3>4, <4>2, <4>3
    <3>9. \A v \in 1..log'[i].version : \E j \in Own(log', r) : j <= i /\ log'[j].version = v
      BY <3>2, <3>6
    <3>10. QED BY <3>7, <3>8, <3>9
  <2>4. QED BY <2>2, <2>3
<1>3. ASSUME NEW f \in Files, log' = log \o Imported(f)
      PROVE  HistoryHasOneLine'
  <2>1. \A r \in Kept : Own(log', r) = Own(log, r) /\ \A i \in Own(log, r) : log'[i] = log[i]
    BY <1>3, ImportParts
  <2>2. QED BY <2>1 DEF HistoryHasOneLine
<1>4. QED BY <1>1, <1>2, <1>3, StoreLogStep

\* The lines of a file stand together, behind what was there before.
LEMMA ImportStep ==
    ASSUME StoreTypeOK, ImportIsWhole, [StoreNext]_storeVars
    PROVE  ImportIsWhole'
<1>1. ASSUME NEW p \in StoreProcesses, At(p, "write"), log' = Append(log, op[p].event),
             journal' = journal
      PROVE  ImportIsWhole'
  <2>1. PICK e \in Written \cup FileEvents : e = op[p].event /\ e \in Written
    BY <1>1, OperationParts DEF At
  <2>2. log \in Seq(Written \cup FileEvents) BY DEF StoreTypeOK
  <2>3. e.record \notin Files BY <2>1, EventParts, FilesAssumption DEF Kept
  <2>4. \A f \in Files : Own(log', f) = Own(log, f)
    BY <1>1, <2>1, <2>2, <2>3, AppendOwn
  <2>5. Len(log) \in Nat /\ Len(log') = Len(log) + 1 /\ \A i \in 1..Len(log) : log'[i] = log[i]
    BY <1>1, <2>1, <2>2, AppendOwn
  <2>6. SUFFICES ASSUME NEW f \in Files, f \in DOMAIN journal
        PROVE  \E k \in 0..Len(log') : /\ Own(log, f) = (k + 1)..(k + journal[f])
                                       /\ \A n \in 1..journal[f] : log'[k + n].value = Lines[f][n]
    BY <1>1, <2>4 DEF ImportIsWhole
  <2>7. PICK k \in 0..Len(log) : /\ Own(log, f) = (k + 1)..(k + journal[f])
                                 /\ \A n \in 1..journal[f] : log[k + n].value = Lines[f][n]
    BY <2>6 DEF ImportIsWhole
  <2>8. journal[f] \in Nat BY <2>6, ImportedParts DEF ImportIsWhole
  <2>9. \A n \in 1..journal[f] : k + n \in 1..Len(log)
    BY <2>7, <2>8 DEF Own
  <2>10. k \in 0..Len(log') BY <2>5
  <2>11. QED BY <2>5, <2>7, <2>9, <2>10
<1>2. ASSUME NEW p \in StoreProcesses, NEW f \in Files, f \notin DOMAIN journal,
             log' = log \o Imported(f),
             journal' = [g \in DOMAIN journal \cup {f} |-> IF g = f THEN Len(Imported(f)) ELSE journal[g]]
      PROVE  ImportIsWhole'
  <2>1. PICK l : l = Imported(f) OBVIOUS
  <2>2. /\ log \in Seq(Written \cup FileEvents) /\ l \in Seq(Written \cup FileEvents)
        /\ Len(l) = Len(Lines[f]) /\ Len(l) \in Nat
        /\ \A n \in 1..Len(l) : l[n].record = f /\ l[n].value = Lines[f][n]
    BY <2>1, ImportedParts DEF StoreTypeOK
  <2>3. /\ Len(log) \in Nat /\ Len(log') = Len(log) + Len(l)
        /\ \A i \in 1..Len(log) : log'[i] = log[i]
        /\ \A n \in 1..Len(l) : log'[Len(log) + n] = l[n]
    <3>1. /\ Len(log) \in Nat /\ Len(log \o l) = Len(log) + Len(l)
          /\ \A i \in 1..Len(log) : (log \o l)[i] = log[i]
          /\ \A n \in 1..Len(l) : (log \o l)[Len(log) + n] = l[n]
      BY <2>2, ConcatOwn
    <3>2. QED BY <1>2, <2>1, <3>1
  <2>4. ASSUME NEW g \in Files, g # f
        PROVE  IF g \in DOMAIN journal'
               THEN /\ journal'[g] = Len(Lines[g])
                    /\ \E k \in 0..Len(log') :
                         /\ Own(log', g) = (k + 1)..(k + journal'[g])
                         /\ \A n \in 1..journal'[g] : log'[k + n].value = Lines[g][n]
               ELSE Own(log', g) = {}
    <3>1. Own(log', g) = Own(log, g)
      <4>1. \A n \in 1..Len(l) : l[n].record # g BY <2>2, <2>4
      <4>2. Own(log \o l, g) = Own(log, g) BY <2>2, <4>1, ConcatOwn
      <4>3. QED BY <1>2, <2>1, <4>2
    <3>2. CASE g \notin DOMAIN journal
      BY <1>2, <2>4, <3>1, <3>2 DEF ImportIsWhole
    <3>3. CASE g \in DOMAIN journal
      <4>1. PICK k \in 0..Len(log) : /\ Own(log, g) = (k + 1)..(k + journal[g])
                                     /\ \A n \in 1..journal[g] : log[k + n].value = Lines[g][n]
        BY <3>3 DEF ImportIsWhole
      <4>2. journal[g] = Len(Lines[g]) /\ journal[g] \in Nat
        BY <3>3, ImportedParts DEF ImportIsWhole
      <4>3. \A n \in 1..journal[g] : k + n \in 1..Len(log)
        BY <4>1, <4>2 DEF Own
      <4>4. k \in 0..Len(log') BY <2>2, <2>3
      <4>5. g \in DOMAIN journal' /\ journal'[g] = journal[g]
        BY <1>2, <2>4, <3>3
      <4>6. \A n \in 1..journal[g] : log'[k + n].value = Lines[g][n]
        BY <2>3, <4>1, <4>3
      <4>7. QED BY <3>1, <4>1, <4>2, <4>4, <4>5, <4>6
    <3>4. QED BY <3>2, <3>3
  <2>5. /\ f \in DOMAIN journal' /\ journal'[f] = Len(Lines[f])
        /\ \E k \in 0..Len(log') :
             /\ Own(log', f) = (k + 1)..(k + journal'[f])
             /\ \A n \in 1..journal'[f] : log'[k + n].value = Lines[f][n]
    <3>1. f \in DOMAIN journal' /\ journal'[f] = Len(l)
      BY <1>2, <2>1
    <3>2. Own(log, f) = {} BY <1>2 DEF ImportIsWhole
    <3>3. Own(log', f) = (Len(log) + 1)..(Len(log) + Len(l))
      <4>1. Own(log \o l, f) = Own(log, f) \cup ((Len(log) + 1)..(Len(log) + Len(l)))
        BY <2>2, ConcatOwn
      <4>2. QED BY <1>2, <2>1, <3>2, <4>1
    <3>4. Len(log) \in 0..Len(log') BY <2>2, <2>3
    <3>5. \A n \in 1..Len(l) : log'[Len(log) + n].value = Lines[f][n]
      BY <2>2, <2>3
    <3>6. QED BY <2>2, <3>1, <3>3, <3>4, <3>5
  <2>6. QED BY <2>4, <2>5 DEF ImportIsWhole
<1>3. CASE log' = log /\ journal' = journal
  BY <1>3 DEF ImportIsWhole
<1>4. ASSUME NEW p \in StoreProcesses, Insert(p), log' = log, journal' # journal
      PROVE  ImportIsWhole'
  <2>1. PICK f \in Files : /\ f \notin DOMAIN journal /\ log' = log \o Imported(f)
                           /\ journal' = [g \in DOMAIN journal \cup {f} |->
                                             IF g = f THEN Len(Imported(f)) ELSE journal[g]]
    BY <1>4, OperationParts DEF Insert, Throws, At
  <2>2. QED BY <1>2, <2>1
<1>5. ASSUME NEW p \in StoreProcesses, Write(p) \/ Replace(p) \/ Restart(p)
      PROVE  journal' = journal
  BY <1>5 DEF Write, Replace, Restart, Throws
<1>6. QED BY <1>1, <1>2, <1>3, <1>4, <1>5, StoreLogStep, OthersRead

--------------------------------------------------------------------------
(* The invariants of the store *)

\* StoreInv is inductive: it holds of every reachable state.
THEOREM StoreInvariant == StoreSpec => []StoreInv
<1>1. StoreInit => StoreInv
  <2> SUFFICES ASSUME StoreInit PROVE StoreInv
    OBVIOUS
  <2>1. log = <<>> /\ Len(log) = 0 /\ \A r : Own(log, r) = {}
    BY DEF StoreInit, Own
  <2>2. Absent \in Rows BY DEF Absent, Rows
  <2>3. StoreTypeOK BY <2>1, <2>2 DEF StoreInit, StoreTypeOK, Operations
  <2>4. \A p \in StoreProcesses : OperationOK(p) BY DEF StoreInit, OperationOK, Idle
  <2>5. \A r \in Kept : HasLast(r) /\ Logged(r, rows[r])
    BY <2>1 DEF StoreInit, HasLast, Logged
  <2>6. HistoryHasOneLine BY <2>1 DEF HistoryHasOneLine
  <2>7. ReadsAreCommitted BY <2>1 DEF StoreInit, ReadsAreCommitted, Latest
  <2>8. ImportIsWhole BY <2>1 DEF StoreInit, ImportIsWhole
  <2>9. QED BY <2>3, <2>4, <2>5, <2>6, <2>7, <2>8 DEF StoreInv
<1>2. StoreInv /\ [StoreNext]_storeVars => StoreInv'
  <2> SUFFICES ASSUME StoreInv, [StoreNext]_storeVars PROVE StoreInv'
    OBVIOUS
  <2>1. /\ StoreTypeOK /\ \A p \in StoreProcesses : OperationOK(p)
        /\ \A r \in Kept : HasLast(r) /\ Logged(r, rows[r])
        /\ HistoryHasOneLine /\ ReadsAreCommitted /\ ImportIsWhole
    BY DEF StoreInv
  <2>2. StoreTypeOK' BY <2>1, StoreTypeStep
  <2>3. (\A p \in StoreProcesses : OperationOK(p))' BY <2>1, OperationStep
  <2>4. (\A r \in Kept : HasLast(r) /\ Logged(r, rows[r]))'
    BY <2>1, LastStep, RowsLogged
  <2>5. HistoryHasOneLine'
    <3>1. \A r \in Claims : rows[r] = Latest(log, r)
      BY <2>1, RecordsAssumption DEF StoreTypeOK, ReadsAreCommitted, Kept
    <3>2. QED BY <2>1, <3>1, LineStep
  <2>6. ReadsAreCommitted'
    <3>1. (\A r \in Kept \ behind : rows[r] = Latest(log, r))'
      BY <2>1, RowsStep DEF ReadsAreCommitted
    <3>2. (\A p \in StoreProcesses, r \in Records : Logged(r, cache[p][r]))'
      <4>1. \A p \in StoreProcesses, r \in Records : Logged(r, cache[p][r])
        BY <2>1 DEF ReadsAreCommitted, Logged
      <4>2. QED BY <2>1, <4>1, CacheStep
    <3>3. (\A i \in 1..Len(log) : log[i].value \notin Secrets)'
      BY <2>1, SecretsStep DEF ReadsAreCommitted
    <3>4. QED BY <3>1, <3>2, <3>3 DEF ReadsAreCommitted, Logged
  <2>7. ImportIsWhole' BY <2>1, ImportStep
  <2>8. QED BY <2>2, <2>3, <2>4, <2>5, <2>6, <2>7 DEF StoreInv
<1>3. QED BY <1>1, <1>2, PTL DEF StoreSpec

\* Every table, cache and operation stays in its range.
THEOREM StoreTypesHold == StoreSpec => []StoreTypeOK
<1>1. StoreInv => StoreTypeOK
  BY DEF StoreInv
<1>2. QED BY <1>1, StoreInvariant, PTL

\* Whoever writes a record, its events are versions 1, 2, 3 and so on.
THEOREM HistoryHasOneLineHolds == StoreSpec => []HistoryHasOneLine
<1>1. StoreInv => HistoryHasOneLine
  BY DEF StoreInv
<1>2. QED BY <1>1, StoreInvariant, PTL

\* Projections and caches say what was committed, and nothing committed is a secret.
THEOREM ReadsAreCommittedHolds == StoreSpec => []ReadsAreCommitted
<1>1. StoreInv => ReadsAreCommitted
  BY DEF StoreInv
<1>2. QED BY <1>1, StoreInvariant, PTL

\* A file is imported whole, in its order and as the journal says, or not at all.
THEOREM ImportIsWholeHolds == StoreSpec => []ImportIsWhole
<1>1. StoreInv => ImportIsWhole
  BY DEF StoreInv
<1>2. QED BY <1>1, StoreInvariant, PTL

=============================================================================
