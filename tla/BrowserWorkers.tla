------------------------- MODULE BrowserWorkers -------------------------
(***************************************************************************)
(* One browser worker of the S0 runtime: its profile directory with the    *)
(* lease file in it, the browsers started on that profile, the worker's    *)
(* record and session in each application process, and the local tasks the *)
(* operator confirms on it.                                                *)
(*                                                                         *)
(* Profiles do not interact, so one worker is enough; processes do: two    *)
(* of them may run over the same user data.  Inside a process everything   *)
(* between two awaits is one step.                                         *)
(***************************************************************************)
EXTENDS Naturals, FiniteSets

CONSTANTS Processes,  \* processes of the operating system, each with its pid
          Starts,     \* calls of start; each names the browser it launches
          By,         \* the process a start runs in
          Tasks,      \* local tasks the operator has created
          NoProcess, NoStart,
          MaxEffects, \* bound: submissions counted per task
          MaxSubmits, \* bound: submissions under way at once
          MaxCrashes  \* bound: processes that die

ASSUME WorkersAssumption ==
    /\ By \in [Starts -> Processes]
    /\ NoProcess \notin Processes /\ NoStart \notin Starts
    /\ {MaxEffects, MaxSubmits, MaxCrashes} \subseteq Nat

VARIABLES
    \* on disk
    lease,    \* the process named in the profile's lease file
    saved,    \* last task.snapshot of each task in events.jsonl
    \* memory of each process
    up,       \* processes that run
    status,   \* the worker record's status: failed is as stopped; starting,
              \* idle, active and waiting_human are running, for nothing here
              \* tells them apart
    session,  \* contexts.get(worker): the start whose browser is used
    task,     \* TaskRepository's copy of the tasks' states
    \* calls under way
    start,    \* where a start is
    stopping, \* starts whose browser a stop is waiting to see closed
    submit,   \* submissions: the task, its process, the browser, clicked or not
    \* the world
    browser,  \* whether the browser of a start runs, or has closed unnoticed
    effects,  \* submissions the local page received for a task
    gone      \* processes that have died; a restart is another process

disk == <<lease, saved>>
calls == <<start, stopping, submit>>
vars == <<lease, saved, up, status, session, task,
          start, stopping, submit, browser, effects, gone>>

TaskState == {"ready", "active", "waiting_human"}

\* "running" is any status of a worker that is neither paused nor without a page.
WorkerStatus == {"stopped", "running", "paused"}

TypeOK ==
    /\ lease \in Processes \cup {NoProcess}
    /\ saved \in [Tasks -> TaskState]
    /\ up \subseteq Processes
    /\ status \in [Processes -> WorkerStatus]
    /\ session \in [Processes -> Starts \cup {NoStart}]
    /\ task \in [Processes -> [Tasks -> TaskState]]
    /\ start \in [Starts -> {"new", "acquire", "launch", "goto", "failing", "over"}]
    /\ stopping \subseteq Starts
    /\ submit \subseteq [task : Tasks, by : Processes, on : Starts, clicked : BOOLEAN]
    /\ browser \in [Starts -> {"none", "running", "closed"}]
    /\ effects \in [Tasks -> 0..MaxEffects]
    /\ gone \subseteq Processes \ up

--------------------------------------------------------------------------
Set(f, x, v) == [f EXCEPT ![x] = v]

\* A process that has read the lease file goes on to write it before it
\* does anything else; only another process comes in between.
Ready(p) == p \in up /\ \A c \in Starts : start[c] = "acquire" => By[c] # p

\* ProfileLeaseManager.release: the worker's id is compared, not the process.
\* Mutation: the lease stays.
Keep(p) == lease' = lease
Release(p) == lease' = NoProcess

\* context.close
Closing(c) == IF browser[c] = "running" THEN Set(browser, c, "closed") ELSE browser

Init ==
    /\ lease = NoProcess
    /\ saved = [t \in Tasks |-> "ready"]
    /\ up = {} /\ status = [p \in Processes |-> "stopped"]
    /\ session = [p \in Processes |-> NoStart]
    /\ task = [p \in Processes |-> [t \in Tasks |-> "ready"]]
    /\ start = [c \in Starts |-> "new"] /\ stopping = {} /\ submit = {}
    /\ browser = [c \in Starts |-> "none"]
    /\ effects = [t \in Tasks |-> 0]
    /\ gone = {}

--------------------------------------------------------------------------
(* start *)

\* The lease is looked at outside the try: if a living process has it the
\* call throws and the record keeps the status it was just given.
StartReads(c) ==
    LET p == By[c] IN
    /\ start[c] = "new" /\ Ready(p) /\ session[p] = NoStart
    /\ status' = Set(status, p, "running")
    /\ start' = Set(start, c, CASE lease = p -> "launch"
                                [] lease \in up \ {p} -> "over"
                                [] OTHER -> "acquire")
    /\ UNCHANGED <<disk, up, session, task, stopping, submit, browser, effects, gone>>

StartWrites(c) ==
    /\ start[c] = "acquire"
    /\ lease' = By[c]
    /\ start' = Set(start, c, "launch")
    /\ UNCHANGED <<saved, up, status, session, task, stopping, submit,
                   browser, effects, gone>>

\* Chromium itself opens a profile in one browser at a time.
Launched(c) ==
    LET p == By[c] IN
    /\ start[c] = "launch" /\ Ready(p)
    /\ \A b \in Starts : browser[b] # "running"
    /\ browser' = Set(browser, c, "running")
    /\ session' = Set(session, p, c)
    /\ start' = Set(start, c, "goto")
    /\ UNCHANGED <<disk, up, status, task, stopping, submit, effects, gone>>

PageOpened(c) ==
    /\ start[c] = "goto" /\ Ready(By[c]) /\ browser[c] = "running"
    /\ status' = Set(status, By[c], "running")
    /\ start' = Set(start, c, "over")
    /\ UNCHANGED <<disk, up, session, task, stopping, submit, browser, effects, gone>>

\* The catch: whatever session there is goes, then the context is closed,
\* then the lease is released.
Failed(p) ==
    /\ Release(p)
    /\ status' = Set(status, p, "stopped")
LaunchFails(c) ==
    LET p == By[c] IN
    /\ start[c] = "launch" /\ Ready(p)
    /\ session' = Set(session, p, NoStart)
    /\ Failed(p)
    /\ start' = Set(start, c, "over")
    /\ UNCHANGED <<saved, up, task, stopping, submit, browser, effects, gone>>
OpeningFails(c) ==
    /\ start[c] = "goto" /\ Ready(By[c])
    /\ session' = Set(session, By[c], NoStart)
    /\ start' = Set(start, c, "failing")
    /\ UNCHANGED <<disk, up, status, task, stopping, submit, browser, effects, gone>>
FailureCleansUp(c) ==
    /\ start[c] = "failing" /\ Ready(By[c])
    /\ browser' = Closing(c)
    /\ Failed(By[c])
    /\ start' = Set(start, c, "over")
    /\ UNCHANGED <<saved, up, session, task, stopping, submit, effects, gone>>

--------------------------------------------------------------------------
(* bindContextLifecycle, stop, pause, resume *)

Stopped(p) ==
    /\ Release(p)
    /\ status' = Set(status, p, "stopped")

\* A browser goes away by itself, or is closed by its user.
BrowserCloses(c) ==
    /\ browser[c] = "running"
    /\ browser' = Set(browser, c, "closed")
    /\ UNCHANGED <<disk, up, status, session, task, calls, effects, gone>>

\* Mutation: the handler does not compare the context it was bound to.
NoticesAny(c) ==
    LET p == By[c] IN
    /\ browser[c] = "closed" /\ Ready(p)
    /\ browser' = Set(browser, c, "none")
    /\ IF session[p] # NoStart
       THEN session' = Set(session, p, NoStart) /\ Stopped(p)
       ELSE UNCHANGED <<session, lease, status>>
    /\ UNCHANGED <<saved, up, task, calls, effects, gone>>

\* The close event of a context is handled whenever it arrives, and acts
\* only if the context is the one the process uses.
CloseIsNoticed(c) ==
    LET p == By[c] IN
    /\ browser[c] = "closed" /\ Ready(p)
    /\ browser' = Set(browser, c, "none")
    /\ IF session[p] = c
       THEN session' = Set(session, p, NoStart) /\ Stopped(p)
       ELSE UNCHANGED <<session, lease, status>>
    /\ UNCHANGED <<saved, up, task, calls, effects, gone>>

\* stop without a session still releases and marks the worker stopped.
StopNothing(p) ==
    /\ Ready(p) /\ session[p] = NoStart
    /\ Stopped(p)
    /\ UNCHANGED <<saved, up, session, task, calls, browser, effects, gone>>

StopBegins(p) ==
    /\ Ready(p) /\ session[p] # NoStart
    /\ stopping' = stopping \cup {session[p]}
    /\ session' = Set(session, p, NoStart)
    /\ UNCHANGED <<disk, up, status, task, start, submit, browser, effects, gone>>

\* An error of close is kept for later; the lease is released all the same.
StopEnds(c) ==
    /\ c \in stopping /\ Ready(By[c])
    /\ stopping' = stopping \ {c}
    /\ browser' = Closing(c)
    /\ Stopped(By[c])
    /\ UNCHANGED <<saved, up, session, task, start, submit, effects, gone>>

Pause(p) ==
    /\ Ready(p) /\ session[p] # NoStart
    /\ status' = Set(status, p, "paused")
    /\ UNCHANGED <<disk, up, session, task, calls, browser, effects, gone>>
Resume(p) ==
    /\ Ready(p) /\ session[p] # NoStart
    /\ status' = Set(status, p, "running")
    /\ UNCHANGED <<disk, up, session, task, calls, browser, effects, gone>>

--------------------------------------------------------------------------
(* task:confirm-local, which submits to the worker's page *)

\* The log is append only; the last snapshot of a task in it counts.
Snapshot(t, state) == Set(saved, t, state)

\* Mutation: the repository changes its copy and leaves the log alone.
TransitionInMemory(p, t, state) ==
    /\ task' = [task EXCEPT ![p][t] = state]
    /\ saved' = saved

\* TaskRepository.transition; a transition to the same state saves nothing.
Transition(p, t, state) ==
    /\ task' = [task EXCEPT ![p][t] = state]
    /\ saved' = IF task[p][t] = state THEN saved ELSE Snapshot(t, state)

\* A paused or sessionless worker turns the task down, which then waits for
\* review as if it had been submitted.
ConfirmDenied(p, t) ==
    /\ Ready(p)
    /\ status[p] = "paused" \/ session[p] = NoStart
    /\ task' = [task EXCEPT ![p][t] = "waiting_human"]
    /\ saved' = Snapshot(t, "waiting_human")
    /\ UNCHANGED <<lease, up, status, session, calls, browser, effects, gone>>

Confirm(p, t) ==
    /\ Ready(p) /\ Cardinality(submit) < MaxSubmits
    /\ status[p] # "paused" /\ session[p] # NoStart
    /\ Transition(p, t, "active")
    /\ status' = Set(status, p, "running")
    /\ submit' = submit \cup {[task |-> t, by |-> p, on |-> session[p], clicked |-> FALSE]}
    /\ UNCHANGED <<lease, up, session, start, stopping, browser, effects, gone>>

Click(s) ==
    /\ Ready(s.by) /\ ~s.clicked
    /\ browser[s.on] = "running" /\ effects[s.task] < MaxEffects
    /\ effects' = [effects EXCEPT ![s.task] = @ + 1]
    /\ submit' = (submit \ {s}) \cup {[s EXCEPT !.clicked = TRUE]}
    /\ UNCHANGED <<disk, up, status, session, task, start, stopping, browser, gone>>

\* The result is observed, or an error leaves the submission uncertain: the
\* worker and the task wait for a human either way, whatever has become of
\* the worker in the meantime.
SubmissionEnds(s) ==
    /\ Ready(s.by)
    /\ submit' = submit \ {s}
    /\ status' = Set(status, s.by, "running")
    /\ Transition(s.by, s.task, "waiting_human")
    /\ UNCHANGED <<lease, up, session, start, stopping, browser, effects, gone>>

--------------------------------------------------------------------------
(* Processes come and go *)

\* Memory is lost, and nobody reads it again; a browser may outlive the
\* process that launched it.
Crash(p) ==
    /\ p \in up /\ Cardinality(gone) < MaxCrashes
    /\ gone' = gone \cup {p}
    /\ up' = up \ {p}
    /\ session' = Set(session, p, NoStart)
    /\ status' = Set(status, p, "stopped")
    /\ task' = Set(task, p, [t \in Tasks |-> "ready"])
    /\ start' = [c \in Starts |-> IF By[c] = p THEN "over" ELSE start[c]]
    /\ stopping' = {c \in stopping : By[c] # p}
    /\ submit' = {s \in submit : s.by # p}
    /\ browser' = [c \in Starts |-> IF By[c] = p /\ browser[c] # "running"
                                    THEN "none" ELSE browser[c]]
    /\ UNCHANGED <<disk, effects>>

\* rehydrate and recoverUncertain
Boot(p) ==
    /\ p \notin up \cup gone
    /\ up' = up \cup {p}
    /\ status' = Set(status, p, "stopped")
    /\ saved' = [t \in Tasks |-> IF saved[t] = "active" THEN "waiting_human" ELSE saved[t]]
    /\ task' = Set(task, p, saved')
    /\ UNCHANGED <<lease, session, calls, browser, effects, gone>>

Next ==
    \/ \E c \in Starts :
          \/ StartReads(c) \/ StartWrites(c) \/ Launched(c) \/ PageOpened(c)
          \/ LaunchFails(c) \/ OpeningFails(c) \/ FailureCleansUp(c)
          \/ BrowserCloses(c) \/ CloseIsNoticed(c) \/ StopEnds(c)
    \/ \E p \in Processes :
          \/ StopNothing(p) \/ StopBegins(p) \/ Pause(p) \/ Resume(p)
          \/ Crash(p) \/ Boot(p)
          \/ \E t \in Tasks : ConfirmDenied(p, t) \/ Confirm(p, t)
    \/ \E s \in submit : Click(s) \/ SubmissionEnds(s)

Spec == Init /\ [][Next]_vars

--------------------------------------------------------------------------
(* Properties *)

\* A process with no session and no call under way keeps nobody from the
\* profile: however starts, failures, stops and closing browsers of both
\* processes interleave, its lease is gone once it is done with the worker.
AtRest(p) ==
    /\ session[p] = NoStart
    /\ \A c \in Starts : By[c] = p =>
          start[c] \notin {"acquire", "launch", "goto", "failing"} /\ c \notin stopping
ProfileIsNotLockedOut == \A p \in up : AtRest(p) => lease # p

\* What may have reached the page is never offered as untouched work again:
\* the log, from which every restart rehydrates, says so first.
SubmittedIsNeverReady == \A t \in Tasks : effects[t] > 0 => saved[t] # "ready"

\* A browser that closes late does not tear down what replaced it: session,
\* lease and record of a process that uses another browser are untouched.
LateCloseSparesTheNext ==
    [][\A c \in Starts :
          /\ browser[c] = "closed" /\ browser'[c] = "none" /\ By[c] \in up'
          /\ session[By[c]] \notin {c, NoStart}
          => session' = session /\ lease' = lease /\ status' = status]_vars

--------------------------------------------------------------------------
(* The inductive invariant *)

\* What there is to release the lease of a process: the session, which some
\* stop, failure or close event ends, or a call that is on its way.
Releases(p) ==
    \/ session[p] # NoStart
    \/ \E c \in Starts : By[c] = p /\ (start[c] \in {"acquire", "launch", "failing"}
                                       \/ c \in stopping)
LeaseInv ==
    /\ lease \in up \cup gone \cup {NoProcess}
    /\ \A p \in Processes : session[p] # NoStart => By[session[p]] = p
    /\ \A c \in Starts : start[c] = "acquire" => By[c] \in up
    /\ \A p \in up : lease = p => Releases(p)

\* Whatever a process knows of a task, and whatever it submits, is in the log.
LogInv ==
    /\ \A p \in Processes, t \in Tasks : task[p][t] # "ready" => saved[t] # "ready"
    /\ \A s \in submit : saved[s.task] # "ready"
    /\ SubmittedIsNeverReady
==========================================================================
