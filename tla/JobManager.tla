----------------------------- MODULE JobManager -----------------------------
(***************************************************************************)
(* jobs.Manager with the resource_locks table of storage.Store and the     *)
(* call to the privileged agent.                                           *)
(*                                                                         *)
(* Every job has a goroutine (Manager.run).  Its steps interleave with the *)
(* other runners, with Cancel and Rollback calls of the HTTP handlers,     *)
(* with the agent process and with a crash of the API process.  Each SQL   *)
(* statement is one atomic step (sqlite.DB serialises them); sequences of  *)
(* statements are not, and any of them may fail.                           *)
(*                                                                         *)
(* Time is a Tick that ages every running duration.  A lock row stores     *)
(* expires_at = now + TTL with the `now` read at the start of AcquireLock, *)
(* so the age of a row is counted from that reading.                       *)
(***************************************************************************)
EXTENDS Integers

CONSTANTS
    Jobs,         \* job identifiers (id.New("JOB-"))
    Resources,    \* lock keys
    NoJob,        \* owner of a lock key without a row
    NoResource,   \* resource of a job without a row
    StepWait,     \* the five waits of Manager.advance, in call order
    LockTTL,      \* the TTL given to AcquireLock (ten minutes)
    RunBudget,    \* bound on the time from AcquireLock to ReleaseLock
    AbortTime,    \* bound on the agent work that outlives an abandoned call
    RollbackFlags,  \* what the callers of Create pass for rollback_available
    Unlucky,      \* jobs whose goroutine meets failing statements,
    MaxFaults,    \* and how many of them at most
    MaxCrashes    \* bound on the number of restarts of the API process

ASSUME ConstantsAssumption ==
    /\ NoJob \notin Jobs
    /\ NoResource \notin Resources
    /\ StepWait \in [1..5 -> Nat \ {0}]
    /\ LockTTL \in Nat
    /\ RunBudget \in Nat
    /\ AbortTime \in Nat
    /\ RollbackFlags \subseteq BOOLEAN
    /\ Unlucky \subseteq Jobs
    /\ MaxFaults \in Nat
    /\ MaxCrashes \in Nat

(***************************************************************************)
(* The waits add up to 620 ms and the agent client gives up after 5 min    *)
(* 15 s, well inside the ten minutes of the lock.                          *)
(***************************************************************************)
ASSUME LeaseAssumption ==
    /\ RunBudget <= LockTTL
    /\ StepWait[1] + StepWait[2] + StepWait[3] + StepWait[4] + StepWait[5]
          <= RunBudget

VARIABLES
    status,       \* jobs.status, "absent" without a row
    resource,     \* jobs.resource, also the lock key
    revertible,   \* the jobs whose row has rollback_available = 1
    lockOwner,    \* resource_locks.owner_job_id, NoJob without a row
    lockAge,      \* time since the row's acquired_at, saturating at MaxAge
    pc,           \* control point of the goroutine of a job
    step,         \* which call of advance the goroutine is in
    wait,         \* time left on the timer of that call
    age,          \* time since the goroutine read `now` in AcquireLock
    ctx,          \* context of the goroutine
    cancelFn,     \* the keys of Manager.cancel
    agent,        \* what the agent process does for the job
    abort,        \* time the agent may still work after the call was dropped
    early,        \* jobs whose Cancel was accepted before the agent was called
    faults,       \* statements of the goroutine of a job that have failed
    crashes       \* restarts so far

dbVars     == <<status, resource, revertible>>
lockVars   == <<lockOwner, lockAge>>
runnerVars == <<pc, step, wait, age, ctx, cancelFn>>
agentVars  == <<agent, abort>>
vars == <<dbVars, lockVars, runnerVars, agentVars, early, faults, crashes>>

InProgress == {"queued", "validating", "running", "testing"}
Terminal   == {"success", "failed", "cancelled"}

\* (mutation: the test step writes a status nobody knows)
StepStatusTypo == <<"validating", "running", "running", "verifying", "running">>

\* Status written by each of the five calls of advance.
StepStatus == <<"validating", "running", "running", "testing", "running">>

\* Control points between the reading of `now` and the release of the lock.
Timed == {"purge", "insert", "advance", "call", "calling", "callfail",
          "finish", "release"}

\* Control points at which the goroutine relies on its lock row.
Holding == {"advance", "call", "calling", "callfail", "finish", "release"}

ControlPoints == {"none", "spawned", "conflict", "unregister", "done", "lost"}
                     \cup Timed

AgentStates == {"idle", "running", "ok", "error", "aborting", "stopped"}

\* Beyond this age a row looks expired to every possible reading of `now`.
MaxAge == LockTTL + RunBudget + 1

Aged(n) == IF n < MaxAge THEN n + 1 ELSE n

\* The waits that follow call number s of advance.
WaitsAfter(s) ==
    (IF s < 1 THEN StepWait[1] ELSE 0) + (IF s < 2 THEN StepWait[2] ELSE 0)
        + (IF s < 3 THEN StepWait[3] ELSE 0) + (IF s < 4 THEN StepWait[4] ELSE 0)
        + (IF s < 5 THEN StepWait[5] ELSE 0)

\* Shortest time from the lock's INSERT to the call of the agent.
PreCallWait == StepWait[1] + StepWait[2] + StepWait[3]

\* The time the goroutine of j must still spend in timers before it releases
\* its lock.
TimersLeft(j) ==
    CASE pc[j] \in {"purge", "insert"} -> WaitsAfter(0)
      [] pc[j] = "advance" -> wait[j] + WaitsAfter(step[j])
      [] pc[j] \in {"call", "calling"} -> WaitsAfter(3)
      [] OTHER -> 0

TypeOK ==
    /\ status \in [Jobs -> {"absent"} \cup InProgress \cup Terminal]
    /\ resource \in [Jobs -> Resources \cup {NoResource}]
    /\ revertible \in SUBSET Jobs
    /\ lockOwner \in [Resources -> Jobs \cup {NoJob}]
    /\ lockAge \in [Resources -> Nat]
    /\ pc \in [Jobs -> ControlPoints]
    /\ step \in [Jobs -> 1..5]
    /\ wait \in [Jobs -> Nat]
    /\ age \in [Jobs -> Nat]
    /\ ctx \in [Jobs -> {"live", "racing", "done"}]
    /\ cancelFn \in SUBSET Jobs
    /\ agent \in [Jobs -> AgentStates]
    /\ abort \in [Jobs -> 0..AbortTime]
    /\ early \in SUBSET Jobs
    /\ faults \in [Jobs -> Nat]
    /\ crashes \in 0..MaxCrashes

Init ==
    /\ status = [j \in Jobs |-> "absent"]
    /\ resource = [j \in Jobs |-> NoResource]
    /\ revertible = {}
    /\ lockOwner = [r \in Resources |-> NoJob]
    /\ lockAge = [r \in Resources |-> 0]
    /\ pc = [j \in Jobs |-> "none"]
    /\ step = [j \in Jobs |-> 1]
    /\ wait = [j \in Jobs |-> 0]
    /\ age = [j \in Jobs |-> 0]
    /\ ctx = [j \in Jobs |-> "live"]
    /\ cancelFn = {}
    /\ agent = [j \in Jobs |-> "idle"]
    /\ abort = [j \in Jobs |-> 0]
    /\ early = {}
    /\ faults = [j \in Jobs |-> 0]
    /\ crashes = 0

-----------------------------------------------------------------------------
(***************************************************************************)
(* Calls made by the HTTP handlers.                                        *)
(***************************************************************************)

\* InsertJob, the job.created event and `go m.run(...)`.
CreateWithID(j, r, rollback) ==
    /\ status[j] = "absent"
    /\ status' = [status EXCEPT ![j] = "queued"]
    /\ resource' = [resource EXCEPT ![j] = r]
    /\ revertible' = IF rollback THEN revertible \cup {j} ELSE revertible
    /\ pc' = [pc EXCEPT ![j] = "spawned"]
    /\ UNCHANGED <<lockVars, step, wait, age, ctx, cancelFn, agentVars, early, faults,
                   crashes>>

\* Rollback looks at rollback_available only, never at the status of the
\* original job; the new job is not itself revertible.
Rollback(j, original) ==
    /\ status[original] # "absent"
    /\ original \in revertible
    /\ CreateWithID(j, resource[original], FALSE)

\* The cancel function fires the context.  A runner parked in advance sees it
\* at once, unless its timer had fired already: then the select may take
\* either branch.
Cancel(j) ==
    /\ j \in cancelFn
    /\ ctx[j] = "live"
    /\ ctx' = [ctx EXCEPT ![j] = IF pc[j] = "advance" /\ wait[j] = 0
                                 THEN "racing" ELSE "done"]
    /\ early' = IF agent[j] = "idle" /\ pc[j] \in {"purge", "insert",
                                                   "advance", "call"}
                THEN early \cup {j} ELSE early
    /\ UNCHANGED <<dbVars, lockVars, pc, step, wait, age, cancelFn, agentVars,
                   faults, crashes>>

-----------------------------------------------------------------------------
(***************************************************************************)
(* Manager.run, one action per step of the goroutine.                      *)
(***************************************************************************)

\* Register the cancel function and enter AcquireLock, which reads `now`.
Register(j) ==
    /\ pc[j] = "spawned"
    /\ cancelFn' = cancelFn \cup {j}
    /\ age' = [age EXCEPT ![j] = 0]
    /\ pc' = [pc EXCEPT ![j] = "purge"]
    /\ UNCHANGED <<dbVars, lockVars, step, wait, ctx, agentVars, early, faults, crashes>>

\* (mutation: acquired_at compared instead of expires_at)
ExpiredWithoutTTL(r, j) == lockAge[r] > age[j]

\* (mutation: the DELETE is dropped)
ExpiredNever(r, j) == FALSE

\* DELETE FROM resource_locks WHERE expires_at < now: rows of every resource.
Expired(r, j) == lockAge[r] > LockTTL + age[j]

AcquirePurge(j) ==
    /\ pc[j] = "purge"
    /\ lockOwner' = [r \in Resources |->
                        IF Expired(r, j) THEN NoJob ELSE lockOwner[r]]
    /\ lockAge' = [r \in Resources |-> IF Expired(r, j) THEN 0 ELSE lockAge[r]]
    /\ pc' = [pc EXCEPT ![j] = "insert"]
    /\ UNCHANGED <<dbVars, step, wait, age, ctx, cancelFn, agentVars,
                   early, faults, crashes>>

\* INSERT INTO resource_locks: the primary key refuses a second row.
AcquireInsert(j) ==
    /\ pc[j] = "insert"
    /\ lockOwner[resource[j]] = NoJob
    /\ lockOwner' = [lockOwner EXCEPT ![resource[j]] = j]
    /\ lockAge' = [lockAge EXCEPT ![resource[j]] = age[j]]
    /\ pc' = [pc EXCEPT ![j] = "advance"]
    /\ step' = [step EXCEPT ![j] = 1]
    /\ wait' = [wait EXCEPT ![j] = StepWait[1]]
    /\ UNCHANGED <<dbVars, age, ctx, cancelFn, agentVars, early, faults, crashes>>

AcquireConflict(j) ==
    /\ pc[j] = "insert"
    /\ lockOwner[resource[j]] # NoJob
    /\ pc' = [pc EXCEPT ![j] = "conflict"]
    /\ age' = [age EXCEPT ![j] = 0]
    /\ UNCHANGED <<dbVars, lockVars, step, wait, ctx, cancelFn, agentVars,
                   early, faults, crashes>>

\* run goes on after advance: the next wait, the call or the end.
NextStep(j) ==
    \/ /\ step[j] \in {1, 2, 4}
       /\ step' = [step EXCEPT ![j] = @ + 1]
       /\ wait' = [wait EXCEPT ![j] = StepWait[step[j] + 1]]
       /\ UNCHANGED pc
    \/ /\ step[j] = 3
       /\ pc' = [pc EXCEPT ![j] = "call"]
       /\ UNCHANGED <<step, wait>>
    \/ /\ step[j] = 5
       /\ pc' = [pc EXCEPT ![j] = "finish"]
       /\ UNCHANGED <<step, wait>>

\* The timer branch of advance.
Advance(j) ==
    /\ pc[j] = "advance"
    /\ wait[j] = 0
    /\ ctx[j] # "done"
    /\ status' = [status EXCEPT ![j] = StepStatus[step[j]]]
    /\ ctx' = [ctx EXCEPT ![j] = IF @ = "racing" THEN "done" ELSE @]
    /\ NextStep(j)
    /\ UNCHANGED <<resource, revertible, lockVars, age, cancelFn, agentVars,
                   early, faults, crashes>>

\* (mutation: advance returns without UpdateJob)
AdvanceCancelledSilently(j) ==
    /\ pc[j] = "advance"
    /\ ctx[j] # "live"
    /\ pc' = [pc EXCEPT ![j] = "release"]
    /\ UNCHANGED <<dbVars, lockVars, step, wait, age, ctx, cancelFn, agentVars,
                   early, faults, crashes>>

\* The ctx.Done() branch of advance: the runner returns.
AdvanceCancelled(j) ==
    /\ pc[j] = "advance"
    /\ ctx[j] # "live"
    /\ status' = [status EXCEPT ![j] = "cancelled"]
    /\ pc' = [pc EXCEPT ![j] = "release"]
    /\ UNCHANGED <<resource, revertible, lockVars, step, wait, age, ctx,
                   cancelFn, agentVars, early, faults, crashes>>

\* (mutation: the agent is called with context.Background())
CallSentDetached(j) ==
    /\ pc[j] = "call"
    /\ agent' = [agent EXCEPT ![j] = "running"]
    /\ pc' = [pc EXCEPT ![j] = "calling"]
    /\ UNCHANGED <<dbVars, lockVars, step, wait, age, ctx, cancelFn, abort,
                   early, faults, crashes>>

\* Client.Execute sends the request; a done context never reaches the socket.
CallSent(j) ==
    /\ pc[j] = "call"
    /\ ctx[j] = "live"
    /\ agent' = [agent EXCEPT ![j] = "running"]
    /\ pc' = [pc EXCEPT ![j] = "calling"]
    /\ UNCHANGED <<dbVars, lockVars, step, wait, age, ctx, cancelFn, abort,
                   early, faults, crashes>>

\* Client.Execute fails before the agent runs anything: operation outside the
\* catalogue, context done, no socket, or a refusal by the agent's own checks.
CallRefused(j) ==
    /\ pc[j] = "call"
    /\ pc' = [pc EXCEPT ![j] = "callfail"]
    /\ UNCHANGED <<dbVars, lockVars, step, wait, age, ctx, cancelFn, agentVars,
                   early, faults, crashes>>

CallSucceeds(j) ==
    /\ pc[j] = "calling"
    /\ agent[j] = "ok"
    /\ pc' = [pc EXCEPT ![j] = "advance"]
    /\ step' = [step EXCEPT ![j] = 4]
    /\ wait' = [wait EXCEPT ![j] = StepWait[4]]
    /\ UNCHANGED <<dbVars, lockVars, age, ctx, cancelFn, agentVars, early, faults,
                   crashes>>

\* An error reply, an unreadable one, the client's timeout or the cancelled
\* context.  An execution still under way loses its connection and is told to
\* stop, and nobody waits for it.
CallFails(j) ==
    /\ pc[j] = "calling"
    /\ pc' = [pc EXCEPT ![j] = "callfail"]
    /\ IF agent[j] = "running"
       THEN /\ agent' = [agent EXCEPT ![j] = "aborting"]
            /\ abort' = [abort EXCEPT ![j] = AbortTime]
       ELSE UNCHANGED agentVars
    /\ UNCHANGED <<dbVars, lockVars, step, wait, age, ctx, cancelFn, early, faults,
                   crashes>>

\* (mutation: the return after fail is missing)
FailConflictFallsThrough(j) ==
    /\ pc[j] = "conflict"
    /\ status' = [status EXCEPT ![j] = "failed"]
    /\ pc' = [pc EXCEPT ![j] = "advance"]
    /\ UNCHANGED <<resource, revertible, lockVars, step, wait, age, ctx,
                   cancelFn, agentVars, early, faults, crashes>>

\* Manager.fail after a lock conflict: there is no lock to release.
FailConflict(j) ==
    /\ pc[j] = "conflict"
    /\ status' = [status EXCEPT ![j] = "failed"]
    /\ pc' = [pc EXCEPT ![j] = "unregister"]
    /\ UNCHANGED <<resource, revertible, lockVars, step, wait, age, ctx,
                   cancelFn, agentVars, early, faults, crashes>>

\* (mutation: the lock is released by hand, and not on this path)
FailAgentKeepsLock(j) ==
    /\ pc[j] = "callfail"
    /\ status' = [status EXCEPT ![j] = "failed"]
    /\ pc' = [pc EXCEPT ![j] = "unregister"]
    /\ UNCHANGED <<resource, revertible, lockVars, step, wait, age, ctx,
                   cancelFn, agentVars, early, faults, crashes>>

\* Manager.fail after Client.Execute returned an error.
FailAgent(j) ==
    /\ pc[j] = "callfail"
    /\ status' = [status EXCEPT ![j] = "failed"]
    /\ pc' = [pc EXCEPT ![j] = "release"]
    /\ UNCHANGED <<resource, revertible, lockVars, step, wait, age, ctx,
                   cancelFn, agentVars, early, faults, crashes>>

\* UpdateJob with "success", without another look at the context.
Succeed(j) ==
    /\ pc[j] = "finish"
    /\ status' = [status EXCEPT ![j] = "success"]
    /\ pc' = [pc EXCEPT ![j] = "release"]
    /\ UNCHANGED <<resource, revertible, lockVars, step, wait, age, ctx,
                   cancelFn, agentVars, early, faults, crashes>>

\* Deferred ReleaseLock: only a row of this owner is deleted.
ReleaseLock(j) ==
    /\ pc[j] = "release"
    /\ IF lockOwner[resource[j]] = j
       THEN /\ lockOwner' = [lockOwner EXCEPT ![resource[j]] = NoJob]
            /\ lockAge' = [lockAge EXCEPT ![resource[j]] = 0]
       ELSE UNCHANGED lockVars
    /\ pc' = [pc EXCEPT ![j] = "unregister"]
    /\ age' = [age EXCEPT ![j] = 0]
    /\ UNCHANGED <<dbVars, step, wait, ctx, cancelFn, agentVars, early, faults, crashes>>

\* Deferred delete(m.cancel, j.ID), the last thing the goroutine does.
Unregister(j) ==
    /\ pc[j] = "unregister"
    /\ cancelFn' = cancelFn \ {j}
    /\ pc' = [pc EXCEPT ![j] = "done"]
    /\ step' = [step EXCEPT ![j] = 1]
    /\ wait' = [wait EXCEPT ![j] = 0]
    /\ ctx' = [ctx EXCEPT ![j] = "live"]
    /\ UNCHANGED <<dbVars, lockVars, age, agentVars, early, faults, crashes>>

-----------------------------------------------------------------------------
(***************************************************************************)
(* A statement of the goroutine fails.  Every error but that of the INSERT *)
(* in AcquireLock is dropped: the rows stay as they were and the goroutine *)
(* goes on.                                                                *)
(***************************************************************************)
Fault(j) ==
    /\ j \in Unlucky
    /\ faults[j] < MaxFaults
    /\ faults' = [faults EXCEPT ![j] = @ + 1]

\* The DELETE of AcquireLock: its error is dropped, and the INSERT still meets
\* the rows that had expired.
PurgeFails(j) ==
    /\ pc[j] = "purge"
    /\ Fault(j)
    /\ pc' = [pc EXCEPT ![j] = "insert"]
    /\ UNCHANGED <<dbVars, lockVars, step, wait, age, ctx, cancelFn, agentVars,
                   early, crashes>>

\* The INSERT of AcquireLock: run cannot tell it from a row in the way.
AcquireFails(j) ==
    /\ pc[j] = "insert"
    /\ Fault(j)
    /\ pc' = [pc EXCEPT ![j] = "conflict"]
    /\ age' = [age EXCEPT ![j] = 0]
    /\ UNCHANGED <<dbVars, lockVars, step, wait, ctx, cancelFn, agentVars,
                   early, crashes>>

\* UpdateJob in the timer branch of advance.
AdvanceUnrecorded(j) ==
    /\ pc[j] = "advance"
    /\ wait[j] = 0
    /\ ctx[j] # "done"
    /\ Fault(j)
    /\ ctx' = [ctx EXCEPT ![j] = IF @ = "racing" THEN "done" ELSE @]
    /\ NextStep(j)
    /\ UNCHANGED <<dbVars, lockVars, age, cancelFn, agentVars, early, crashes>>

\* UpdateJob where run ends: cancelled, failed or successful.
EndUnrecorded(j) ==
    /\ \/ pc[j] = "advance" /\ ctx[j] # "live"
       \/ pc[j] \in {"conflict", "callfail", "finish"}
    /\ Fault(j)
    /\ pc' = [pc EXCEPT ![j] = IF @ = "conflict" THEN "unregister" ELSE "release"]
    /\ UNCHANGED <<dbVars, lockVars, step, wait, age, ctx, cancelFn, agentVars,
                   early, crashes>>

\* The deferred ReleaseLock: the row stays until it expires.
ReleaseFails(j) ==
    /\ pc[j] = "release"
    /\ Fault(j)
    /\ pc' = [pc EXCEPT ![j] = "unregister"]
    /\ age' = [age EXCEPT ![j] = 0]
    /\ UNCHANGED <<dbVars, lockVars, step, wait, ctx, cancelFn, agentVars,
                   early, crashes>>

-----------------------------------------------------------------------------
(***************************************************************************)
(* The agent process, the clock and a crash.                               *)
(***************************************************************************)

AgentFinishes(j, outcome) ==
    /\ agent[j] = "running"
    /\ agent' = [agent EXCEPT ![j] = outcome]
    /\ UNCHANGED <<dbVars, lockVars, runnerVars, abort, early, faults, crashes>>

AgentStops(j) ==
    /\ agent[j] = "aborting"
    /\ agent' = [agent EXCEPT ![j] = "stopped"]
    /\ abort' = [abort EXCEPT ![j] = 0]
    /\ UNCHANGED <<dbVars, lockVars, runnerVars, early, faults, crashes>>

\* Time passes unless a runner that is not in a timer has used up what its
\* budget leaves beside the timers, or an abandoned execution its grace.
Tick ==
    /\ \A j \in Jobs : pc[j] \in Timed =>
          \/ pc[j] = "advance" /\ wait[j] > 0
          \/ age[j] + TimersLeft(j) < RunBudget
    /\ \A j \in Jobs : agent[j] = "aborting" => abort[j] > 0
    /\ age' = [j \in Jobs |-> IF pc[j] \in Timed THEN age[j] + 1 ELSE age[j]]
    /\ wait' = [j \in Jobs |-> IF pc[j] = "advance" /\ wait[j] > 0
                               THEN wait[j] - 1 ELSE wait[j]]
    /\ abort' = [j \in Jobs |-> IF agent[j] = "aborting"
                                THEN abort[j] - 1 ELSE abort[j]]
    /\ lockAge' = [r \in Resources |-> IF lockOwner[r] # NoJob
                                       THEN Aged(lockAge[r]) ELSE lockAge[r]]
    /\ UNCHANGED <<dbVars, lockOwner, pc, step, ctx, cancelFn, agent, early, faults,
                   crashes>>

\* (mutation: unfinished jobs are run again after a restart)
RestartResumes ==
    /\ crashes < MaxCrashes
    /\ crashes' = crashes + 1
    /\ pc' = [j \in Jobs |-> IF status[j] \in InProgress THEN "spawned" ELSE pc[j]]
    /\ cancelFn' = {}
    /\ UNCHANGED <<dbVars, lockVars, step, wait, age, ctx, agentVars, early, faults>>

\* The process dies and app.Build starts it again: goroutines, contexts and
\* the cancel map are gone, the database stays, nothing looks at old rows.
\* A graceful shutdown does not wait for runners either.
Restart ==
    /\ crashes < MaxCrashes
    /\ crashes' = crashes + 1
    /\ pc' = [j \in Jobs |-> IF pc[j] \in {"none", "done"} THEN pc[j] ELSE "lost"]
    /\ step' = [j \in Jobs |-> 1]
    /\ wait' = [j \in Jobs |-> 0]
    /\ age' = [j \in Jobs |-> 0]
    /\ ctx' = [j \in Jobs |-> "live"]
    /\ cancelFn' = {}
    /\ agent' = [j \in Jobs |-> IF agent[j] = "running"
                                THEN "aborting" ELSE agent[j]]
    /\ abort' = [j \in Jobs |-> IF agent[j] = "running"
                                THEN AbortTime ELSE abort[j]]
    /\ UNCHANGED <<dbVars, lockVars, early, faults>>

-----------------------------------------------------------------------------
Runner(j) ==
    \/ Register(j)
    \/ AcquirePurge(j)
    \/ AcquireInsert(j)
    \/ AcquireConflict(j)
    \/ Advance(j)
    \/ AdvanceCancelled(j)
    \/ CallSent(j)
    \/ CallRefused(j)
    \/ CallSucceeds(j)
    \/ CallFails(j)
    \/ FailConflict(j)
    \/ FailAgent(j)
    \/ Succeed(j)
    \/ ReleaseLock(j)
    \/ Unregister(j)
    \/ PurgeFails(j)
    \/ AcquireFails(j)
    \/ AdvanceUnrecorded(j)
    \/ EndUnrecorded(j)
    \/ ReleaseFails(j)

Agent(j) ==
    \/ \E outcome \in {"ok", "error"} : AgentFinishes(j, outcome)
    \/ AgentStops(j)

Handler(j) ==
    \/ \E r \in Resources, rollback \in RollbackFlags : CreateWithID(j, r, rollback)
    \/ \E original \in Jobs : Rollback(j, original)
    \/ Cancel(j)

Next ==
    \/ \E j \in Jobs : Handler(j) \/ Runner(j) \/ Agent(j)
    \/ Tick
    \/ Restart

Spec == Init /\ [][Next]_vars

(***************************************************************************)
(* Goroutines are scheduled, timers fire, the agent client has a timeout   *)
(* and a killed command ends.  Handlers and crashes are not owed.          *)
(***************************************************************************)
FairSpec ==
    /\ Spec
    /\ WF_vars(Tick)
    /\ \A j \in Jobs : WF_vars(Runner(j)) /\ WF_vars(AgentStops(j))

-----------------------------------------------------------------------------
(***************************************************************************)
(* Properties.                                                             *)
(***************************************************************************)

Working(j) == agent[j] \in {"running", "aborting"}

\* An execution that was told to stop at least the three waits ago.
Waning(j) == agent[j] = "aborting" /\ abort[j] + PreCallWait <= AbortTime

\* Nothing waits for the agent to stop before the lock is released, so two
\* executions on one resource may overlap; but, although locks expire, calls
\* are abandoned and the API restarts, never two that are both waited for, and
\* the older one has then been told to stop for as long as the three waits
\* before a call: the overlap lasts at most AbortTime - PreCallWait.
AgentExclusive ==
    \A i, j \in Jobs :
        i # j /\ Working(i) /\ Working(j) /\ resource[i] = resource[j] =>
            Waning(i) \/ Waning(j)

\* What backend/docs/risk-matrix.md promises: the lock of a resource excludes concurrent
\* reconfiguration, so the agent never works for two jobs on it at once.
ResourceExclusive ==
    \A i, j \in Jobs :
        i # j /\ Working(i) /\ Working(j) => resource[i] # resource[j]

\* A job whose Cancel was accepted before Manager.run called the agent is
\* never executed by the agent, and so never reported as a success.
EarlyCancelPreventsRun ==
    \A j \in early : agent[j] = "idle" /\ status[j] # "success"

\* When the goroutine of a job has ended its cancel function is gone and,
\* unless a statement of it failed, it left a terminal status and no lock row
\* of its own, on every path through Manager.run.
CleanExit ==
    \A j \in Jobs : pc[j] = "done" =>
        /\ j \notin cancelFn
        /\ \/ faults[j] > 0
           \/ /\ status[j] \in Terminal
              /\ \A r \in Resources : lockOwner[r] # j

\* AcquireLock reports a conflict only over a row that had not expired at the
\* `now` it read, or because its own DELETE or INSERT failed: the row that a
\* crash or a failed ReleaseLock left behind blocks, once its TTL is over, no
\* goroutine whose own statements succeed.
StaleLockNeverBlocks ==
    [][\A j \in Jobs : pc[j] \in {"purge", "insert"} /\ pc'[j] = "conflict" =>
          \/ faults'[j] > 0
          \/ /\ lockOwner[resource[j]] # NoJob
             /\ lockAge[resource[j]] <= LockTTL + age[j]]_vars

\* A restart of the API does not run old jobs: no row that existed before the
\* restart gets a goroutine, a new status or an execution afterwards.
OldJobsStayPut ==
    [][\A j \in Jobs :
          pc[j] = "lost" \/ (crashes' # crashes /\ status[j] # "absent") =>
            /\ pc'[j] \in {"lost", "done"}
            /\ status'[j] = status[j]
            /\ agent'[j] = "running" => agent[j] = "running"]_vars

\* Every created job reaches a terminal status, unless the process dies under
\* it or a statement of it fails: no path through Manager.run waits forever or
\* forgets UpdateJob.
JobsSettle ==
    \A j \in Jobs :
        status[j] = "queued" ~>
            status[j] \in Terminal \/ pc[j] = "lost" \/ faults[j] > 0

\* The refinement mapping: an abandoned execution is over for the API.
RunOf ==
    [j \in Jobs |->
        CASE agent[j] = "running" -> "active"
          [] agent[j] = "ok" -> "ok"
          [] agent[j] \in {"error", "aborting", "stopped"} -> "ended"
          [] OTHER -> "idle"]

Lifecycle == INSTANCE JobLifecycle WITH run <- RunOf

\* The manager implements the contract of JobLifecycle: one row, one agent
\* execution, one terminal status, success only after the agent succeeded,
\* and no two calls in progress on one resource.
ImplementsLifecycle == Lifecycle!Spec
=============================================================================
