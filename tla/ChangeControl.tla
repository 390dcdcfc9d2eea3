---------------------------- MODULE ChangeControl ----------------------------
(***************************************************************************)
(* Change requests: approval.Service, the change_requests statements of    *)
(* storage.Store, the handlers of httpapi.Server that request, decide and  *)
(* execute a change, and the goroutine that copies the outcome of the job  *)
(* back into the request.                                                  *)
(*                                                                         *)
(* The mutating handlers run one at a time: withIdempotency holds idemMu   *)
(* for the whole of each.  Time, the jobs, the trackers and a crash of the *)
(* process interleave with the statements of the handler in progress.      *)
(* Jobs follow the contract of JobLifecycle, which JobManager implements.  *)
(***************************************************************************)
EXTENDS Naturals

CONSTANTS
    Changes,      \* identifiers of change requests
    Users,        \* users with the RBAC grants for the change handlers
    NoUser,       \* approved_by IS NULL
    Jobs,         \* job identifiers
    NoJob,        \* job_id IS NULL
    NoChange,     \* no handler in progress
    Resources,
    NoResource,
    GatedOps,     \* operations that demand approval, window and separation
    FreeOps,      \* operations that demand none of them
    CapableOps,   \* operations whose capability is supported on this host
    MaxTime,      \* bound on the clock
    MaxFaults     \* bound on crashes and failed statements

Operations == GatedOps \cup FreeOps

ASSUME ChangeConstants ==
    /\ NoUser \notin Users
    /\ NoJob \notin Jobs
    /\ NoChange \notin Changes
    /\ NoResource \notin Resources
    /\ GatedOps \cap FreeOps = {}
    /\ CapableOps \subseteq Operations
    /\ MaxTime \in Nat
    /\ MaxFaults \in Nat

VARIABLES
    status,        \* change_requests.status, "absent" without a row
    op,            \* change_requests.operation
    target,        \* change_requests.resource
    requester,     \* change_requests.requested_by
    approver,      \* change_requests.approved_by
    opens,         \* change_requests.maintenance_start
    closes,        \* change_requests.maintenance_end, also expires_at if gated
    jobOf,         \* change_requests.job_id
    handler,       \* the handler that holds idemMu, between two statements
    tracking,      \* the trackChangeRequest goroutines, as pairs change, job
    jobStatus, jobResource, jobRun,   \* the jobs, as JobLifecycle sees them
    lost,          \* jobs whose goroutine died with the process
    launched,      \* pairs change, job for which a job row was created
    now,           \* the wall clock
    faults         \* crashes and failed statements so far

rowVars == <<status, op, target, requester, approver, opens, closes, jobOf>>
jobVars == <<jobStatus, jobResource, jobRun>>
vars == <<rowVars, handler, tracking, jobVars, lost, launched, now, faults>>

Job == INSTANCE JobLifecycle
         WITH status <- jobStatus, resource <- jobResource, run <- jobRun

Undecided == {"absent", "pending_approval"}
Final     == {"completed", "failed", "cancelled"}
ChangeStatus == {"absent", "pending_approval", "approved", "rejected",
                 "expired", "executing"} \cup Final

Idle == [point |-> "idle", change |-> NoChange, user |-> NoUser,
         decision |-> "none", job |-> NoJob]

Handlers == [point : {"idle", "decide", "mark", "create"},
             change : Changes \cup {NoChange}, user : Users \cup {NoUser},
             decision : {"none", "approved", "rejected"},
             job : Jobs \cup {NoJob}]

TypeOK ==
    /\ status \in [Changes -> ChangeStatus]
    /\ op \in [Changes -> Operations \cup {"none"}]
    /\ target \in [Changes -> Resources \cup {NoResource}]
    /\ requester \in [Changes -> Users \cup {NoUser}]
    /\ approver \in [Changes -> Users \cup {NoUser}]
    /\ opens \in [Changes -> 0..MaxTime]
    /\ closes \in [Changes -> 0..MaxTime]
    /\ jobOf \in [Changes -> Jobs \cup {NoJob}]
    /\ handler \in Handlers
    /\ tracking \in SUBSET (Changes \X Jobs)
    /\ jobStatus \in [Jobs -> {"absent"} \cup Job!InProgress \cup Job!Settled]
    /\ jobResource \in [Jobs -> Resources \cup {NoResource}]
    /\ jobRun \in [Jobs -> Job!RunStates]
    /\ lost \in SUBSET Jobs
    /\ launched \in SUBSET (Changes \X Jobs)
    /\ now \in 0..MaxTime
    /\ faults \in 0..MaxFaults

Init ==
    /\ status = [c \in Changes |-> "absent"]
    /\ op = [c \in Changes |-> "none"]
    /\ target = [c \in Changes |-> NoResource]
    /\ requester = [c \in Changes |-> NoUser]
    /\ approver = [c \in Changes |-> NoUser]
    /\ opens = [c \in Changes |-> 0]
    /\ closes = [c \in Changes |-> 0]
    /\ jobOf = [c \in Changes |-> NoJob]
    /\ handler = Idle
    /\ tracking = {}
    /\ Job!Init
    /\ lost = {}
    /\ launched = {}
    /\ now = 0
    /\ faults = 0

-----------------------------------------------------------------------------
(***************************************************************************)
(* Policies: the three demands of a row of the table always come together, *)
(* and an operation outside the table gets all of them.                    *)
(***************************************************************************)
RequiresApproval(o) == o \in GatedOps
RequiresWindow(o) == o \in GatedOps
RequiresSeparation(o) == o \in GatedOps

\* A window must be a future, non-empty interval.
ValidWindow(start, end) == start < end /\ now < end

\* Request: one INSERT.  An operation that needs no approval starts approved.
Request(u, c, o, r, start, end) ==
    /\ handler = Idle
    /\ status[c] = "absent"
    /\ RequiresWindow(o) => ValidWindow(start, end)
    /\ ~RequiresWindow(o) => start = 0 /\ end = 0
    /\ status' = [status EXCEPT ![c] = IF RequiresApproval(o)
                                       THEN "pending_approval" ELSE "approved"]
    /\ op' = [op EXCEPT ![c] = o]
    /\ target' = [target EXCEPT ![c] = r]
    /\ requester' = [requester EXCEPT ![c] = u]
    /\ opens' = [opens EXCEPT ![c] = start]
    /\ closes' = [closes EXCEPT ![c] = end]
    /\ UNCHANGED <<approver, jobOf, handler, tracking, jobVars, lost, launched,
                   now, faults>>

\* (mutation: nobody compares the approver with the requester)
MayDecideAlone(u, c, decision) ==
    decision = "approved" => RequiresApproval(op[c])

\* Who may decide: Approve looks at the policy, Reject never lets the
\* requester decide.
MayDecide(u, c, decision) ==
    IF decision = "approved"
    THEN /\ RequiresApproval(op[c])
         /\ RequiresSeparation(op[c]) => requester[c] # u
    ELSE requester[c] # u

\* Approve and Reject up to the expiry check of DecideChangeRequest.
DecideCheck(u, c, decision) ==
    /\ handler = Idle
    /\ status[c] = "pending_approval"
    /\ MayDecide(u, c, decision)
    /\ now < closes[c]
    /\ handler' = [Idle EXCEPT !.point = "decide", !.change = c, !.user = u,
                               !.decision = decision]
    /\ UNCHANGED <<rowVars, tracking, jobVars, lost, launched, now, faults>>

\* The same on a request past expires_at: it is marked and refused.
DecideExpired(u, c, decision) ==
    /\ handler = Idle
    /\ status[c] = "pending_approval"
    /\ MayDecide(u, c, decision)
    /\ now >= closes[c]
    /\ status' = [status EXCEPT ![c] = "expired"]
    /\ UNCHANGED <<op, target, requester, approver, opens, closes, jobOf,
                   handler, tracking, jobVars, lost, launched, now, faults>>

\* UPDATE ... WHERE status='pending_approval'.
DecideCommit ==
    /\ handler.point = "decide"
    /\ status[handler.change] = "pending_approval"
    /\ status' = [status EXCEPT ![handler.change] = handler.decision]
    /\ approver' = [approver EXCEPT ![handler.change] = handler.user]
    /\ handler' = Idle
    /\ UNCHANGED <<op, target, requester, opens, closes, jobOf, tracking,
                   jobVars, lost, launched, now, faults>>

-----------------------------------------------------------------------------
(***************************************************************************)
(* executeChangeRequest.                                                   *)
(***************************************************************************)

\* (mutation: the start of the window is forgotten)
WindowNotOver(c) == now < closes[c]

\* (mutation: the end of the window is left to expires_at)
WindowOpened(c) == opens[c] <= now

\* The window as read at `now`, before MarkExecuting.
WindowOpen(c) == opens[c] <= now /\ now < closes[c]

\* Status, window and capability.
ExecuteCheck(u, c) ==
    /\ handler = Idle
    /\ status[c] = "approved"
    /\ RequiresWindow(op[c]) => WindowOpen(c)
    /\ op[c] \in CapableOps
    /\ handler' = [Idle EXCEPT !.point = "mark", !.change = c]
    /\ UNCHANGED <<rowVars, tracking, jobVars, lost, launched, now, faults>>

\* MarkExecuting: UPDATE ... WHERE status='approved', with a fresh job id.
ExecuteMark(j) ==
    /\ handler.point = "mark"
    /\ status[handler.change] = "approved"
    /\ jobStatus[j] = "absent"
    /\ \A c \in Changes : jobOf[c] # j
    /\ status' = [status EXCEPT ![handler.change] = "executing"]
    /\ jobOf' = [jobOf EXCEPT ![handler.change] = j]
    /\ handler' = [handler EXCEPT !.point = "create", !.job = j]
    /\ UNCHANGED <<op, target, requester, approver, opens, closes, tracking,
                   jobVars, lost, launched, now, faults>>

\* A statement of DecideChangeRequest or SetChangeRequestJob fails before it
\* changes the row, and the handler answers with the error.
StatementFails ==
    /\ handler.point \in {"decide", "mark"}
    /\ faults < MaxFaults
    /\ faults' = faults + 1
    /\ handler' = Idle
    /\ UNCHANGED <<rowVars, tracking, jobVars, lost, launched, now>>

\* (mutation: the tracker is not started)
ExecuteCreateUntracked ==
    /\ handler.point = "create"
    /\ Job!Submit(handler.job, target[handler.change])
    /\ launched' = launched \cup {<<handler.change, handler.job>>}
    /\ handler' = Idle
    /\ UNCHANGED <<rowVars, tracking, lost, now, faults>>

\* CreateWithID succeeds and the tracker is started.
ExecuteCreate ==
    /\ handler.point = "create"
    /\ Job!Submit(handler.job, target[handler.change])
    /\ launched' = launched \cup {<<handler.change, handler.job>>}
    /\ tracking' = tracking \cup {<<handler.change, handler.job>>}
    /\ handler' = Idle
    /\ UNCHANGED <<rowVars, lost, now, faults>>

\* (mutation: the released request must be approved again)
ExecuteReleaseToPending ==
    /\ handler.point = "create"
    /\ faults < MaxFaults
    /\ faults' = faults + 1
    /\ status' = [status EXCEPT ![handler.change] = "pending_approval"]
    /\ jobOf' = [jobOf EXCEPT ![handler.change] = NoJob]
    /\ handler' = Idle
    /\ UNCHANGED <<op, target, requester, approver, opens, closes, tracking,
                   jobVars, lost, launched, now>>

\* CreateWithID fails; ReleaseExecution gives the approval back.
ExecuteRelease ==
    /\ handler.point = "create"
    /\ faults < MaxFaults
    /\ faults' = faults + 1
    /\ status' = [status EXCEPT ![handler.change] = "approved"]
    /\ jobOf' = [jobOf EXCEPT ![handler.change] = NoJob]
    /\ handler' = Idle
    /\ UNCHANGED <<op, target, requester, approver, opens, closes, tracking,
                   jobVars, lost, launched, now>>

\* The error of ReleaseExecution is dropped: the request stays executing.
ExecuteReleaseFails ==
    /\ handler.point = "create"
    /\ faults < MaxFaults
    /\ faults' = faults + 1
    /\ handler' = Idle
    /\ UNCHANGED <<rowVars, tracking, jobVars, lost, launched, now>>

-----------------------------------------------------------------------------
(***************************************************************************)
(* trackChangeRequest.  GetJob and CompleteChangeRequest are two           *)
(* statements, but a terminal status does not change between them.         *)
(***************************************************************************)
\* (mutation: the status of the job is copied)
OutcomeIsJobStatus(s) == s

\* (mutation: every end of the job counts as an execution)
OutcomeAlwaysCompleted(s) == "completed"

\* The switch of trackChangeRequest over the statuses a job can end with.
OutcomeOf(s) ==
    CASE s = "success" -> "completed"
      [] s = "failed" -> "failed"
      [] s = "cancelled" -> "cancelled"

Complete(c, j) ==
    /\ <<c, j>> \in tracking
    /\ jobStatus[j] \in Job!Settled
    /\ status' = IF status[c] = "executing"
                 THEN [status EXCEPT ![c] = OutcomeOf(jobStatus[j])]
                 ELSE status
    /\ tracking' = tracking \ {<<c, j>>}
    /\ UNCHANGED <<op, target, requester, approver, opens, closes, jobOf,
                   handler, jobVars, lost, launched, now, faults>>

\* One failed GetJob or UPDATE, or 24 hours, end the tracker for good.
TrackerQuits(c, j) ==
    /\ <<c, j>> \in tracking
    /\ faults < MaxFaults
    /\ faults' = faults + 1
    /\ tracking' = tracking \ {<<c, j>>}
    /\ UNCHANGED <<rowVars, handler, jobVars, lost, launched, now>>

-----------------------------------------------------------------------------
(***************************************************************************)
(* Jobs, time and the crash of the process.                                *)
(***************************************************************************)
JobSettles(j) ==
    /\ j \notin lost
    /\ \E s \in Job!Settled : Job!Settle(j, s)
    /\ UNCHANGED <<rowVars, handler, tracking, lost, launched, now, faults>>

JobAdvances(j) ==
    /\ j \notin lost
    /\ \E s \in {"running"} : Job!Advance(j, s)
    /\ UNCHANGED <<rowVars, handler, tracking, lost, launched, now, faults>>

JobBegins(j) ==
    /\ j \notin lost
    /\ Job!Begin(j)
    /\ UNCHANGED <<rowVars, handler, tracking, lost, launched, now, faults>>

JobEnds(j) ==
    /\ \E outcome \in {"ok", "ended"} : Job!End(j, outcome)
    /\ UNCHANGED <<rowVars, handler, tracking, lost, launched, now, faults>>

Tick ==
    /\ now < MaxTime
    /\ now' = now + 1
    /\ UNCHANGED <<rowVars, handler, tracking, jobVars, lost, launched, faults>>

\* (mutation: a restart gives the approval of unfinished executions back)
RestartReopens ==
    /\ faults < MaxFaults
    /\ faults' = faults + 1
    /\ handler' = Idle
    /\ tracking' = {}
    /\ lost' = {j \in Jobs : jobStatus[j] # "absent"}
    /\ status' = [c \in Changes |->
                     IF status[c] = "executing" THEN "approved" ELSE status[c]]
    /\ UNCHANGED <<op, target, requester, approver, opens, closes, jobOf,
                   jobVars, launched, now>>

\* The process restarts: the handler, the trackers and the job goroutines are
\* gone, the rows stay as they are.
Restart ==
    /\ faults < MaxFaults
    /\ faults' = faults + 1
    /\ handler' = Idle
    /\ tracking' = {}
    /\ lost' = {j \in Jobs : jobStatus[j] # "absent"}
    /\ UNCHANGED <<rowVars, jobVars, launched, now>>

-----------------------------------------------------------------------------
HandlerSteps ==
    \/ DecideCommit
    \/ \E j \in Jobs : ExecuteMark(j)
    \/ ExecuteCreate

Next ==
    \/ \E u \in Users, c \in Changes :
          \/ \E o \in Operations, r \in Resources, start, end \in 0..MaxTime :
                Request(u, c, o, r, start, end)
          \/ \E decision \in {"approved", "rejected"} :
                \/ DecideCheck(u, c, decision)
                \/ DecideExpired(u, c, decision)
          \/ ExecuteCheck(u, c)
    \/ HandlerSteps
    \/ StatementFails
    \/ ExecuteRelease
    \/ ExecuteReleaseFails
    \/ \E c \in Changes, j \in Jobs : Complete(c, j) \/ TrackerQuits(c, j)
    \/ \E j \in Jobs :
          JobSettles(j) \/ JobAdvances(j) \/ JobBegins(j) \/ JobEnds(j)
    \/ Tick
    \/ Restart

Spec == Init /\ [][Next]_vars

(***************************************************************************)
(* A handler that started finishes, a tracker's ticker fires, and a job    *)
(* settles (JobManager checks the last one).  Requests, decisions, faults  *)
(* and the passing of time are not owed.                                   *)
(***************************************************************************)
FairSpec ==
    /\ Spec
    /\ WF_vars(HandlerSteps)
    /\ \A c \in Changes, j \in Jobs : WF_vars(Complete(c, j))
    /\ \A j \in Jobs : WF_vars(JobSettles(j))

-----------------------------------------------------------------------------
(***************************************************************************)
(* Properties.                                                             *)
(***************************************************************************)

\* Whenever a job exists for an operation that demands approval, somebody
\* other than the requester had approved the change (Approve, Execute).
SeparationOfDuties ==
    \A c \in Changes, j \in Jobs :
        <<c, j>> \in launched /\ RequiresSeparation(op[c]) =>
            approver[c] \in Users \ {requester[c]}

\* One approval buys one job: a request that has a job names it, never goes
\* back to approved and so never gets a second one, whatever fails or crashes
\* between MarkExecuting, CreateWithID and ReleaseExecution.
OneExecutionPerApproval ==
    \A c \in Changes, j \in Jobs : <<c, j>> \in launched =>
        jobOf[c] = j /\ status[c] \in {"executing"} \cup Final

\* The outcome recorded by trackChangeRequest is the outcome of the job, and a
\* change recorded as completed was carried out by the agent.
OutcomeAgrees ==
    \A c \in Changes : status[c] \in Final =>
        /\ jobOf[c] \in Jobs
        /\ <<jobStatus[jobOf[c]], status[c]>> \in
              {<<"success", "completed">>, <<"failed", "failed">>,
               <<"cancelled", "cancelled">>}
        /\ status[c] = "completed" => jobRun[jobOf[c]] = "ok"

\* A decision is final: a rejected, expired or finished request never changes
\* again, and a request somebody decided keeps that approver and never waits for
\* a decision again, whatever becomes of its execution.
DecisionFinal ==
    [][\A c \in Changes :
          /\ status[c] \in {"rejected", "expired"} \cup Final =>
                status'[c] = status[c]
          /\ approver[c] # NoUser =>
                approver'[c] = approver[c] /\ status'[c] \notin Undecided]_vars

\* The agent never starts on a change whose maintenance window has not opened.
NeverBeforeWindow ==
    [][\A c \in Changes, j \in Jobs :
          /\ <<c, j>> \in launched
          /\ RequiresWindow(op[c])
          /\ jobRun[j] = "idle" /\ jobRun'[j] = "active"
          => opens[c] <= now]_vars

\* The agent starts on such a change only inside its maintenance window: the
\* claim of docs/change-approval.md that the job looks at the window again
\* right before it executes.
BeginsInWindow ==
    [][\A c \in Changes, j \in Jobs :
          /\ <<c, j>> \in launched
          /\ RequiresWindow(op[c])
          /\ jobRun[j] = "idle" /\ jobRun'[j] = "active"
          => WindowOpen(c)]_vars

\* A gated change that is approved when its window is over and that no handler
\* is working on.
Late(c) ==
    /\ status[c] = "approved" /\ RequiresWindow(op[c])
    /\ closes[c] <= now /\ handler.change # c

\* An approval past its expiry is void: a late change stays late and never
\* gets a job.  That covers the approval which DecideChangeRequest recorded
\* after the expiry it had compared before.
LateApprovalIsVoid ==
    [][\A c \in Changes : Late(c) => Late(c)' /\ jobOf'[c] = NoJob]_vars

\* Every execution gets its outcome recorded, unless the process dies or a
\* statement fails: a tracker follows every job to its end.
ChangeSettles ==
    []<>(\A c \in Changes : status[c] # "executing" \/ faults > 0)
=============================================================================
