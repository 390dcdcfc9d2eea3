---------------------------- MODULE JobLifecycle ----------------------------
(***************************************************************************)
(* What the rest of the backend may rely on when it hands work to          *)
(* jobs.Manager: a job row is created once, moves through in-progress      *)
(* statuses, settles at most once, runs on the agent at most once, and no  *)
(* two jobs have a call in progress on the same resource.  A call that is  *)
(* given up has ended here, whether or not the agent has stopped working   *)
(* for it.  Nothing is said about locks, goroutines, timers or restarts:   *)
(* JobManager shows how these deliver the promise.                         *)
(***************************************************************************)
CONSTANTS Jobs, Resources, NoResource

VARIABLES
    status,      \* the status column of the jobs table, "absent" without a row
    resource,    \* the resource (and lock key) of the row
    run          \* the job's call of the agent

lifecycleVars == <<status, resource, run>>

InProgress == {"queued", "validating", "running", "testing"}

\* The statuses storage.terminal accepts that jobs.Manager can write.
Settled == {"success", "failed", "cancelled"}

RunStates == {"idle", "active", "ok", "ended"}

Init ==
    /\ status = [j \in Jobs |-> "absent"]
    /\ resource = [j \in Jobs |-> NoResource]
    /\ run = [j \in Jobs |-> "idle"]

Submit(j, r) ==
    /\ status[j] = "absent"
    /\ status' = [status EXCEPT ![j] = "queued"]
    /\ resource' = [resource EXCEPT ![j] = r]
    /\ UNCHANGED run

Advance(j, s) ==
    /\ status[j] \in InProgress
    /\ status' = [status EXCEPT ![j] = s]
    /\ UNCHANGED <<resource, run>>

Begin(j) ==
    /\ status[j] \in InProgress
    /\ run[j] = "idle"
    /\ \A i \in Jobs : resource[i] = resource[j] => run[i] # "active"
    /\ run' = [run EXCEPT ![j] = "active"]
    /\ UNCHANGED <<status, resource>>

End(j, outcome) ==
    /\ run[j] = "active"
    /\ run' = [run EXCEPT ![j] = outcome]
    /\ UNCHANGED <<status, resource>>

\* A crash of the API gives up every call at once.
GiveUp(given) ==
    /\ \A j \in given : run[j] = "active"
    /\ run' = [j \in Jobs |-> IF j \in given THEN "ended" ELSE run[j]]
    /\ UNCHANGED <<status, resource>>

Settle(j, s) ==
    /\ status[j] \in InProgress
    /\ s = "success" => run[j] = "ok"
    /\ status' = [status EXCEPT ![j] = s]
    /\ UNCHANGED <<resource, run>>

Next ==
    \/ \E given \in SUBSET Jobs : GiveUp(given)
    \/ \E j \in Jobs :
        \/ \E r \in Resources : Submit(j, r)
        \/ \E s \in InProgress : Advance(j, s)
        \/ Begin(j)
        \/ \E outcome \in {"ok", "ended"} : End(j, outcome)
        \/ \E s \in Settled : Settle(j, s)

Spec == Init /\ [][Next]_lifecycleVars
=============================================================================
