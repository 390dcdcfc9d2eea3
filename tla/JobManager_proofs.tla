-------------------------- MODULE JobManager_proofs --------------------------
(***************************************************************************)
(* Proofs about JobManager, for any sets of jobs and resources and any     *)
(* durations that satisfy the assumptions of the module, and about the     *)
(* stream that tells a console of the jobs' progress (EventStream), for    *)
(* any sizes of history and channel.                                       *)
(***************************************************************************)
EXTENDS JobManager, EventStream, FiniteSetTheorems, TLAPS

\* The control points a job passes through before the agent is called.
BeforeCall(j) ==
    \/ pc[j] \in {"none", "spawned", "purge", "insert", "conflict", "call"}
    \/ pc[j] = "advance" /\ step[j] <= 3

\* A row, its resource and its goroutine appear together.
RowInv ==
    \A j \in Jobs :
        /\ status[j] = "absent" <=> pc[j] = "none"
        /\ status[j] # "absent" => resource[j] \in Resources

\* A goroutine that believes it holds the lock owns the row, and the row is
\* exactly as old as its reading of `now`.
HeldInv ==
    \A j \in Jobs : pc[j] \in Holding =>
        /\ lockOwner[resource[j]] = j
        /\ lockAge[resource[j]] = age[j]

\* The budget always leaves room for the timers to come.
BudgetInv ==
    \A j \in Jobs : pc[j] \in Timed => age[j] + TimersLeft(j) <= RunBudget

\* What the agent may be doing at each control point.
PhaseInv ==
    \A j \in Jobs :
        /\ agent[j] = "running" => pc[j] = "calling"
        /\ pc[j] = "calling" => agent[j] \in {"running", "ok", "error"}
        /\ BeforeCall(j) => agent[j] = "idle"

\* While an abandoned execution lingers, whoever has taken the lock since has
\* waited no longer than the execution has been told to stop.
GraceInv ==
    \A i, j \in Jobs :
        /\ i # j
        /\ agent[j] = "aborting"
        /\ resource[i] = resource[j]
        => /\ pc[i] = "call" => abort[j] + PreCallWait <= AbortTime
           /\ pc[i] = "advance" /\ step[i] <= 3
                => abort[j] + PreCallWait + WaitsAfter(3)
                      <= AbortTime + wait[i] + WaitsAfter(step[i])

\* A lock row belongs to a goroutine that relies on it, to one a crash took or
\* to one whose release failed; the cancel map and, where no statement failed,
\* the terminal statuses follow the control point.
ExitInv ==
    \A j \in Jobs :
        /\ \A r \in Resources : lockOwner[r] = j =>
              /\ r = resource[j]
              /\ \/ pc[j] \in Holding \cup {"lost"}
                 \/ pc[j] \in {"unregister", "done"} /\ faults[j] > 0
        /\ j \in cancelFn => pc[j] \in Timed \cup {"conflict", "unregister"}
        /\ pc[j] \in {"release", "unregister", "done"} =>
              status[j] \in Terminal \/ faults[j] > 0

\* A job cancelled in time keeps a fired context until it is past the call.
EarlyInv ==
    \A j \in early :
        /\ agent[j] = "idle"
        /\ status[j] # "success"
        /\ pc[j] \notin {"none", "spawned", "calling", "finish"}
        /\ pc[j] = "advance" => step[j] <= 3
        /\ pc[j] \in {"purge", "insert", "advance", "call"} => ctx[j] # "live"
        /\ pc[j] = "call" => ctx[j] = "done"

\* Between the DELETE and the INSERT of AcquireLock no row of the resource is
\* expired for the `now` that was read, unless the DELETE failed.
FreshInv ==
    \A j \in Jobs : pc[j] = "insert" =>
        faults[j] > 0 \/ lockAge[resource[j]] <= LockTTL + age[j]

\* Until a goroutine settles its job the status is an in-progress one, and
\* after the call the agent has succeeded.
ProgressInv ==
    \A j \in Jobs :
        /\ pc[j] \in {"spawned", "purge", "insert", "conflict", "advance",
                      "call", "calling", "callfail", "finish"}
              => status[j] \in InProgress
        /\ (pc[j] = "advance" /\ step[j] >= 4) \/ pc[j] = "finish"
              => agent[j] = "ok"

\* The waits of advance are positive numbers.
LEMMA WaitTypes ==
    /\ \A s \in 1..5 : StepWait[s] \in Nat /\ StepWait[s] > 0
    /\ \A s \in 1..5 : WaitsAfter(s) \in Nat
    /\ WaitsAfter(0) \in Nat
<1>1. \A s \in 1..5 : StepWait[s] \in Nat /\ StepWait[s] > 0
  BY ConstantsAssumption
<1>2. /\ StepWait[1] \in Nat /\ StepWait[2] \in Nat /\ StepWait[3] \in Nat
      /\ StepWait[4] \in Nat /\ StepWait[5] \in Nat
  BY <1>1
<1> QED
  BY <1>1, <1>2 DEF WaitsAfter

\* What is left after one call of advance is its next wait and what follows.
LEMMA WaitSplit ==
    \A s \in {1, 2} : WaitsAfter(s) = StepWait[s + 1] + WaitsAfter(s + 1)
<1>1. /\ StepWait[1] \in Nat /\ StepWait[2] \in Nat /\ StepWait[3] \in Nat
      /\ StepWait[4] \in Nat /\ StepWait[5] \in Nat
  BY ConstantsAssumption
<1>2. /\ WaitsAfter(1) = StepWait[2] + StepWait[3] + StepWait[4] + StepWait[5]
      /\ WaitsAfter(2) = StepWait[3] + StepWait[4] + StepWait[5]
      /\ WaitsAfter(3) = StepWait[4] + StepWait[5]
  BY <1>1 DEF WaitsAfter
<1> QED
  BY <1>1, <1>2

\* Every step of the manager, the agent and the clock preserves the types.
LEMMA TypeStep == TypeOK /\ [Next]_vars => TypeOK'
<1> SUFFICES ASSUME TypeOK, [Next]_vars PROVE TypeOK'
  OBVIOUS
<1> USE ConstantsAssumption DEF TypeOK, ControlPoints, Timed, AgentStates,
        InProgress, Terminal, dbVars, lockVars, runnerVars, agentVars
<1>1. ASSUME NEW j \in Jobs, NEW r \in Resources, NEW b,
             CreateWithID(j, r, b)
      PROVE TypeOK'
  BY <1>1 DEF CreateWithID
<1>2. ASSUME NEW j \in Jobs, NEW o \in Jobs, Rollback(j, o) PROVE TypeOK'
  BY <1>2 DEF Rollback, CreateWithID
<1>3. ASSUME NEW j \in Jobs, Cancel(j) PROVE TypeOK'
  BY <1>3 DEF Cancel
<1>4. ASSUME NEW j \in Jobs, Register(j) PROVE TypeOK'
  BY <1>4 DEF Register
<1>5. ASSUME NEW j \in Jobs, AcquirePurge(j) PROVE TypeOK'
  BY <1>5 DEF AcquirePurge
<1>6. ASSUME NEW j \in Jobs, AcquireInsert(j) PROVE TypeOK'
  <2>1. lockOwner' \in [Resources -> Jobs \cup {NoJob}]
    BY <1>6 DEF AcquireInsert
  <2>2. lockAge' \in [Resources -> Nat]
    BY <1>6 DEF AcquireInsert
  <2>3. wait' \in [Jobs -> Nat]
    BY <1>6, WaitTypes DEF AcquireInsert
  <2> QED
    BY <1>6, <2>1, <2>2, <2>3 DEF AcquireInsert
<1>7. ASSUME NEW j \in Jobs, AcquireConflict(j) PROVE TypeOK'
  BY <1>7 DEF AcquireConflict
<1>8. ASSUME NEW j \in Jobs, Advance(j) PROVE TypeOK'
  BY <1>8, WaitTypes DEF Advance, NextStep, StepStatus
<1>9. ASSUME NEW j \in Jobs, AdvanceCancelled(j) PROVE TypeOK'
  BY <1>9 DEF AdvanceCancelled
<1>10. ASSUME NEW j \in Jobs, CallSent(j) PROVE TypeOK'
  BY <1>10 DEF CallSent
<1>11. ASSUME NEW j \in Jobs, CallRefused(j) PROVE TypeOK'
  BY <1>11 DEF CallRefused
<1>12. ASSUME NEW j \in Jobs, CallSucceeds(j) PROVE TypeOK'
  BY <1>12, WaitTypes DEF CallSucceeds
<1>13. ASSUME NEW j \in Jobs, CallFails(j) PROVE TypeOK'
  BY <1>13 DEF CallFails
<1>14. ASSUME NEW j \in Jobs, FailConflict(j) PROVE TypeOK'
  BY <1>14 DEF FailConflict
<1>15. ASSUME NEW j \in Jobs, FailAgent(j) PROVE TypeOK'
  BY <1>15 DEF FailAgent
<1>16. ASSUME NEW j \in Jobs, Succeed(j) PROVE TypeOK'
  BY <1>16 DEF Succeed
<1>17. ASSUME NEW j \in Jobs, ReleaseLock(j) PROVE TypeOK'
  BY <1>17 DEF ReleaseLock
<1>18. ASSUME NEW j \in Jobs, Unregister(j) PROVE TypeOK'
  BY <1>18 DEF Unregister
<1>19. ASSUME NEW j \in Jobs, Agent(j) PROVE TypeOK'
  BY <1>19 DEF Agent, AgentFinishes, AgentStops
<1>20. CASE Tick
  BY <1>20 DEF Tick, Aged, MaxAge
<1>21. CASE Restart
  BY <1>21 DEF Restart
<1>22. CASE UNCHANGED vars
  BY <1>22 DEF vars
<1>23. ASSUME NEW j \in Jobs, AcquireFails(j) PROVE TypeOK'
  BY <1>23 DEF AcquireFails, Fault
<1>24. ASSUME NEW j \in Jobs, AdvanceUnrecorded(j) PROVE TypeOK'
  <2>1. wait' \in [Jobs -> Nat]
    BY <1>24, WaitTypes DEF AdvanceUnrecorded, NextStep
  <2>2. ctx' \in [Jobs -> {"live", "racing", "done"}]
    BY <1>24 DEF AdvanceUnrecorded
  <2> QED
    BY <1>24, <2>1, <2>2 DEF AdvanceUnrecorded, NextStep, Fault
<1>25. ASSUME NEW j \in Jobs, EndUnrecorded(j) PROVE TypeOK'
  BY <1>25 DEF EndUnrecorded, Fault
<1>26. ASSUME NEW j \in Jobs, ReleaseFails(j) PROVE TypeOK'
  BY <1>26 DEF ReleaseFails, Fault
<1>27. ASSUME NEW j \in Jobs, PurgeFails(j) PROVE TypeOK'
  BY <1>27 DEF PurgeFails, Fault
<1> HIDE ConstantsAssumption DEF TypeOK, ControlPoints, Timed, AgentStates,
        InProgress, Terminal, dbVars, lockVars, runnerVars, agentVars
<1> QED
  BY <1>1, <1>2, <1>3, <1>4, <1>5, <1>6, <1>7, <1>8, <1>9, <1>10, <1>11,
     <1>12, <1>13, <1>14, <1>15, <1>16, <1>17, <1>18, <1>19, <1>20, <1>21,
     <1>22, <1>23, <1>24,
     <1>25, <1>26, <1>27
  DEF Next, Handler, Runner

\* Type correctness of every state of jobs.Manager: the statuses, control
\* points and durations stay in the sets TypeOK names.
THEOREM TypeCorrect == Spec => []TypeOK
<1>1. Init => TypeOK
  BY ConstantsAssumption DEF Init, TypeOK, ControlPoints, Timed, AgentStates,
     InProgress, Terminal
<1> QED
  BY <1>1, TypeStep, PTL DEF Spec

-----------------------------------------------------------------------------
\* Rows, resources and goroutines stay in step.
LEMMA RowStep == TypeOK /\ RowInv /\ [Next]_vars => RowInv'
<1> SUFFICES ASSUME TypeOK, RowInv, [Next]_vars PROVE RowInv'
  OBVIOUS
<1> USE ConstantsAssumption DEF TypeOK, RowInv, dbVars, lockVars, runnerVars,
        agentVars
<1>1. ASSUME NEW j \in Jobs, NEW r \in Resources, NEW b,
             CreateWithID(j, r, b)
      PROVE RowInv'
  BY <1>1 DEF CreateWithID
<1>2. ASSUME NEW j \in Jobs, NEW o \in Jobs, Rollback(j, o) PROVE RowInv'
  BY <1>2 DEF Rollback, CreateWithID
<1>3. ASSUME NEW j \in Jobs, Cancel(j) PROVE RowInv'
  BY <1>3 DEF Cancel
<1>4. ASSUME NEW j \in Jobs, Register(j) PROVE RowInv'
  BY <1>4 DEF Register
<1>5. ASSUME NEW j \in Jobs, AcquirePurge(j) PROVE RowInv'
  BY <1>5 DEF AcquirePurge
<1>6. ASSUME NEW j \in Jobs, AcquireInsert(j) PROVE RowInv'
  BY <1>6 DEF AcquireInsert
<1>7. ASSUME NEW j \in Jobs, AcquireConflict(j) PROVE RowInv'
  BY <1>7 DEF AcquireConflict
<1>8. ASSUME NEW j \in Jobs, Advance(j) PROVE RowInv'
  BY <1>8 DEF Advance, NextStep, StepStatus
<1>9. ASSUME NEW j \in Jobs, AdvanceCancelled(j) PROVE RowInv'
  BY <1>9 DEF AdvanceCancelled
<1>10. ASSUME NEW j \in Jobs, CallSent(j) PROVE RowInv'
  BY <1>10 DEF CallSent
<1>11. ASSUME NEW j \in Jobs, CallRefused(j) PROVE RowInv'
  BY <1>11 DEF CallRefused
<1>12. ASSUME NEW j \in Jobs, CallSucceeds(j) PROVE RowInv'
  BY <1>12 DEF CallSucceeds
<1>13. ASSUME NEW j \in Jobs, CallFails(j) PROVE RowInv'
  BY <1>13 DEF CallFails
<1>14. ASSUME NEW j \in Jobs, FailConflict(j) PROVE RowInv'
  BY <1>14 DEF FailConflict
<1>15. ASSUME NEW j \in Jobs, FailAgent(j) PROVE RowInv'
  BY <1>15 DEF FailAgent
<1>16. ASSUME NEW j \in Jobs, Succeed(j) PROVE RowInv'
  BY <1>16 DEF Succeed
<1>17. ASSUME NEW j \in Jobs, ReleaseLock(j) PROVE RowInv'
  BY <1>17 DEF ReleaseLock
<1>18. ASSUME NEW j \in Jobs, Unregister(j) PROVE RowInv'
  BY <1>18 DEF Unregister
<1>19. ASSUME NEW j \in Jobs, NEW x \in {"ok", "error"}, AgentFinishes(j, x)
       PROVE RowInv'
  BY <1>19 DEF AgentFinishes
<1>20. ASSUME NEW j \in Jobs, AgentStops(j) PROVE RowInv'
  BY <1>20 DEF AgentStops
<1>21. CASE Tick
  BY <1>21 DEF Tick, Aged, MaxAge
<1>22. CASE Restart
  BY <1>22 DEF Restart
<1>23. CASE UNCHANGED vars
  BY <1>23 DEF vars
<1>24. ASSUME NEW j \in Jobs, AcquireFails(j) PROVE RowInv'
  BY <1>24 DEF AcquireFails, Fault
<1>25. ASSUME NEW j \in Jobs, AdvanceUnrecorded(j) PROVE RowInv'
  BY <1>25 DEF AdvanceUnrecorded, NextStep, Fault
<1>26. ASSUME NEW j \in Jobs, EndUnrecorded(j) PROVE RowInv'
  BY <1>26 DEF EndUnrecorded, Fault
<1>27. ASSUME NEW j \in Jobs, ReleaseFails(j) PROVE RowInv'
  BY <1>27 DEF ReleaseFails, Fault
<1>28. ASSUME NEW j \in Jobs, PurgeFails(j) PROVE RowInv'
  BY <1>28 DEF PurgeFails, Fault
<1> HIDE ConstantsAssumption DEF TypeOK, RowInv, dbVars, lockVars, runnerVars,
        agentVars
<1> QED
  BY <1>1, <1>2, <1>3, <1>4, <1>5, <1>6, <1>7, <1>8, <1>9, <1>10, <1>11,
     <1>12, <1>13, <1>14, <1>15, <1>16, <1>17, <1>18, <1>19, <1>20, <1>21,
     <1>22, <1>23, <1>24, <1>25,
     <1>26, <1>27, <1>28
  DEF Next, Handler, Runner, Agent

\* The agent works for a job only while its goroutine waits for the answer.
LEMMA PhaseStep == TypeOK /\ RowInv /\ PhaseInv /\ [Next]_vars => PhaseInv'
<1> SUFFICES ASSUME TypeOK, RowInv, PhaseInv, [Next]_vars PROVE PhaseInv'
  OBVIOUS
<1> USE ConstantsAssumption DEF TypeOK, RowInv, PhaseInv, BeforeCall, dbVars,
        lockVars, runnerVars, agentVars
<1>1. ASSUME NEW j \in Jobs, NEW r \in Resources, NEW b,
             CreateWithID(j, r, b)
      PROVE PhaseInv'
  BY <1>1 DEF CreateWithID
<1>2. ASSUME NEW j \in Jobs, NEW o \in Jobs, Rollback(j, o) PROVE PhaseInv'
  BY <1>2 DEF Rollback, CreateWithID
<1>3. ASSUME NEW j \in Jobs, Cancel(j) PROVE PhaseInv'
  BY <1>3 DEF Cancel
<1>4. ASSUME NEW j \in Jobs, Register(j) PROVE PhaseInv'
  BY <1>4 DEF Register
<1>5. ASSUME NEW j \in Jobs, AcquirePurge(j) PROVE PhaseInv'
  BY <1>5 DEF AcquirePurge
<1>6. ASSUME NEW j \in Jobs, AcquireInsert(j) PROVE PhaseInv'
  BY <1>6 DEF AcquireInsert
<1>7. ASSUME NEW j \in Jobs, AcquireConflict(j) PROVE PhaseInv'
  BY <1>7 DEF AcquireConflict
<1>8. ASSUME NEW j \in Jobs, Advance(j) PROVE PhaseInv'
  BY <1>8 DEF Advance, NextStep
<1>9. ASSUME NEW j \in Jobs, AdvanceCancelled(j) PROVE PhaseInv'
  BY <1>9 DEF AdvanceCancelled
<1>10. ASSUME NEW j \in Jobs, CallSent(j) PROVE PhaseInv'
  BY <1>10 DEF CallSent
<1>11. ASSUME NEW j \in Jobs, CallRefused(j) PROVE PhaseInv'
  BY <1>11 DEF CallRefused
<1>12. ASSUME NEW j \in Jobs, CallSucceeds(j) PROVE PhaseInv'
  BY <1>12 DEF CallSucceeds
<1>13. ASSUME NEW j \in Jobs, CallFails(j) PROVE PhaseInv'
  BY <1>13 DEF CallFails
<1>14. ASSUME NEW j \in Jobs, FailConflict(j) PROVE PhaseInv'
  BY <1>14 DEF FailConflict
<1>15. ASSUME NEW j \in Jobs, FailAgent(j) PROVE PhaseInv'
  BY <1>15 DEF FailAgent
<1>16. ASSUME NEW j \in Jobs, Succeed(j) PROVE PhaseInv'
  BY <1>16 DEF Succeed
<1>17. ASSUME NEW j \in Jobs, ReleaseLock(j) PROVE PhaseInv'
  BY <1>17 DEF ReleaseLock
<1>18. ASSUME NEW j \in Jobs, Unregister(j) PROVE PhaseInv'
  BY <1>18 DEF Unregister
<1>19. ASSUME NEW j \in Jobs, NEW x \in {"ok", "error"}, AgentFinishes(j, x)
       PROVE PhaseInv'
  BY <1>19 DEF AgentFinishes
<1>20. ASSUME NEW j \in Jobs, AgentStops(j) PROVE PhaseInv'
  BY <1>20 DEF AgentStops
<1>21. CASE Tick
  BY <1>21 DEF Tick, Aged, MaxAge
<1>22. CASE Restart
  BY <1>22 DEF Restart
<1>23. CASE UNCHANGED vars
  BY <1>23 DEF vars
<1>24. ASSUME NEW j \in Jobs, AcquireFails(j) PROVE PhaseInv'
  BY <1>24 DEF AcquireFails, Fault
<1>25. ASSUME NEW j \in Jobs, AdvanceUnrecorded(j) PROVE PhaseInv'
  BY <1>25 DEF AdvanceUnrecorded, NextStep, Fault
<1>26. ASSUME NEW j \in Jobs, EndUnrecorded(j) PROVE PhaseInv'
  BY <1>26 DEF EndUnrecorded, Fault
<1>27. ASSUME NEW j \in Jobs, ReleaseFails(j) PROVE PhaseInv'
  BY <1>27 DEF ReleaseFails, Fault
<1>28. ASSUME NEW j \in Jobs, PurgeFails(j) PROVE PhaseInv'
  BY <1>28 DEF PurgeFails, Fault
<1> HIDE ConstantsAssumption DEF TypeOK, RowInv, PhaseInv, BeforeCall, dbVars,
        lockVars, runnerVars, agentVars
<1> QED
  BY <1>1, <1>2, <1>3, <1>4, <1>5, <1>6, <1>7, <1>8, <1>9, <1>10, <1>11,
     <1>12, <1>13, <1>14, <1>15, <1>16, <1>17, <1>18, <1>19, <1>20, <1>21,
     <1>22, <1>23, <1>24, <1>25,
     <1>26, <1>27, <1>28
  DEF Next, Handler, Runner, Agent

\* No goroutine between AcquireLock and ReleaseLock exceeds its budget.
LEMMA BudgetStep == TypeOK /\ BudgetInv /\ [Next]_vars => BudgetInv'
<1> SUFFICES ASSUME TypeOK, BudgetInv, [Next]_vars PROVE BudgetInv'
  OBVIOUS
<1> USE ConstantsAssumption, LeaseAssumption, WaitTypes DEF TypeOK, BudgetInv,
        TimersLeft, WaitsAfter, Timed, dbVars, lockVars, runnerVars, agentVars
<1>1. ASSUME NEW j \in Jobs, NEW r \in Resources, NEW b,
             CreateWithID(j, r, b)
      PROVE BudgetInv'
  BY <1>1 DEF CreateWithID
<1>2. ASSUME NEW j \in Jobs, NEW o \in Jobs, Rollback(j, o) PROVE BudgetInv'
  BY <1>2 DEF Rollback, CreateWithID
<1>3. ASSUME NEW j \in Jobs, Cancel(j) PROVE BudgetInv'
  BY <1>3 DEF Cancel
<1>4. ASSUME NEW j \in Jobs, Register(j) PROVE BudgetInv'
  BY <1>4 DEF Register
<1>5. ASSUME NEW j \in Jobs, AcquirePurge(j) PROVE BudgetInv'
  BY <1>5 DEF AcquirePurge
<1>6. ASSUME NEW j \in Jobs, AcquireInsert(j) PROVE BudgetInv'
  BY <1>6 DEF AcquireInsert
<1>7. ASSUME NEW j \in Jobs, AcquireConflict(j) PROVE BudgetInv'
  BY <1>7 DEF AcquireConflict
<1>8. ASSUME NEW j \in Jobs, Advance(j) PROVE BudgetInv'
  BY <1>8 DEF Advance, NextStep
<1>9. ASSUME NEW j \in Jobs, AdvanceCancelled(j) PROVE BudgetInv'
  BY <1>9 DEF AdvanceCancelled
<1>10. ASSUME NEW j \in Jobs, CallSent(j) PROVE BudgetInv'
  BY <1>10 DEF CallSent
<1>11. ASSUME NEW j \in Jobs, CallRefused(j) PROVE BudgetInv'
  BY <1>11 DEF CallRefused
<1>12. ASSUME NEW j \in Jobs, CallSucceeds(j) PROVE BudgetInv'
  BY <1>12 DEF CallSucceeds
<1>13. ASSUME NEW j \in Jobs, CallFails(j) PROVE BudgetInv'
  BY <1>13 DEF CallFails
<1>14. ASSUME NEW j \in Jobs, FailConflict(j) PROVE BudgetInv'
  BY <1>14 DEF FailConflict
<1>15. ASSUME NEW j \in Jobs, FailAgent(j) PROVE BudgetInv'
  BY <1>15 DEF FailAgent
<1>16. ASSUME NEW j \in Jobs, Succeed(j) PROVE BudgetInv'
  BY <1>16 DEF Succeed
<1>17. ASSUME NEW j \in Jobs, ReleaseLock(j) PROVE BudgetInv'
  BY <1>17 DEF ReleaseLock
<1>18. ASSUME NEW j \in Jobs, Unregister(j) PROVE BudgetInv'
  BY <1>18 DEF Unregister
<1>19. ASSUME NEW j \in Jobs, NEW x \in {"ok", "error"}, AgentFinishes(j, x)
       PROVE BudgetInv'
  BY <1>19 DEF AgentFinishes
<1>20. ASSUME NEW j \in Jobs, AgentStops(j) PROVE BudgetInv'
  BY <1>20 DEF AgentStops
<1>21. CASE Tick
  BY <1>21 DEF Tick, Aged, MaxAge
<1>22. CASE Restart
  BY <1>22 DEF Restart
<1>23. CASE UNCHANGED vars
  BY <1>23 DEF vars
<1>24. ASSUME NEW j \in Jobs, AcquireFails(j) PROVE BudgetInv'
  BY <1>24 DEF AcquireFails, Fault
<1>25. ASSUME NEW j \in Jobs, AdvanceUnrecorded(j) PROVE BudgetInv'
  BY <1>25 DEF AdvanceUnrecorded, NextStep, Fault
<1>26. ASSUME NEW j \in Jobs, EndUnrecorded(j) PROVE BudgetInv'
  BY <1>26 DEF EndUnrecorded, Fault
<1>27. ASSUME NEW j \in Jobs, ReleaseFails(j) PROVE BudgetInv'
  BY <1>27 DEF ReleaseFails, Fault
<1>28. ASSUME NEW j \in Jobs, PurgeFails(j) PROVE BudgetInv'
  BY <1>28 DEF PurgeFails, Fault
<1> HIDE ConstantsAssumption, LeaseAssumption, WaitTypes DEF TypeOK, BudgetInv,
        TimersLeft, WaitsAfter, Timed, dbVars, lockVars, runnerVars, agentVars
<1> QED
  BY <1>1, <1>2, <1>3, <1>4, <1>5, <1>6, <1>7, <1>8, <1>9, <1>10, <1>11,
     <1>12, <1>13, <1>14, <1>15, <1>16, <1>17, <1>18, <1>19, <1>20, <1>21,
     <1>22, <1>23, <1>24, <1>25,
     <1>26, <1>27, <1>28
  DEF Next, Handler, Runner, Agent

\* Between AcquireLock and ReleaseLock no goroutine is older than its budget.
LEMMA TimedAge ==
    ASSUME TypeOK, BudgetInv
    PROVE  \A j \in Jobs : pc[j] \in Timed => age[j] <= RunBudget
<1> TAKE j \in Jobs
<1> HAVE pc[j] \in Timed
<1>1. TimersLeft(j) \in Nat
  BY WaitTypes DEF TypeOK, TimersLeft
<1>2. age[j] + TimersLeft(j) <= RunBudget
  BY DEF BudgetInv
<1> QED
  BY <1>1, <1>2, ConstantsAssumption DEF TypeOK

\* The row of a goroutine in its budget is never purged, and nobody else
\* releases it.
LEMMA HeldStep ==
    TypeOK /\ RowInv /\ BudgetInv /\ HeldInv /\ [Next]_vars => HeldInv'
<1> SUFFICES ASSUME TypeOK, RowInv, BudgetInv, HeldInv, [Next]_vars
        PROVE HeldInv'
  OBVIOUS
<1> USE ConstantsAssumption DEF TypeOK, RowInv, HeldInv, Holding, dbVars,
        lockVars, runnerVars, agentVars
<1>1. ASSUME NEW j \in Jobs, NEW r \in Resources, NEW b,
             CreateWithID(j, r, b)
      PROVE HeldInv'
  BY <1>1 DEF CreateWithID
<1>2. ASSUME NEW j \in Jobs, NEW o \in Jobs, Rollback(j, o) PROVE HeldInv'
  BY <1>2 DEF Rollback, CreateWithID
<1>3. ASSUME NEW j \in Jobs, Cancel(j) PROVE HeldInv'
  BY <1>3 DEF Cancel
<1>4. ASSUME NEW j \in Jobs, Register(j) PROVE HeldInv'
  BY <1>4 DEF Register
<1>5. ASSUME NEW j \in Jobs, AcquirePurge(j) PROVE HeldInv'
  <2>1. \A i \in Jobs : pc[i] \in Holding => ~Expired(resource[i], j)
    BY TimedAge, LeaseAssumption DEF Expired, Timed
  <2> QED
    BY <1>5, <2>1 DEF AcquirePurge
<1>6. ASSUME NEW j \in Jobs, AcquireInsert(j) PROVE HeldInv'
  BY <1>6 DEF AcquireInsert
<1>7. ASSUME NEW j \in Jobs, AcquireConflict(j) PROVE HeldInv'
  BY <1>7 DEF AcquireConflict
<1>8. ASSUME NEW j \in Jobs, Advance(j) PROVE HeldInv'
  BY <1>8 DEF Advance, NextStep
<1>9. ASSUME NEW j \in Jobs, AdvanceCancelled(j) PROVE HeldInv'
  BY <1>9 DEF AdvanceCancelled
<1>10. ASSUME NEW j \in Jobs, CallSent(j) PROVE HeldInv'
  BY <1>10 DEF CallSent
<1>11. ASSUME NEW j \in Jobs, CallRefused(j) PROVE HeldInv'
  BY <1>11 DEF CallRefused
<1>12. ASSUME NEW j \in Jobs, CallSucceeds(j) PROVE HeldInv'
  BY <1>12 DEF CallSucceeds
<1>13. ASSUME NEW j \in Jobs, CallFails(j) PROVE HeldInv'
  BY <1>13 DEF CallFails
<1>14. ASSUME NEW j \in Jobs, FailConflict(j) PROVE HeldInv'
  BY <1>14 DEF FailConflict
<1>15. ASSUME NEW j \in Jobs, FailAgent(j) PROVE HeldInv'
  BY <1>15 DEF FailAgent
<1>16. ASSUME NEW j \in Jobs, Succeed(j) PROVE HeldInv'
  BY <1>16 DEF Succeed
<1>17. ASSUME NEW j \in Jobs, ReleaseLock(j) PROVE HeldInv'
  BY <1>17 DEF ReleaseLock
<1>18. ASSUME NEW j \in Jobs, Unregister(j) PROVE HeldInv'
  BY <1>18 DEF Unregister
<1>19. ASSUME NEW j \in Jobs, NEW x \in {"ok", "error"}, AgentFinishes(j, x)
       PROVE HeldInv'
  BY <1>19 DEF AgentFinishes
<1>20. ASSUME NEW j \in Jobs, AgentStops(j) PROVE HeldInv'
  BY <1>20 DEF AgentStops
<1>21. CASE Tick
  <2>1. \A i \in Jobs : pc[i] \in Holding => lockAge[resource[i]] < MaxAge
    BY TimedAge DEF MaxAge, Timed
  <2>2. \A i \in Jobs : pc[i] \in Holding =>
            /\ age'[i] = age[i] + 1
            /\ lockAge'[resource[i]] = lockAge[resource[i]] + 1
    BY <1>21, <2>1 DEF Tick, Aged, Timed
  <2>3. pc' = pc /\ lockOwner' = lockOwner /\ resource' = resource
    BY <1>21 DEF Tick
  <2> QED
    BY <2>2, <2>3
<1>22. CASE Restart
  BY <1>22 DEF Restart
<1>23. CASE UNCHANGED vars
  BY <1>23 DEF vars
<1>24. ASSUME NEW j \in Jobs, AcquireFails(j) PROVE HeldInv'
  BY <1>24 DEF AcquireFails, Fault
<1>25. ASSUME NEW j \in Jobs, AdvanceUnrecorded(j) PROVE HeldInv'
  BY <1>25 DEF AdvanceUnrecorded, NextStep, Fault
<1>26. ASSUME NEW j \in Jobs, EndUnrecorded(j) PROVE HeldInv'
  BY <1>26 DEF EndUnrecorded, Fault
<1>27. ASSUME NEW j \in Jobs, ReleaseFails(j) PROVE HeldInv'
  BY <1>27 DEF ReleaseFails, Fault
<1>28. ASSUME NEW j \in Jobs, PurgeFails(j) PROVE HeldInv'
  BY <1>28 DEF PurgeFails, Fault
<1> HIDE ConstantsAssumption DEF TypeOK, RowInv, HeldInv, Holding, dbVars,
        lockVars, runnerVars, agentVars
<1> QED
  BY <1>1, <1>2, <1>3, <1>4, <1>5, <1>6, <1>7, <1>8, <1>9, <1>10, <1>11,
     <1>12, <1>13, <1>14, <1>15, <1>16, <1>17, <1>18, <1>19, <1>20, <1>21,
     <1>22, <1>23, <1>24, <1>25,
     <1>26, <1>27, <1>28
  DEF Next, Handler, Runner, Agent

\* A new holder starts its waits after the abandoned call was dropped.
LEMMA GraceStep ==
    TypeOK /\ RowInv /\ HeldInv /\ PhaseInv /\ GraceInv
        /\ [Next]_vars => GraceInv'
<1> SUFFICES ASSUME TypeOK, RowInv, HeldInv, PhaseInv, GraceInv,
        [Next]_vars PROVE GraceInv'
  OBVIOUS
<1> USE ConstantsAssumption, WaitTypes DEF TypeOK, RowInv, HeldInv, PhaseInv,
        BeforeCall, GraceInv, Holding, WaitsAfter, dbVars, lockVars,
        runnerVars, agentVars
<1>1. ASSUME NEW j \in Jobs, NEW r \in Resources, NEW b,
             CreateWithID(j, r, b)
      PROVE GraceInv'
  BY <1>1 DEF CreateWithID
<1>2. ASSUME NEW j \in Jobs, NEW o \in Jobs, Rollback(j, o) PROVE GraceInv'
  BY <1>2 DEF Rollback, CreateWithID
<1>3. ASSUME NEW j \in Jobs, Cancel(j) PROVE GraceInv'
  BY <1>3 DEF Cancel
<1>4. ASSUME NEW j \in Jobs, Register(j) PROVE GraceInv'
  BY <1>4 DEF Register
<1>5. ASSUME NEW j \in Jobs, AcquirePurge(j) PROVE GraceInv'
  BY <1>5 DEF AcquirePurge
<1>6. ASSUME NEW j \in Jobs, AcquireInsert(j) PROVE GraceInv'
  <2>1. \A i \in Jobs : abort[i] \in Nat /\ abort[i] <= AbortTime
    OBVIOUS
  <2>2. StepWait[1] + WaitsAfter(1) = PreCallWait + WaitsAfter(3)
    BY DEF PreCallWait
  <2>3. \A i \in Jobs : abort[i] + PreCallWait + WaitsAfter(3)
                            <= AbortTime + StepWait[1] + WaitsAfter(1)
    BY <2>1, <2>2 DEF PreCallWait
  <2> HIDE DEF WaitsAfter
  <2> QED
    BY <1>6, <2>3 DEF AcquireInsert
<1>7. ASSUME NEW j \in Jobs, AcquireConflict(j) PROVE GraceInv'
  BY <1>7 DEF AcquireConflict
<1>8. ASSUME NEW j \in Jobs, Advance(j) PROVE GraceInv'
  <2> HIDE DEF WaitsAfter
  <2>1. UNCHANGED <<resource, agent, abort>>
    BY <1>8 DEF Advance
  <2>2. pc[j] = "advance" /\ wait[j] = 0 /\ NextStep(j)
    BY <1>8 DEF Advance
  <2>3. \A i \in Jobs \ {j} : pc'[i] = pc[i] /\ step'[i] = step[i] /\ wait'[i] = wait[i]
    BY <2>2 DEF NextStep
  <2>4. /\ pc'[j] = "call" => step[j] = 3
        /\ pc'[j] = "advance" /\ step'[j] <= 3 =>
              step[j] \in {1, 2} /\ step'[j] = step[j] + 1 /\ wait'[j] = StepWait[step[j] + 1]
    BY <2>2 DEF NextStep
  <2>5. SUFFICES ASSUME NEW k \in Jobs, k # j, agent[k] = "aborting", resource[j] = resource[k]
        PROVE  /\ pc'[j] = "call" => abort[k] + PreCallWait <= AbortTime
               /\ pc'[j] = "advance" /\ step'[j] <= 3
                    => abort[k] + PreCallWait + WaitsAfter(3)
                          <= AbortTime + wait'[j] + WaitsAfter(step'[j])
    BY <2>1, <2>3
  <2>6. /\ abort[k] \in Nat /\ PreCallWait \in Nat /\ AbortTime \in Nat
        /\ step[j] \in 1..5 /\ \A s \in 1..5 : WaitsAfter(s) \in Nat
    BY DEF PreCallWait
  <2>7. step[j] <= 3 => abort[k] + PreCallWait + WaitsAfter(3) <= AbortTime + WaitsAfter(step[j])
    BY <2>2, <2>5, <2>6
  <2>8. CASE pc'[j] = "call"
    BY <2>4, <2>6, <2>7, <2>8
  <2>9. CASE pc'[j] = "advance" /\ step'[j] <= 3
    <3>1. WaitsAfter(step[j]) = wait'[j] + WaitsAfter(step'[j])
      BY <2>4, <2>9, WaitSplit
    <3>2. wait'[j] \in Nat /\ WaitsAfter(step'[j]) \in Nat
      BY <2>4, <2>6, <2>9
    <3> QED
      BY <2>4, <2>6, <2>7, <2>9, <3>1, <3>2
  <2> QED
    BY <2>8, <2>9
<1>9. ASSUME NEW j \in Jobs, AdvanceCancelled(j) PROVE GraceInv'
  BY <1>9 DEF AdvanceCancelled
<1>10. ASSUME NEW j \in Jobs, CallSent(j) PROVE GraceInv'
  BY <1>10 DEF CallSent
<1>11. ASSUME NEW j \in Jobs, CallRefused(j) PROVE GraceInv'
  BY <1>11 DEF CallRefused
<1>12. ASSUME NEW j \in Jobs, CallSucceeds(j) PROVE GraceInv'
  BY <1>12 DEF CallSucceeds
<1>13. ASSUME NEW j \in Jobs, CallFails(j) PROVE GraceInv'
  BY <1>13 DEF CallFails
<1>14. ASSUME NEW j \in Jobs, FailConflict(j) PROVE GraceInv'
  BY <1>14 DEF FailConflict
<1>15. ASSUME NEW j \in Jobs, FailAgent(j) PROVE GraceInv'
  BY <1>15 DEF FailAgent
<1>16. ASSUME NEW j \in Jobs, Succeed(j) PROVE GraceInv'
  BY <1>16 DEF Succeed
<1>17. ASSUME NEW j \in Jobs, ReleaseLock(j) PROVE GraceInv'
  BY <1>17 DEF ReleaseLock
<1>18. ASSUME NEW j \in Jobs, Unregister(j) PROVE GraceInv'
  BY <1>18 DEF Unregister
<1>19. ASSUME NEW j \in Jobs, NEW x \in {"ok", "error"}, AgentFinishes(j, x)
       PROVE GraceInv'
  BY <1>19 DEF AgentFinishes
<1>20. ASSUME NEW j \in Jobs, AgentStops(j) PROVE GraceInv'
  BY <1>20 DEF AgentStops
<1>21. CASE Tick
  <2> HIDE DEF WaitsAfter
  <2>1. UNCHANGED <<resource, pc, step, agent>>
    BY <1>21 DEF Tick
  <2>2. \A k \in Jobs : agent[k] = "aborting" => abort'[k] = abort[k] - 1
    BY <1>21 DEF Tick
  <2>3. \A i \in Jobs : wait'[i] = wait[i] \/ wait'[i] = wait[i] - 1
    BY <1>21 DEF Tick
  <2>4. SUFFICES ASSUME NEW i \in Jobs, NEW k \in Jobs, i # k, agent[k] = "aborting",
                        resource[i] = resource[k]
        PROVE  /\ pc[i] = "call" => abort'[k] + PreCallWait <= AbortTime
               /\ pc[i] = "advance" /\ step[i] <= 3
                    => abort'[k] + PreCallWait + WaitsAfter(3)
                          <= AbortTime + wait'[i] + WaitsAfter(step[i])
    BY <2>1
  <2>5. /\ abort[k] \in Nat /\ PreCallWait \in Nat /\ AbortTime \in Nat /\ wait[i] \in Nat
        /\ WaitsAfter(step[i]) \in Nat /\ WaitsAfter(3) \in Nat
    BY DEF PreCallWait
  <2>6. abort'[k] = abort[k] - 1
    BY <2>2, <2>4
  <2>7. /\ pc[i] = "call" => abort[k] + PreCallWait <= AbortTime
        /\ pc[i] = "advance" /\ step[i] <= 3
             => abort[k] + PreCallWait + WaitsAfter(3) <= AbortTime + wait[i] + WaitsAfter(step[i])
    BY <2>4
  <2>8. wait'[i] = wait[i] \/ wait'[i] = wait[i] - 1
    BY <2>3
  <2> HIDE DEF GraceInv, TypeOK, RowInv, HeldInv, PhaseInv
  <2> QED
    BY <2>5, <2>6, <2>7, <2>8
<1>22. CASE Restart
  BY <1>22 DEF Restart
<1>23. CASE UNCHANGED vars
  BY <1>23 DEF vars
<1>24. ASSUME NEW j \in Jobs, AcquireFails(j) PROVE GraceInv'
  BY <1>24 DEF AcquireFails, Fault
<1>25. ASSUME NEW j \in Jobs, AdvanceUnrecorded(j) PROVE GraceInv'
  <2> HIDE DEF WaitsAfter
  <2>1. UNCHANGED <<resource, agent, abort>>
    BY <1>25 DEF AdvanceUnrecorded
  <2>2. pc[j] = "advance" /\ wait[j] = 0 /\ NextStep(j)
    BY <1>25 DEF AdvanceUnrecorded
  <2>3. \A i \in Jobs \ {j} : pc'[i] = pc[i] /\ step'[i] = step[i] /\ wait'[i] = wait[i]
    BY <2>2 DEF NextStep
  <2>4. /\ pc'[j] = "call" => step[j] = 3
        /\ pc'[j] = "advance" /\ step'[j] <= 3 =>
              step[j] \in {1, 2} /\ step'[j] = step[j] + 1 /\ wait'[j] = StepWait[step[j] + 1]
    BY <2>2 DEF NextStep
  <2>5. SUFFICES ASSUME NEW k \in Jobs, k # j, agent[k] = "aborting", resource[j] = resource[k]
        PROVE  /\ pc'[j] = "call" => abort[k] + PreCallWait <= AbortTime
               /\ pc'[j] = "advance" /\ step'[j] <= 3
                    => abort[k] + PreCallWait + WaitsAfter(3)
                          <= AbortTime + wait'[j] + WaitsAfter(step'[j])
    BY <2>1, <2>3
  <2>6. /\ abort[k] \in Nat /\ PreCallWait \in Nat /\ AbortTime \in Nat
        /\ step[j] \in 1..5 /\ \A s \in 1..5 : WaitsAfter(s) \in Nat
    BY DEF PreCallWait
  <2>7. step[j] <= 3 => abort[k] + PreCallWait + WaitsAfter(3) <= AbortTime + WaitsAfter(step[j])
    BY <2>2, <2>5, <2>6
  <2>8. CASE pc'[j] = "call"
    BY <2>4, <2>6, <2>7, <2>8
  <2>9. CASE pc'[j] = "advance" /\ step'[j] <= 3
    <3>1. WaitsAfter(step[j]) = wait'[j] + WaitsAfter(step'[j])
      BY <2>4, <2>9, WaitSplit
    <3>2. wait'[j] \in Nat /\ WaitsAfter(step'[j]) \in Nat
      BY <2>4, <2>6, <2>9
    <3> QED
      BY <2>4, <2>6, <2>7, <2>9, <3>1, <3>2
  <2> QED
    BY <2>8, <2>9
<1>26. ASSUME NEW j \in Jobs, EndUnrecorded(j) PROVE GraceInv'
  BY <1>26 DEF EndUnrecorded, Fault
<1>27. ASSUME NEW j \in Jobs, ReleaseFails(j) PROVE GraceInv'
  BY <1>27 DEF ReleaseFails, Fault
<1>28. ASSUME NEW j \in Jobs, PurgeFails(j) PROVE GraceInv'
  BY <1>28 DEF PurgeFails, Fault
<1> HIDE ConstantsAssumption, WaitTypes DEF TypeOK, RowInv, HeldInv, PhaseInv,
        BeforeCall, GraceInv, Holding, WaitsAfter, dbVars, lockVars,
        runnerVars, agentVars
<1> QED
  BY <1>1, <1>2, <1>3, <1>4, <1>5, <1>6, <1>7, <1>8, <1>9, <1>10, <1>11,
     <1>12, <1>13, <1>14, <1>15, <1>16, <1>17, <1>18, <1>19, <1>20, <1>21,
     <1>22, <1>23, <1>24, <1>25,
     <1>26, <1>27, <1>28
  DEF Next, Handler, Runner, Agent

\* A job can start at the agent only when whoever works on its resource was
\* told to stop three waits ago.
LEMMA ExclusiveStep ==
    TypeOK /\ RowInv /\ HeldInv /\ PhaseInv /\ GraceInv /\ AgentExclusive
        /\ [Next]_vars => AgentExclusive'
<1> SUFFICES ASSUME TypeOK, RowInv, HeldInv, PhaseInv, GraceInv,
        AgentExclusive, [Next]_vars PROVE AgentExclusive'
  OBVIOUS
<1> USE ConstantsAssumption DEF TypeOK, RowInv, HeldInv, PhaseInv, BeforeCall,
        GraceInv, AgentExclusive, Working, Waning, Holding, dbVars, lockVars,
        runnerVars, agentVars
<1>1. ASSUME NEW j \in Jobs, NEW r \in Resources, NEW b,
             CreateWithID(j, r, b)
      PROVE AgentExclusive'
  BY <1>1 DEF CreateWithID
<1>2. ASSUME NEW j \in Jobs, NEW o \in Jobs, Rollback(j, o)
        PROVE AgentExclusive'
  BY <1>2 DEF Rollback, CreateWithID
<1>3. ASSUME NEW j \in Jobs, Cancel(j) PROVE AgentExclusive'
  BY <1>3 DEF Cancel
<1>4. ASSUME NEW j \in Jobs, Register(j) PROVE AgentExclusive'
  BY <1>4 DEF Register
<1>5. ASSUME NEW j \in Jobs, AcquirePurge(j) PROVE AgentExclusive'
  BY <1>5 DEF AcquirePurge
<1>6. ASSUME NEW j \in Jobs, AcquireInsert(j) PROVE AgentExclusive'
  BY <1>6 DEF AcquireInsert
<1>7. ASSUME NEW j \in Jobs, AcquireConflict(j) PROVE AgentExclusive'
  BY <1>7 DEF AcquireConflict
<1>8. ASSUME NEW j \in Jobs, Advance(j) PROVE AgentExclusive'
  BY <1>8 DEF Advance, NextStep
<1>9. ASSUME NEW j \in Jobs, AdvanceCancelled(j) PROVE AgentExclusive'
  BY <1>9 DEF AdvanceCancelled
<1>10. ASSUME NEW j \in Jobs, CallSent(j) PROVE AgentExclusive'
  BY <1>10 DEF CallSent
<1>11. ASSUME NEW j \in Jobs, CallRefused(j) PROVE AgentExclusive'
  BY <1>11 DEF CallRefused
<1>12. ASSUME NEW j \in Jobs, CallSucceeds(j) PROVE AgentExclusive'
  BY <1>12 DEF CallSucceeds
<1>13. ASSUME NEW j \in Jobs, CallFails(j) PROVE AgentExclusive'
  BY <1>13 DEF CallFails
<1>14. ASSUME NEW j \in Jobs, FailConflict(j) PROVE AgentExclusive'
  BY <1>14 DEF FailConflict
<1>15. ASSUME NEW j \in Jobs, FailAgent(j) PROVE AgentExclusive'
  BY <1>15 DEF FailAgent
<1>16. ASSUME NEW j \in Jobs, Succeed(j) PROVE AgentExclusive'
  BY <1>16 DEF Succeed
<1>17. ASSUME NEW j \in Jobs, ReleaseLock(j) PROVE AgentExclusive'
  BY <1>17 DEF ReleaseLock
<1>18. ASSUME NEW j \in Jobs, Unregister(j) PROVE AgentExclusive'
  BY <1>18 DEF Unregister
<1>19. ASSUME NEW j \in Jobs, NEW x \in {"ok", "error"}, AgentFinishes(j, x)
       PROVE AgentExclusive'
  BY <1>19 DEF AgentFinishes
<1>20. ASSUME NEW j \in Jobs, AgentStops(j) PROVE AgentExclusive'
  BY <1>20 DEF AgentStops
<1>21. CASE Tick
  <2>1. UNCHANGED <<resource, agent>>
    BY <1>21 DEF Tick
  <2>2. \A k \in Jobs : agent[k] = "aborting" => abort'[k] = abort[k] - 1
    BY <1>21 DEF Tick
  <2>3. \A k \in Jobs : Waning(k) => Waning(k)'
    <3>1. PreCallWait \in Nat /\ \A k \in Jobs : abort[k] \in Nat
      BY WaitTypes DEF PreCallWait
    <3> QED
      BY <2>1, <2>2, <3>1
  <2> HIDE DEF Waning
  <2> QED
    BY <2>1, <2>3
<1>22. CASE Restart
  BY <1>22 DEF Restart
<1>23. CASE UNCHANGED vars
  BY <1>23 DEF vars
<1>24. ASSUME NEW j \in Jobs, AcquireFails(j) PROVE AgentExclusive'
  BY <1>24 DEF AcquireFails, Fault
<1>25. ASSUME NEW j \in Jobs, AdvanceUnrecorded(j) PROVE AgentExclusive'
  BY <1>25 DEF AdvanceUnrecorded, NextStep, Fault
<1>26. ASSUME NEW j \in Jobs, EndUnrecorded(j) PROVE AgentExclusive'
  BY <1>26 DEF EndUnrecorded, Fault
<1>27. ASSUME NEW j \in Jobs, ReleaseFails(j) PROVE AgentExclusive'
  BY <1>27 DEF ReleaseFails, Fault
<1>28. ASSUME NEW j \in Jobs, PurgeFails(j) PROVE AgentExclusive'
  BY <1>28 DEF PurgeFails, Fault
<1> HIDE ConstantsAssumption DEF TypeOK, RowInv, HeldInv, PhaseInv, BeforeCall,
        GraceInv, AgentExclusive, Working, Waning, Holding, dbVars, lockVars,
        runnerVars, agentVars
<1> QED
  BY <1>1, <1>2, <1>3, <1>4, <1>5, <1>6, <1>7, <1>8, <1>9, <1>10, <1>11,
     <1>12, <1>13, <1>14, <1>15, <1>16, <1>17, <1>18, <1>19, <1>20, <1>21,
     <1>22, <1>23, <1>24, <1>25,
     <1>26, <1>27, <1>28
  DEF Next, Handler, Runner, Agent

\* Every way out of run goes through UpdateJob, ReleaseLock and the map.
LEMMA ExitStep == TypeOK /\ RowInv /\ ExitInv /\ [Next]_vars => ExitInv'
<1> SUFFICES ASSUME TypeOK, RowInv, ExitInv, [Next]_vars PROVE ExitInv'
  OBVIOUS
<1> USE ConstantsAssumption DEF TypeOK, RowInv, ExitInv, Holding, Timed,
        Terminal, dbVars, lockVars, runnerVars, agentVars
<1>1. ASSUME NEW j \in Jobs, NEW r \in Resources, NEW b,
             CreateWithID(j, r, b)
      PROVE ExitInv'
  BY <1>1 DEF CreateWithID
<1>2. ASSUME NEW j \in Jobs, NEW o \in Jobs, Rollback(j, o) PROVE ExitInv'
  BY <1>2 DEF Rollback, CreateWithID
<1>3. ASSUME NEW j \in Jobs, Cancel(j) PROVE ExitInv'
  BY <1>3 DEF Cancel
<1>4. ASSUME NEW j \in Jobs, Register(j) PROVE ExitInv'
  BY <1>4 DEF Register
<1>5. ASSUME NEW j \in Jobs, AcquirePurge(j) PROVE ExitInv'
  BY <1>5 DEF AcquirePurge
<1>6. ASSUME NEW j \in Jobs, AcquireInsert(j) PROVE ExitInv'
  BY <1>6 DEF AcquireInsert
<1>7. ASSUME NEW j \in Jobs, AcquireConflict(j) PROVE ExitInv'
  BY <1>7 DEF AcquireConflict
<1>8. ASSUME NEW j \in Jobs, Advance(j) PROVE ExitInv'
  BY <1>8 DEF Advance, NextStep
<1>9. ASSUME NEW j \in Jobs, AdvanceCancelled(j) PROVE ExitInv'
  BY <1>9 DEF AdvanceCancelled
<1>10. ASSUME NEW j \in Jobs, CallSent(j) PROVE ExitInv'
  BY <1>10 DEF CallSent
<1>11. ASSUME NEW j \in Jobs, CallRefused(j) PROVE ExitInv'
  BY <1>11 DEF CallRefused
<1>12. ASSUME NEW j \in Jobs, CallSucceeds(j) PROVE ExitInv'
  BY <1>12 DEF CallSucceeds
<1>13. ASSUME NEW j \in Jobs, CallFails(j) PROVE ExitInv'
  BY <1>13 DEF CallFails
<1>14. ASSUME NEW j \in Jobs, FailConflict(j) PROVE ExitInv'
  BY <1>14 DEF FailConflict
<1>15. ASSUME NEW j \in Jobs, FailAgent(j) PROVE ExitInv'
  BY <1>15 DEF FailAgent
<1>16. ASSUME NEW j \in Jobs, Succeed(j) PROVE ExitInv'
  BY <1>16 DEF Succeed
<1>17. ASSUME NEW j \in Jobs, ReleaseLock(j) PROVE ExitInv'
  BY <1>17 DEF ReleaseLock
<1>18. ASSUME NEW j \in Jobs, Unregister(j) PROVE ExitInv'
  BY <1>18 DEF Unregister
<1>19. ASSUME NEW j \in Jobs, NEW x \in {"ok", "error"}, AgentFinishes(j, x)
       PROVE ExitInv'
  BY <1>19 DEF AgentFinishes
<1>20. ASSUME NEW j \in Jobs, AgentStops(j) PROVE ExitInv'
  BY <1>20 DEF AgentStops
<1>21. CASE Tick
  BY <1>21 DEF Tick, Aged, MaxAge
<1>22. CASE Restart
  BY <1>22 DEF Restart
<1>23. CASE UNCHANGED vars
  BY <1>23 DEF vars
<1>24. ASSUME NEW j \in Jobs, AcquireFails(j) PROVE ExitInv'
  BY <1>24 DEF AcquireFails, Fault
<1>25. ASSUME NEW j \in Jobs, AdvanceUnrecorded(j) PROVE ExitInv'
  BY <1>25 DEF AdvanceUnrecorded, NextStep, Fault
<1>26. ASSUME NEW j \in Jobs, EndUnrecorded(j) PROVE ExitInv'
  BY <1>26 DEF EndUnrecorded, Fault
<1>27. ASSUME NEW j \in Jobs, ReleaseFails(j) PROVE ExitInv'
  BY <1>27 DEF ReleaseFails, Fault
<1>28. ASSUME NEW j \in Jobs, PurgeFails(j) PROVE ExitInv'
  BY <1>28 DEF PurgeFails, Fault
<1> HIDE ConstantsAssumption DEF TypeOK, RowInv, ExitInv, Holding, Timed,
        Terminal, dbVars, lockVars, runnerVars, agentVars
<1> QED
  BY <1>1, <1>2, <1>3, <1>4, <1>5, <1>6, <1>7, <1>8, <1>9, <1>10, <1>11,
     <1>12, <1>13, <1>14, <1>15, <1>16, <1>17, <1>18, <1>19, <1>20, <1>21,
     <1>22, <1>23, <1>24, <1>25,
     <1>26, <1>27, <1>28
  DEF Next, Handler, Runner, Agent

\* A fired context stays fired as long as its goroutine runs.
LEMMA EarlyStep ==
    TypeOK /\ RowInv /\ ProgressInv /\ EarlyInv /\ [Next]_vars => EarlyInv'
<1> SUFFICES ASSUME TypeOK, RowInv, ProgressInv, EarlyInv, [Next]_vars
        PROVE EarlyInv'
  OBVIOUS
<1> USE ConstantsAssumption DEF TypeOK, RowInv, EarlyInv, StepStatus, dbVars,
        lockVars, runnerVars, agentVars
<1>1. ASSUME NEW j \in Jobs, NEW r \in Resources, NEW b,
             CreateWithID(j, r, b)
      PROVE EarlyInv'
  BY <1>1 DEF CreateWithID
<1>2. ASSUME NEW j \in Jobs, NEW o \in Jobs, Rollback(j, o) PROVE EarlyInv'
  BY <1>2 DEF Rollback, CreateWithID
<1>3. ASSUME NEW j \in Jobs, Cancel(j) PROVE EarlyInv'
  BY <1>3 DEF Cancel, ProgressInv, InProgress
<1>4. ASSUME NEW j \in Jobs, Register(j) PROVE EarlyInv'
  BY <1>4 DEF Register
<1>5. ASSUME NEW j \in Jobs, AcquirePurge(j) PROVE EarlyInv'
  BY <1>5 DEF AcquirePurge
<1>6. ASSUME NEW j \in Jobs, AcquireInsert(j) PROVE EarlyInv'
  BY <1>6 DEF AcquireInsert
<1>7. ASSUME NEW j \in Jobs, AcquireConflict(j) PROVE EarlyInv'
  BY <1>7 DEF AcquireConflict
<1>8. ASSUME NEW j \in Jobs, Advance(j) PROVE EarlyInv'
  BY <1>8 DEF Advance, NextStep
<1>9. ASSUME NEW j \in Jobs, AdvanceCancelled(j) PROVE EarlyInv'
  BY <1>9 DEF AdvanceCancelled
<1>10. ASSUME NEW j \in Jobs, CallSent(j) PROVE EarlyInv'
  BY <1>10 DEF CallSent
<1>11. ASSUME NEW j \in Jobs, CallRefused(j) PROVE EarlyInv'
  BY <1>11 DEF CallRefused
<1>12. ASSUME NEW j \in Jobs, CallSucceeds(j) PROVE EarlyInv'
  BY <1>12 DEF CallSucceeds
<1>13. ASSUME NEW j \in Jobs, CallFails(j) PROVE EarlyInv'
  BY <1>13 DEF CallFails
<1>14. ASSUME NEW j \in Jobs, FailConflict(j) PROVE EarlyInv'
  BY <1>14 DEF FailConflict
<1>15. ASSUME NEW j \in Jobs, FailAgent(j) PROVE EarlyInv'
  BY <1>15 DEF FailAgent
<1>16. ASSUME NEW j \in Jobs, Succeed(j) PROVE EarlyInv'
  BY <1>16 DEF Succeed
<1>17. ASSUME NEW j \in Jobs, ReleaseLock(j) PROVE EarlyInv'
  BY <1>17 DEF ReleaseLock
<1>18. ASSUME NEW j \in Jobs, Unregister(j) PROVE EarlyInv'
  BY <1>18 DEF Unregister
<1>19. ASSUME NEW j \in Jobs, NEW x \in {"ok", "error"}, AgentFinishes(j, x)
       PROVE EarlyInv'
  BY <1>19 DEF AgentFinishes
<1>20. ASSUME NEW j \in Jobs, AgentStops(j) PROVE EarlyInv'
  BY <1>20 DEF AgentStops
<1>21. CASE Tick
  BY <1>21 DEF Tick, Aged, MaxAge
<1>22. CASE Restart
  BY <1>22 DEF Restart
<1>23. CASE UNCHANGED vars
  BY <1>23 DEF vars
<1>24. ASSUME NEW j \in Jobs, AcquireFails(j) PROVE EarlyInv'
  BY <1>24 DEF AcquireFails, Fault
<1>25. ASSUME NEW j \in Jobs, AdvanceUnrecorded(j) PROVE EarlyInv'
  BY <1>25 DEF AdvanceUnrecorded, NextStep, Fault
<1>26. ASSUME NEW j \in Jobs, EndUnrecorded(j) PROVE EarlyInv'
  BY <1>26 DEF EndUnrecorded, Fault
<1>27. ASSUME NEW j \in Jobs, ReleaseFails(j) PROVE EarlyInv'
  BY <1>27 DEF ReleaseFails, Fault
<1>28. ASSUME NEW j \in Jobs, PurgeFails(j) PROVE EarlyInv'
  BY <1>28 DEF PurgeFails, Fault
<1> HIDE ConstantsAssumption DEF TypeOK, RowInv, EarlyInv, StepStatus, dbVars,
        lockVars, runnerVars, agentVars
<1> QED
  BY <1>1, <1>2, <1>3, <1>4, <1>5, <1>6, <1>7, <1>8, <1>9, <1>10, <1>11,
     <1>12, <1>13, <1>14, <1>15, <1>16, <1>17, <1>18, <1>19, <1>20, <1>21,
     <1>22, <1>23, <1>24, <1>25,
     <1>26, <1>27, <1>28
  DEF Next, Handler, Runner, Agent

\* Rows and readings of `now` age together.
LEMMA FreshStep ==
    TypeOK /\ RowInv /\ BudgetInv /\ FreshInv /\ [Next]_vars => FreshInv'
<1> SUFFICES ASSUME TypeOK, RowInv, BudgetInv, FreshInv, [Next]_vars
        PROVE FreshInv'
  OBVIOUS
<1> USE ConstantsAssumption DEF TypeOK, RowInv, FreshInv, dbVars, lockVars,
        runnerVars, agentVars
<1>1. ASSUME NEW j \in Jobs, NEW r \in Resources, NEW b,
             CreateWithID(j, r, b)
      PROVE FreshInv'
  BY <1>1 DEF CreateWithID
<1>2. ASSUME NEW j \in Jobs, NEW o \in Jobs, Rollback(j, o) PROVE FreshInv'
  BY <1>2 DEF Rollback, CreateWithID
<1>3. ASSUME NEW j \in Jobs, Cancel(j) PROVE FreshInv'
  BY <1>3 DEF Cancel
<1>4. ASSUME NEW j \in Jobs, Register(j) PROVE FreshInv'
  BY <1>4 DEF Register
<1>5. ASSUME NEW j \in Jobs, AcquirePurge(j) PROVE FreshInv'
  BY <1>5 DEF AcquirePurge, Expired
<1>6. ASSUME NEW j \in Jobs, AcquireInsert(j) PROVE FreshInv'
  <2>1. age[j] <= LockTTL
    BY <1>6, TimedAge, LeaseAssumption DEF AcquireInsert, Timed
  <2>2. /\ pc' = [pc EXCEPT ![j] = "advance"]
        /\ lockAge' = [lockAge EXCEPT ![resource[j]] = age[j]]
        /\ age' = age /\ resource' = resource /\ faults' = faults
    BY <1>6 DEF AcquireInsert
  <2> QED
    BY <2>1, <2>2
<1>7. ASSUME NEW j \in Jobs, AcquireConflict(j) PROVE FreshInv'
  BY <1>7 DEF AcquireConflict
<1>8. ASSUME NEW j \in Jobs, Advance(j) PROVE FreshInv'
  BY <1>8 DEF Advance, NextStep
<1>9. ASSUME NEW j \in Jobs, AdvanceCancelled(j) PROVE FreshInv'
  BY <1>9 DEF AdvanceCancelled
<1>10. ASSUME NEW j \in Jobs, CallSent(j) PROVE FreshInv'
  BY <1>10 DEF CallSent
<1>11. ASSUME NEW j \in Jobs, CallRefused(j) PROVE FreshInv'
  BY <1>11 DEF CallRefused
<1>12. ASSUME NEW j \in Jobs, CallSucceeds(j) PROVE FreshInv'
  BY <1>12 DEF CallSucceeds
<1>13. ASSUME NEW j \in Jobs, CallFails(j) PROVE FreshInv'
  BY <1>13 DEF CallFails
<1>14. ASSUME NEW j \in Jobs, FailConflict(j) PROVE FreshInv'
  BY <1>14 DEF FailConflict
<1>15. ASSUME NEW j \in Jobs, FailAgent(j) PROVE FreshInv'
  BY <1>15 DEF FailAgent
<1>16. ASSUME NEW j \in Jobs, Succeed(j) PROVE FreshInv'
  BY <1>16 DEF Succeed
<1>17. ASSUME NEW j \in Jobs, ReleaseLock(j) PROVE FreshInv'
  BY <1>17 DEF ReleaseLock
<1>18. ASSUME NEW j \in Jobs, Unregister(j) PROVE FreshInv'
  BY <1>18 DEF Unregister
<1>19. ASSUME NEW j \in Jobs, NEW x \in {"ok", "error"}, AgentFinishes(j, x)
       PROVE FreshInv'
  BY <1>19 DEF AgentFinishes
<1>20. ASSUME NEW j \in Jobs, AgentStops(j) PROVE FreshInv'
  BY <1>20 DEF AgentStops
<1>21. CASE Tick
  <2>1. \A i \in Jobs : pc[i] = "insert" => age'[i] = age[i] + 1
    BY <1>21 DEF Tick, Timed
  <2>2. \A r \in Resources : lockAge'[r] <= lockAge[r] + 1
    BY <1>21 DEF Tick, Aged, MaxAge
  <2>3. pc' = pc /\ resource' = resource /\ faults' = faults /\ lockAge' \in [Resources -> Nat]
    BY <1>21 DEF Tick, Aged, MaxAge
  <2> QED
    BY <2>1, <2>2, <2>3
<1>22. CASE Restart
  BY <1>22 DEF Restart
<1>23. CASE UNCHANGED vars
  BY <1>23 DEF vars
<1>24. ASSUME NEW j \in Jobs, AcquireFails(j) PROVE FreshInv'
  BY <1>24 DEF AcquireFails, Fault
<1>25. ASSUME NEW j \in Jobs, AdvanceUnrecorded(j) PROVE FreshInv'
  BY <1>25 DEF AdvanceUnrecorded, NextStep, Fault
<1>26. ASSUME NEW j \in Jobs, EndUnrecorded(j) PROVE FreshInv'
  BY <1>26 DEF EndUnrecorded, Fault
<1>27. ASSUME NEW j \in Jobs, ReleaseFails(j) PROVE FreshInv'
  BY <1>27 DEF ReleaseFails, Fault
<1>28. ASSUME NEW j \in Jobs, PurgeFails(j) PROVE FreshInv'
  BY <1>28 DEF PurgeFails, Fault
<1> HIDE ConstantsAssumption DEF TypeOK, RowInv, FreshInv, dbVars, lockVars,
        runnerVars, agentVars
<1> QED
  BY <1>1, <1>2, <1>3, <1>4, <1>5, <1>6, <1>7, <1>8, <1>9, <1>10, <1>11,
     <1>12, <1>13, <1>14, <1>15, <1>16, <1>17, <1>18, <1>19, <1>20, <1>21,
     <1>22, <1>23, <1>24, <1>25,
     <1>26, <1>27, <1>28
  DEF Next, Handler, Runner, Agent

\* Only the last step of run settles a job.
LEMMA ProgressStep ==
    TypeOK /\ RowInv /\ PhaseInv /\ ProgressInv /\ [Next]_vars => ProgressInv'
<1> SUFFICES ASSUME TypeOK, RowInv, PhaseInv, ProgressInv, [Next]_vars
        PROVE ProgressInv'
  OBVIOUS
<1> USE ConstantsAssumption DEF TypeOK, RowInv, PhaseInv, BeforeCall,
        ProgressInv, StepStatus, InProgress, dbVars, lockVars, runnerVars,
        agentVars
<1>1. ASSUME NEW j \in Jobs, NEW r \in Resources, NEW b,
             CreateWithID(j, r, b)
      PROVE ProgressInv'
  BY <1>1 DEF CreateWithID
<1>2. ASSUME NEW j \in Jobs, NEW o \in Jobs, Rollback(j, o) PROVE ProgressInv'
  BY <1>2 DEF Rollback, CreateWithID
<1>3. ASSUME NEW j \in Jobs, Cancel(j) PROVE ProgressInv'
  BY <1>3 DEF Cancel
<1>4. ASSUME NEW j \in Jobs, Register(j) PROVE ProgressInv'
  BY <1>4 DEF Register
<1>5. ASSUME NEW j \in Jobs, AcquirePurge(j) PROVE ProgressInv'
  BY <1>5 DEF AcquirePurge
<1>6. ASSUME NEW j \in Jobs, AcquireInsert(j) PROVE ProgressInv'
  BY <1>6 DEF AcquireInsert
<1>7. ASSUME NEW j \in Jobs, AcquireConflict(j) PROVE ProgressInv'
  BY <1>7 DEF AcquireConflict
<1>8. ASSUME NEW j \in Jobs, Advance(j) PROVE ProgressInv'
  BY <1>8 DEF Advance, NextStep
<1>9. ASSUME NEW j \in Jobs, AdvanceCancelled(j) PROVE ProgressInv'
  BY <1>9 DEF AdvanceCancelled
<1>10. ASSUME NEW j \in Jobs, CallSent(j) PROVE ProgressInv'
  BY <1>10 DEF CallSent
<1>11. ASSUME NEW j \in Jobs, CallRefused(j) PROVE ProgressInv'
  BY <1>11 DEF CallRefused
<1>12. ASSUME NEW j \in Jobs, CallSucceeds(j) PROVE ProgressInv'
  BY <1>12 DEF CallSucceeds
<1>13. ASSUME NEW j \in Jobs, CallFails(j) PROVE ProgressInv'
  BY <1>13 DEF CallFails
<1>14. ASSUME NEW j \in Jobs, FailConflict(j) PROVE ProgressInv'
  BY <1>14 DEF FailConflict
<1>15. ASSUME NEW j \in Jobs, FailAgent(j) PROVE ProgressInv'
  BY <1>15 DEF FailAgent
<1>16. ASSUME NEW j \in Jobs, Succeed(j) PROVE ProgressInv'
  BY <1>16 DEF Succeed
<1>17. ASSUME NEW j \in Jobs, ReleaseLock(j) PROVE ProgressInv'
  BY <1>17 DEF ReleaseLock
<1>18. ASSUME NEW j \in Jobs, Unregister(j) PROVE ProgressInv'
  BY <1>18 DEF Unregister
<1>19. ASSUME NEW j \in Jobs, NEW x \in {"ok", "error"}, AgentFinishes(j, x)
       PROVE ProgressInv'
  BY <1>19 DEF AgentFinishes
<1>20. ASSUME NEW j \in Jobs, AgentStops(j) PROVE ProgressInv'
  BY <1>20 DEF AgentStops
<1>21. CASE Tick
  BY <1>21 DEF Tick, Aged, MaxAge
<1>22. CASE Restart
  BY <1>22 DEF Restart
<1>23. CASE UNCHANGED vars
  BY <1>23 DEF vars
<1>24. ASSUME NEW j \in Jobs, AcquireFails(j) PROVE ProgressInv'
  BY <1>24 DEF AcquireFails, Fault
<1>25. ASSUME NEW j \in Jobs, AdvanceUnrecorded(j) PROVE ProgressInv'
  BY <1>25 DEF AdvanceUnrecorded, NextStep, Fault
<1>26. ASSUME NEW j \in Jobs, EndUnrecorded(j) PROVE ProgressInv'
  BY <1>26 DEF EndUnrecorded, Fault
<1>27. ASSUME NEW j \in Jobs, ReleaseFails(j) PROVE ProgressInv'
  BY <1>27 DEF ReleaseFails, Fault
<1>28. ASSUME NEW j \in Jobs, PurgeFails(j) PROVE ProgressInv'
  BY <1>28 DEF PurgeFails, Fault
<1> HIDE ConstantsAssumption DEF TypeOK, RowInv, PhaseInv, BeforeCall,
        ProgressInv, StepStatus, InProgress, dbVars, lockVars, runnerVars,
        agentVars
<1> QED
  BY <1>1, <1>2, <1>3, <1>4, <1>5, <1>6, <1>7, <1>8, <1>9, <1>10, <1>11,
     <1>12, <1>13, <1>14, <1>15, <1>16, <1>17, <1>18, <1>19, <1>20, <1>21,
     <1>22, <1>23, <1>24, <1>25,
     <1>26, <1>27, <1>28
  DEF Next, Handler, Runner, Agent

-----------------------------------------------------------------------------
(***************************************************************************)
(* The inductive invariant and the theorems that follow from it.           *)
(***************************************************************************)

RunnerInv ==
    /\ TypeOK /\ RowInv /\ HeldInv /\ BudgetInv /\ PhaseInv
    /\ ExitInv /\ ProgressInv /\ EarlyInv /\ FreshInv

\* The bookkeeping of run, AcquireLock and ReleaseLock holds in every state.
LEMMA RunnerInvariant == Spec => []RunnerInv
<1>1. Init => RunnerInv
  <2> SUFFICES ASSUME Init PROVE RunnerInv
    OBVIOUS
  <2>1. TypeOK
    BY ConstantsAssumption DEF Init, TypeOK, ControlPoints, Timed, AgentStates,
       InProgress, Terminal
  <2>2. RowInv /\ HeldInv /\ BudgetInv /\ PhaseInv
    BY DEF Init, RowInv, HeldInv, BudgetInv, PhaseInv, Holding, Timed
  <2>3. ExitInv /\ ProgressInv /\ EarlyInv /\ FreshInv
    BY ConstantsAssumption
    DEF Init, ExitInv, ProgressInv, EarlyInv, FreshInv
  <2> QED
    BY <2>1, <2>2, <2>3 DEF RunnerInv
<1>2. RunnerInv /\ [Next]_vars => RunnerInv'
  BY TypeStep, RowStep, HeldStep, BudgetStep, PhaseStep, ExitStep, ProgressStep,
     EarlyStep, FreshStep
  DEF RunnerInv
<1> QED
  BY <1>1, <1>2, PTL DEF Spec

\* What the lock of AcquireLock/ReleaseLock guarantees at the agent, however
\* long an abandoned execution goes on: through expiry, cancellation, abandoned
\* calls, failing statements and restarts, of two jobs that the agent works on
\* for one resource one was told to stop at least the three waits ago.
THEOREM ResourceExclusion == Spec => []AgentExclusive
<1>1. Init => GraceInv /\ AgentExclusive
  BY DEF Init, GraceInv, AgentExclusive, Working
<1>2. RunnerInv /\ GraceInv /\ AgentExclusive /\ [Next]_vars
        => GraceInv' /\ AgentExclusive'
  BY GraceStep, ExclusiveStep DEF RunnerInv
<1> QED
  BY <1>1, <1>2, RunnerInvariant, PTL DEF Spec

\* A Cancel accepted before the call of the agent keeps the job from being
\* executed: the context given to Client.Execute is already done.
THEOREM EarlyCancelTheorem == Spec => []EarlyCancelPreventsRun
<1>1. RunnerInv => EarlyCancelPreventsRun
  BY DEF RunnerInv, EarlyInv, EarlyCancelPreventsRun
<1> QED
  BY <1>1, RunnerInvariant, PTL

\* Every exit of Manager.run leaves no cancel function and, unless a statement
\* failed, a terminal status and no lock row.
THEOREM CleanExitTheorem == Spec => []CleanExit
<1>1. RunnerInv => CleanExit
  BY DEF RunnerInv, ExitInv, CleanExit, Holding, Timed
<1> QED
  BY <1>1, RunnerInvariant, PTL

\* AcquireLock fails only over a row that is not expired, or with a statement.
THEOREM StaleLockTheorem == Spec => StaleLockNeverBlocks
<1> DEFINE Blocked(j) ==
        pc[j] \in {"purge", "insert"} /\ pc'[j] = "conflict" =>
          \/ faults'[j] > 0
          \/ /\ lockOwner[resource[j]] # NoJob
             /\ lockAge[resource[j]] <= LockTTL + age[j]
<1>1. RunnerInv /\ [Next]_vars => [\A j \in Jobs : Blocked(j)]_vars
  <2> SUFFICES ASSUME RunnerInv, Next, NEW i \in Jobs PROVE Blocked(i)
    OBVIOUS
  <2> USE ConstantsAssumption
      DEF RunnerInv, TypeOK, dbVars, lockVars, runnerVars, agentVars
  <2>1. ASSUME NEW j \in Jobs, Handler(j) PROVE Blocked(i)
    BY <2>1 DEF Handler, CreateWithID, Rollback, Cancel
  <2>2. ASSUME NEW j \in Jobs, AcquireConflict(j) PROVE Blocked(i)
    BY <2>2 DEF AcquireConflict, FreshInv
  <2>3. ASSUME NEW j \in Jobs, AcquireFails(j) PROVE Blocked(i)
    BY <2>3 DEF AcquireFails, Fault
  <2>4. ASSUME NEW j \in Jobs, Runner(j), ~AcquireConflict(j), ~AcquireFails(j)
        PROVE Blocked(i)
    BY <2>4 DEF Runner, Register, AcquirePurge, PurgeFails, AcquireInsert, Advance,
       NextStep, AdvanceCancelled, CallSent, CallRefused, CallSucceeds,
       CallFails, FailConflict, FailAgent, Succeed, ReleaseLock, Unregister,
       AdvanceUnrecorded, EndUnrecorded, ReleaseFails
  <2>5. ASSUME NEW j \in Jobs, Agent(j) PROVE Blocked(i)
    BY <2>5 DEF Agent, AgentFinishes, AgentStops
  <2>6. CASE Tick
    BY <2>6 DEF Tick
  <2>7. CASE Restart
    BY <2>7 DEF Restart
  <2> QED
    BY <2>1, <2>2, <2>3, <2>4, <2>5, <2>6, <2>7 DEF Next
<1> QED
  BY <1>1, RunnerInvariant, PTL DEF Spec, StaleLockNeverBlocks

\* A restart runs nothing again: rows from before it keep their status and
\* never get a goroutine or an execution.
THEOREM RestartTheorem == Spec => OldJobsStayPut
<1> DEFINE Old(j) ==
        pc[j] = "lost" \/ (crashes' # crashes /\ status[j] # "absent") =>
            /\ pc'[j] \in {"lost", "done"}
            /\ status'[j] = status[j]
            /\ agent'[j] = "running" => agent[j] = "running"
<1>1. RunnerInv /\ [Next]_vars => [\A j \in Jobs : Old(j)]_vars
  <2> SUFFICES ASSUME RunnerInv, Next, NEW i \in Jobs PROVE Old(i)
    OBVIOUS
  <2> USE ConstantsAssumption
      DEF RunnerInv, TypeOK, RowInv, dbVars, lockVars, runnerVars, agentVars
  <2>1. ASSUME NEW j \in Jobs, Handler(j) PROVE Old(i)
    BY <2>1 DEF Handler, CreateWithID, Rollback, Cancel
  <2>2. ASSUME NEW j \in Jobs, Runner(j) PROVE Old(i)
    <3>1. crashes' = crashes /\ (pc[i] = "lost" => i # j)
      BY <2>2 DEF Runner, Register, AcquirePurge, AcquireInsert,
         AcquireConflict, Advance, NextStep, AdvanceCancelled, CallSent,
         CallRefused, CallSucceeds, CallFails, FailConflict, FailAgent,
         Succeed, ReleaseLock, Unregister, PurgeFails, AcquireFails, AdvanceUnrecorded,
         EndUnrecorded, ReleaseFails, Fault
    <3>2. i # j => /\ pc'[i] = pc[i] /\ status'[i] = status[i]
                   /\ agent'[i] = agent[i]
      BY <2>2 DEF Runner, Register, AcquirePurge, AcquireInsert,
         AcquireConflict, Advance, NextStep, AdvanceCancelled, CallSent,
         CallRefused, CallSucceeds, CallFails, FailConflict, FailAgent,
         Succeed, ReleaseLock, Unregister, PurgeFails, AcquireFails, AdvanceUnrecorded,
         EndUnrecorded, ReleaseFails, Fault
    <3> QED
      BY <3>1, <3>2
  <2>3. ASSUME NEW j \in Jobs, Agent(j) PROVE Old(i)
    BY <2>3 DEF Agent, AgentFinishes, AgentStops
  <2>4. CASE Tick
    BY <2>4 DEF Tick
  <2>5. CASE Restart
    BY <2>5 DEF Restart
  <2> QED
    BY <2>1, <2>2, <2>3, <2>4, <2>5 DEF Next
<1> QED
  BY <1>1, RunnerInvariant, PTL DEF Spec, OldJobsStayPut

-----------------------------------------------------------------------------
(***************************************************************************)
(* Refinement: the manager implements JobLifecycle.                        *)
(***************************************************************************)

\* Before a call is sent none is in progress on the resource: its goroutine
\* would hold the same lock row.
LEMMA CallFindsResourceIdle ==
    ASSUME RunnerInv, NEW j \in Jobs, CallSent(j)
    PROVE  /\ agent[j] = "idle"
           /\ \A i \in Jobs : resource[i] = resource[j] => agent[i] # "running"
<1>1. agent[j] = "idle"
  BY DEF RunnerInv, PhaseInv, BeforeCall, CallSent
<1>2. ASSUME NEW i \in Jobs, resource[i] = resource[j], agent[i] = "running"
      PROVE FALSE
  <2>1. i # j
    BY <1>1, <1>2
  <2> QED
    BY <1>2, <2>1 DEF RunnerInv, PhaseInv, HeldInv, Holding, CallSent
<1> QED
  BY <1>1, <1>2

\* jobs.Manager delivers the contract the other components rely on: a job is
\* submitted once, is called at most once and while no other call is in progress
\* on its resource, settles at most once, and succeeds only if the agent did.
THEOREM LifecycleRefinement == Spec => ImplementsLifecycle
<1> DEFINE LNext == Lifecycle!Next
           LVars == Lifecycle!lifecycleVars
<1>1. Init => Lifecycle!Init
  BY DEF Init, Lifecycle!Init, RunOf
<1>2. RunnerInv /\ [Next]_vars => [LNext]_LVars
  <2> SUFFICES ASSUME RunnerInv, [Next]_vars PROVE [LNext]_LVars
    OBVIOUS
  <2> USE DEF Lifecycle!lifecycleVars, dbVars, lockVars, runnerVars, agentVars
  <2> HIDE DEF LNext
  <2>1. ASSUME NEW j \in Jobs, NEW r \in Resources, NEW b,
               CreateWithID(j, r, b)
        PROVE LNext
    <3>1. Lifecycle!Submit(j, r)
      BY <2>1 DEF CreateWithID, Lifecycle!Submit, RunOf
    <3> QED
      BY <3>1 DEF LNext, Lifecycle!Next
  <2>2. ASSUME NEW j \in Jobs, NEW o \in Jobs, Rollback(j, o) PROVE LNext
    <3>1. resource[o] \in Resources
      BY <2>2 DEF RunnerInv, RowInv, Rollback
    <3> QED
      BY <2>2, <2>1, <3>1 DEF Rollback
  <2>3. ASSUME NEW j \in Jobs,
               \/ Cancel(j) \/ Register(j) \/ AcquirePurge(j)
               \/ AcquireInsert(j) \/ AcquireConflict(j) \/ CallRefused(j)
               \/ CallSucceeds(j) \/ ReleaseLock(j) \/ Unregister(j)
               \/ PurgeFails(j) \/ AcquireFails(j) \/ AdvanceUnrecorded(j)
               \/ EndUnrecorded(j) \/ ReleaseFails(j) \/ AgentStops(j)
        PROVE UNCHANGED LVars
    BY <2>3 DEF Cancel, Register, AcquirePurge, AcquireInsert, AcquireConflict,
       CallRefused, CallSucceeds, ReleaseLock, Unregister, PurgeFails, AcquireFails,
       AdvanceUnrecorded, EndUnrecorded, ReleaseFails, AgentStops, RunOf,
       RunnerInv, TypeOK
  <2>4. ASSUME NEW j \in Jobs, Advance(j) PROVE LNext
    <3>1. StepStatus[step[j]] \in Lifecycle!InProgress
      BY DEF RunnerInv, TypeOK, StepStatus, Lifecycle!InProgress
    <3>2. Lifecycle!Advance(j, StepStatus[step[j]])
      BY <2>4 DEF Advance, NextStep, RunnerInv, ProgressInv, InProgress,
         Lifecycle!Advance, Lifecycle!InProgress, RunOf
    <3> QED
      BY <3>1, <3>2 DEF LNext, Lifecycle!Next
  <2>5. ASSUME NEW j \in Jobs, AdvanceCancelled(j) PROVE LNext
    <3>1. Lifecycle!Settle(j, "cancelled")
      BY <2>5 DEF AdvanceCancelled, RunnerInv, ProgressInv, InProgress,
         Lifecycle!Settle, Lifecycle!InProgress, RunOf
    <3> QED
      BY <3>1 DEF LNext, Lifecycle!Next, Lifecycle!Settled
  <2>6. ASSUME NEW j \in Jobs, CallSent(j) PROVE LNext
    <3>1. \A i \in Jobs : resource[i] = resource[j] => RunOf[i] # "active"
      BY <2>6, CallFindsResourceIdle DEF RunOf
    <3>2. RunOf[j] = "idle" /\ RunOf' = [RunOf EXCEPT ![j] = "active"]
      BY <2>6, CallFindsResourceIdle DEF CallSent, RunOf, RunnerInv, TypeOK
    <3>3. status[j] \in Lifecycle!InProgress
      BY <2>6 DEF CallSent, RunnerInv, ProgressInv, InProgress,
         Lifecycle!InProgress
    <3>4. Lifecycle!Begin(j)
      BY <2>6, <3>1, <3>2, <3>3 DEF CallSent, Lifecycle!Begin
    <3> QED
      BY <3>4 DEF LNext, Lifecycle!Next
  <2>7. ASSUME NEW j \in Jobs, CallFails(j) PROVE LNext \/ UNCHANGED LVars
    <3>1. CASE agent[j] = "running"
      <4>1. Lifecycle!End(j, "ended")
        BY <2>7, <3>1 DEF CallFails, Lifecycle!End, RunOf, RunnerInv, TypeOK
      <4> QED
        BY <4>1 DEF LNext, Lifecycle!Next
    <3>2. CASE agent[j] # "running"
      BY <2>7, <3>2 DEF CallFails, RunOf
    <3> QED
      BY <3>1, <3>2
  <2>8. ASSUME NEW j \in Jobs, FailConflict(j) \/ FailAgent(j) PROVE LNext
    <3>1. Lifecycle!Settle(j, "failed")
      BY <2>8 DEF FailConflict, FailAgent, RunnerInv, ProgressInv, InProgress,
         Lifecycle!Settle, Lifecycle!InProgress, RunOf
    <3> QED
      BY <3>1 DEF LNext, Lifecycle!Next, Lifecycle!Settled
  <2>9. ASSUME NEW j \in Jobs, Succeed(j) PROVE LNext
    <3>1. Lifecycle!Settle(j, "success")
      BY <2>9 DEF Succeed, RunnerInv, ProgressInv, InProgress,
         Lifecycle!Settle, Lifecycle!InProgress, RunOf
    <3> QED
      BY <3>1 DEF LNext, Lifecycle!Next, Lifecycle!Settled
  <2>10. ASSUME NEW j \in Jobs, NEW x \in {"ok", "error"}, AgentFinishes(j, x)
         PROVE LNext
    <3>1. Lifecycle!End(j, IF x = "ok" THEN "ok" ELSE "ended")
      BY <2>10 DEF AgentFinishes, Lifecycle!End, RunOf, RunnerInv, TypeOK
    <3> QED
      BY <3>1 DEF LNext, Lifecycle!Next
  <2>11. CASE Tick
    BY <2>11 DEF Tick, RunOf
  <2>12. CASE Restart
    <3> DEFINE given == {j \in Jobs : agent[j] = "running"}
    <3>1. \A j \in given : RunOf[j] = "active"
      BY DEF RunOf
    <3>2. RunOf' = [j \in Jobs |-> IF j \in given THEN "ended" ELSE RunOf[j]]
      <4>1. \A j \in Jobs : agent'[j] = IF agent[j] = "running" THEN "aborting"
                                        ELSE agent[j]
        BY <2>12 DEF Restart
      <4> QED
        BY <4>1 DEF RunOf
    <3>3. Lifecycle!GiveUp(given)
      BY <2>12, <3>1, <3>2 DEF Restart, Lifecycle!GiveUp
    <3>4. given \in SUBSET Jobs
      OBVIOUS
    <3> HIDE DEF given
    <3> QED
      BY <3>3, <3>4 DEF LNext, Lifecycle!Next
  <2>13. CASE UNCHANGED vars
    BY <2>13 DEF vars, RunOf
  <2> QED
    BY <2>1, <2>2, <2>3, <2>4, <2>5, <2>6, <2>7, <2>8, <2>9, <2>10, <2>11,
       <2>12, <2>13
    DEF Next, Handler, Runner, Agent
<1> QED
  BY <1>1, <1>2, RunnerInvariant, PTL
  DEF Spec, ImplementsLifecycle, Lifecycle!Spec

-----------------------------------------------------------------------------
(***************************************************************************)
(* EventStream.  The history holds the last identifiers, and what is       *)
(* written and what waits in the channel continue each other.              *)
(***************************************************************************)
\* The identifiers of the history are the last ones given, as many as fit.
HistoryInv ==
    /\ Len(history) = IF eventID < Window THEN eventID ELSE Window
    /\ \A i \in 1..Len(history) : history[i].id = eventID - Len(history) + i

\* An event is published after its change was stored; a console that has given
\* up has no connection.
ConnectionInv ==
    /\ eventID <= row /\ (publishing => eventID < row)
    /\ state = "fallback" => ~subscribed
    /\ attempts > MaxAttempts => state = "fallback"

\* What was written and what waits in the channel continue each other.
DeliveryInv ==
    subscribed /\ ~dropped =>
        /\ Len(wire) + Len(channel) = eventID - got
        /\ \A i \in 1..Len(wire) : wire[i].id = got + i
        /\ \A i \in 1..Len(channel) : channel[i].id = got + Len(wire) + i

StreamInv == StreamTypeOK /\ HistoryInv /\ ConnectionInv /\ DeliveryInv

\* The positions from k + 1 on pick the rest of a sequence.
LEMMA PickedSuffix ==
    ASSUME NEW s \in Seq(Event), NEW k \in 0..Len(s)
    PROVE  /\ Picked(s, (k + 1)..Len(s)) \in Seq(Event)
           /\ Len(Picked(s, (k + 1)..Len(s))) = Len(s) - k
           /\ \A n \in 1..(Len(s) - k) : Picked(s, (k + 1)..Len(s))[n] = s[k + n]
<1> DEFINE P == (k + 1)..Len(s)
           At(n) == CHOOSE i \in P : Cardinality({j \in P : j <= i}) = n
<1>0. k \in Nat /\ Len(s) \in Nat /\ k <= Len(s)
  OBVIOUS
<1>1. Cardinality(P) = Len(s) - k
  <2>1. k + 1 \in Int /\ Len(s) \in Int
    BY <1>0
  <2>2. Cardinality(P) = IF k + 1 > Len(s) THEN 0 ELSE Len(s) - (k + 1) + 1
    BY <2>1, FS_Interval
  <2> QED
    BY <1>0, <2>2
<1>2. ASSUME NEW i \in P
      PROVE  Cardinality({j \in P : j <= i}) = i - k
  <2>1. {j \in P : j <= i} = (k + 1)..i
    BY <1>0
  <2>2. k + 1 \in Int /\ i \in Int /\ ~(k + 1 > i)
    BY <1>0
  <2>3. Cardinality((k + 1)..i) = i - (k + 1) + 1
    BY <2>2, FS_Interval
  <2>4. i - (k + 1) + 1 = i - k
    BY <1>0
  <2> QED
    BY <2>1, <2>3, <2>4, Zenon
<1>3. ASSUME NEW n \in 1..(Len(s) - k)
      PROVE  At(n) = k + n
  <2>1. k + n \in P /\ Cardinality({j \in P : j <= k + n}) = n
    BY <1>0, <1>2
  <2>2. At(n) \in P /\ Cardinality({j \in P : j <= At(n)}) = n
    <3> HIDE DEF P
    <3> QED
      BY <2>1
  <2>3. Cardinality({j \in P : j <= At(n)}) = At(n) - k
    BY <1>2, <2>2
  <2> HIDE DEF At
  <2> QED
    BY <1>0, <2>2, <2>3
<1>4. Picked(s, P) = [n \in 1..(Len(s) - k) |-> s[At(n)]]
  BY <1>1 DEF Picked
<1>5. Picked(s, P) = [n \in 1..(Len(s) - k) |-> s[k + n]]
  <2> HIDE DEF P, At
  <2> QED
    BY <1>3, <1>4
<1>6. \A n \in 1..(Len(s) - k) : s[k + n] \in Event
  BY <1>0
<1> QED
  BY <1>0, <1>5, <1>6

\* A stream that starts now is complete from Base(last) on.
LEMMA ReplayFits ==
    ASSUME StreamTypeOK, HistoryInv, NEW last \in Nat
    PROVE  /\ EventsAfter(last) \in Seq(Event)
           /\ Base(last) \in 0..eventID
           /\ Len(EventsAfter(last)) = eventID - Base(last)
           /\ \A i \in 1..Len(EventsAfter(last)) : EventsAfter(last)[i].id = Base(last) + i
<1>0. /\ eventID \in Nat /\ Len(history) \in Nat /\ Window \in Nat
      /\ Len(history) <= eventID /\ history \in Seq(Event)
      /\ DOMAIN history = 1..Len(history)
  BY StreamConstants DEF StreamTypeOK, HistoryInv
<1>1. CASE last = 0
  BY <1>0, <1>1 DEF EventsAfter, Base
<1>2. CASE last # 0
  <2> DEFINE k == IF last >= eventID THEN Len(history)
                  ELSE IF last >= eventID - Window THEN last - (eventID - Len(history))
                  ELSE 0
  <2>1. k \in 0..Len(history) /\ Base(last) = eventID - Len(history) + k
    BY <1>0, <1>2 DEF Base, HistoryInv
  <2>2. {i \in DOMAIN history : history[i].id > last} = (k + 1)..Len(history)
    <3>1. ASSUME NEW i \in 1..Len(history)
          PROVE  history[i].id > last <=> i > k
      <4>1. history[i].id = eventID - Len(history) + i
        BY DEF HistoryInv
      <4> QED
        BY <1>0, <1>2, <4>1 DEF HistoryInv
    <3>2. k \in 0..Len(history)
      BY <2>1
    <3> HIDE DEF k
    <3> QED
      BY <1>0, <3>1, <3>2
  <2> HIDE DEF k
  <2>3. EventsAfter(last) = Picked(history, (k + 1)..Len(history))
    BY <1>2, <2>2, Zenon DEF EventsAfter
  <2>4. /\ EventsAfter(last) \in Seq(Event)
        /\ Len(EventsAfter(last)) = Len(history) - k
        /\ \A n \in 1..(Len(history) - k) : EventsAfter(last)[n] = history[k + n]
    BY <1>0, <2>1, <2>3, PickedSuffix
  <2>5. ASSUME NEW n \in 1..(Len(history) - k)
        PROVE  history[k + n].id = eventID - Len(history) + k + n
    <3>1. k + n \in 1..Len(history)
      BY <1>0, <2>1
    <3>2. history[k + n].id = eventID - Len(history) + (k + n)
      BY <3>1 DEF HistoryInv
    <3> QED
      BY <1>0, <2>1, <3>1, <3>2
  <2>6. /\ Base(last) \in 0..eventID
        /\ Len(EventsAfter(last)) = eventID - Base(last)
    BY <1>0, <2>1, <2>4
  <2>7. ASSUME NEW i \in 1..Len(EventsAfter(last))
        PROVE  EventsAfter(last)[i].id = Base(last) + i
    <3>1. i \in 1..(Len(history) - k)
      BY <2>4
    <3>2. EventsAfter(last)[i].id = eventID - Len(history) + k + i
      BY <2>4, <2>5, <3>1
    <3> QED
      BY <1>0, <2>1, <3>1, <3>2
  <2> QED
    BY <2>4, <2>6, <2>7
<1> QED
  BY <1>1, <1>2

\* What Publish leaves of the history.
LEMMA TrimFits ==
    ASSUME StreamTypeOK, HistoryInv, NEW e \in Event, e.id = eventID + 1
    PROVE  LET h == Trimmed(Append(history, e))
           IN  /\ h \in Seq(Event)
               /\ Len(h) = IF eventID + 1 < Window THEN eventID + 1 ELSE Window
               /\ \A i \in 1..Len(h) : h[i].id = (eventID + 1) - Len(h) + i
<1> DEFINE s == Append(history, e)
           n == Len(history)
<1>1. /\ eventID \in Nat /\ Window \in Nat \ {0} /\ history \in Seq(Event)
      /\ n \in Nat /\ n = IF eventID < Window THEN eventID ELSE Window
      /\ \A i \in 1..n : history[i].id = eventID - n + i
  BY StreamConstants DEF StreamTypeOK, HistoryInv
<1>2. s \in Seq(Event) /\ Len(s) = n + 1
  BY <1>1
<1>3. ASSUME NEW i \in 1..(n + 1)
      PROVE  s[i].id = eventID - n + i
  <2>1. CASE i = n + 1
    BY <1>1, <2>1
  <2>2. CASE i \in 1..n
    <3>1. s[i] = history[i]
      BY <1>1, <2>2
    <3> QED
      BY <1>1, <2>2, <3>1
  <2> QED
    BY <1>1, <2>1, <2>2
<1> HIDE DEF s, n
<1>4. CASE n < Window
  <2>1. Trimmed(s) = s
    BY <1>1, <1>2, <1>4 DEF Trimmed
  <2>2. n = eventID
    BY <1>1, <1>4
  <2>3. Len(s) = IF eventID + 1 < Window THEN eventID + 1 ELSE Window
    BY <1>1, <1>2, <1>4, <2>2
  <2>4. \A i \in 1..Len(s) : s[i].id = (eventID + 1) - Len(s) + i
    BY <1>1, <1>2, <1>3, <2>2
  <2> QED
    BY <1>2, <2>1, <2>3, <2>4 DEF s
<1>5. CASE n = Window
  <2>1. Trimmed(s) = SubSeq(s, 2, n + 1)
    <3>1. Len(s) > Window /\ Len(s) - Window + 1 = 2
      BY <1>1, <1>2, <1>5
    <3> QED
      BY <1>2, <3>1, Zenon DEF Trimmed
  <2> DEFINE r == SubSeq(s, 2, n + 1)
  <2>2. /\ r \in Seq(Event)
        /\ Len(r) = n
        /\ \A i \in 1..n : r[i] = s[i + 1]
    BY <1>1, <1>2
  <2> HIDE DEF r
  <2>3. Len(r) = IF eventID + 1 < Window THEN eventID + 1 ELSE Window
    BY <1>1, <1>5, <2>2
  <2>4. ASSUME NEW i \in 1..Len(r)
        PROVE  r[i].id = (eventID + 1) - Len(r) + i
    <3>1. i \in 1..n /\ i + 1 \in 1..(n + 1)
      BY <1>1, <2>2
    <3>2. r[i].id = eventID - n + (i + 1)
      BY <1>3, <2>2, <3>1
    <3>3. eventID - n + (i + 1) = (eventID + 1) - n + i
      BY <1>1, <3>1
    <3> QED
      BY <2>2, <3>2, <3>3, Zenon
  <2> QED
    BY <2>1, <2>2, <2>3, <2>4 DEF s, r
<1> QED
  BY <1>1, <1>4, <1>5

\* What is left of a channel or of the wire.
LEMMA TailType ==
    ASSUME NEW S, NEW s \in Seq(S), Len(s) > 0
    PROVE  Tail(s) \in Seq(S) /\ Len(Tail(s)) = Len(s) - 1
OBVIOUS

\* Every step keeps the types.
LEMMA StreamTypeStep ==
    StreamInv /\ [StreamNext]_streamVars => StreamTypeOK'
<1> SUFFICES ASSUME StreamInv, [StreamNext]_streamVars
             PROVE  StreamTypeOK'
  OBVIOUS
<1>0. EventsAfter(lastEventId) \in Seq(Event) /\ Base(lastEventId) \in 0..eventID
  <2>1. lastEventId \in Nat
    BY DEF StreamInv, StreamTypeOK
  <2> QED
    BY <2>1, ReplayFits DEF StreamInv
<1> USE StreamConstants DEF StreamInv, StreamTypeOK, Idle, Asked, NoData, query, bounds
<1>1. CASE UpdateJob
  BY <1>1 DEF UpdateJob, broker, console, query, bounds, ConnectionInv
<1>2. CASE Publish
  <2> DEFINE e == [id |-> eventID + 1, version |-> row]
  <2>1. eventID + 1 \in 1..MaxVersion
    BY <1>2 DEF Publish, ConnectionInv
  <2>2. e \in Event
    BY <2>1 DEF Event
  <2> HIDE DEF e
  <2>3. e.id = eventID + 1
    BY DEF e
  <2>4. /\ Trimmed(Append(history, e)) \in Seq(Event)
        /\ Len(Trimmed(Append(history, e))) <= Window
    BY <2>2, <2>3, TrimFits
  <2>5. history' \in Seq(Event) /\ Len(history') <= Window
    BY <1>2, <2>4 DEF Publish, e
  <2>6. channel' \in Seq(Event) /\ Len(channel') <= Capacity
    BY <1>2, <2>2 DEF Publish, e
  <2>7. eventID' \in 0..MaxVersion /\ publishing' = FALSE
    BY <1>2, <2>1 DEF Publish
  <2>9. dropped' \in BOOLEAN
    BY <1>2, Zenon DEF Publish
  <2>8. UNCHANGED <<row, subscribed, wire, state, attempts, lastEventId, seen, query, got,
                    gap, bounds>>
    BY <1>2 DEF Publish, console, query, bounds
  <2> QED
    BY <2>5, <2>6, <2>7, <2>8, <2>9
<1>3. CASE Forward
  BY <1>3 DEF Forward, broker, console, query, bounds, ConnectionInv
<1>4. CASE Connect
  <2>2. wire' \in Seq(Event) /\ got' \in 0..MaxVersion
    BY <1>0, <1>4 DEF Connect
  <2>3. channel' \in Seq(Event) /\ Len(channel') <= Capacity
    BY <1>4 DEF Connect
  <2>4. subscribed' = TRUE /\ dropped' = FALSE /\ state' = "opening"
    BY <1>4 DEF Connect
  <2>5. UNCHANGED <<row, publishing, eventID, history, attempts, lastEventId, seen, query,
                    gap, bounds>>
    BY <1>4 DEF Connect
  <2> QED
    BY <2>2, <2>3, <2>4, <2>5
<1>5. CASE Open
  <2>1. /\ state' = "connected"
        /\ UNCHANGED <<row, publishing, eventID, history, subscribed, channel, wire, attempts,
                      lastEventId, seen, view, got, dropped, breaks, failures, restarts>>
    BY <1>5 DEF Open, broker
  <2>2. fetch' \in Idle..MaxVersion
    BY <1>5 DEF Open, Refetch
  <2>3. retried' \in BOOLEAN /\ gap' \in BOOLEAN
    <3>1. /\ retried' = retried \/ retried' = FALSE
          /\ gap' = FALSE \/ gap' = (gap \/ fetch # Asked)
      BY <1>5, Zenon DEF Open, Refetch
    <3> QED
      BY <3>1, Zenon
  <2> QED
    BY <2>1, <2>2, <2>3
<1>6. CASE HandleEvent
  <2>0. wire # <<>> /\ wire' = Tail(wire) /\ got' = Head(wire).id
    BY <1>6 DEF HandleEvent
  <2>1. Head(wire) \in Event /\ wire' \in Seq(Event)
    BY <2>0
  <2>2. Head(wire).id \in 1..MaxVersion /\ Head(wire).version \in 0..MaxVersion
    BY <2>1 DEF Event
  <2>3. /\ Remembered(Head(wire).id) \in Seq(1..MaxVersion)
        /\ Len(Remembered(Head(wire).id)) <= MaxSeen
    <3> DEFINE id == Head(wire).id
    <3>1. /\ Append(seen, id) \in Seq(1..MaxVersion)
          /\ Len(Append(seen, id)) = Len(seen) + 1
      BY <2>2
    <3> HIDE DEF id
    <3>2. CASE Len(seen) + 1 > MaxSeen
      <4>1. /\ Tail(Append(seen, id)) \in Seq(1..MaxVersion)
            /\ Len(Tail(Append(seen, id))) = Len(seen)
        <5>1. Len(seen) \in Nat /\ Len(Append(seen, id)) > 0
          BY <3>1
        <5>2. /\ Tail(Append(seen, id)) \in Seq(1..MaxVersion)
              /\ Len(Tail(Append(seen, id))) = Len(Append(seen, id)) - 1
          BY <3>1, <5>1, TailType
        <5>3. (Len(seen) + 1) - 1 = Len(seen)
          BY <5>1
        <5> QED
          BY <3>1, <5>2, <5>3, Zenon
      <4> QED
        BY <3>1, <3>2, <4>1 DEF Remembered, id
    <3>3. CASE ~(Len(seen) + 1 > MaxSeen)
      BY <3>1, <3>3 DEF Remembered, id
    <3> QED
      BY <3>2, <3>3
  <2>4. seen' \in Seq(1..MaxVersion) /\ Len(seen') <= MaxSeen
    BY <1>6, <2>3 DEF HandleEvent
  <2>5. lastEventId' \in 0..MaxVersion /\ view' \in NoData..MaxVersion
    <3>1. \/ lastEventId' = lastEventId /\ view' = view
          \/ lastEventId' = Head(wire).id /\ view' = Head(wire).version
      BY <1>6, Zenon DEF HandleEvent
    <3>2. Head(wire).id \in 0..MaxVersion /\ Head(wire).version \in NoData..MaxVersion
      BY <2>2
    <3>3. lastEventId \in 0..MaxVersion /\ view \in NoData..MaxVersion
      OBVIOUS
    <3> QED
      BY <3>1, <3>2, <3>3, Zenon
  <2>6. UNCHANGED <<row, publishing, eventID, history, subscribed, channel, state, attempts,
                    fetch, retried, dropped, gap, bounds>>
    BY <1>6 DEF HandleEvent, broker
  <2>7. got' \in 0..MaxVersion
    BY <2>0, <2>2
  <2> QED
    BY <2>1, <2>4, <2>5, <2>6, <2>7
<1>7. CASE Stable
  BY <1>7 DEF Stable, broker, console, query, bounds, ConnectionInv
<1>8. CASE FetchAnswered
  BY <1>8 DEF FetchAnswered, broker, console, query, bounds, ConnectionInv
<1>9. CASE FetchShown
  BY <1>9 DEF FetchShown, broker, console, query, bounds, ConnectionInv
<1>10. CASE Poll
  <2>1. /\ fetch' = Asked /\ retried' = FALSE /\ gap' = FALSE
        /\ UNCHANGED <<row, publishing, eventID, history, subscribed, channel, wire, state, attempts,
                      lastEventId, seen, view, got, dropped, breaks, failures, restarts>>
    BY <1>10 DEF Poll, broker, console
  <2>2. fetch' \in Idle..MaxVersion
    BY <2>1
  <2>3. retried' \in BOOLEAN /\ gap' \in BOOLEAN
    BY <2>1, Zenon
  <2> QED
    BY <2>1, <2>2, <2>3
<1>11. CASE Break
  <2>1. channel' \in Seq(Event) /\ Len(channel') <= Capacity /\ wire' \in Seq(Event)
    BY <1>11 DEF Break, Disconnected
  <2>2. /\ attempts' \in 0..(MaxAttempts + 1) /\ state' \in {"fallback", "reconnecting"}
        /\ subscribed' = FALSE /\ breaks' \in 0..MaxBreaks
    BY <1>11 DEF Break, Disconnected, ConnectionInv
  <2>3. UNCHANGED <<row, publishing, eventID, history, lastEventId, seen, query, got, dropped,
                    gap, failures, restarts>>
    BY <1>11 DEF Break
  <2> QED
    BY <2>1, <2>2, <2>3
<1>12. CASE Remount
  <2>1. channel' \in Seq(Event) /\ Len(channel') <= Capacity /\ wire' \in Seq(Event)
    BY <1>12 DEF Remount
  <2>2. /\ attempts' \in 0..(MaxAttempts + 1) /\ state' = "connecting"
        /\ seen' \in Seq(1..MaxVersion) /\ Len(seen') <= MaxSeen
        /\ subscribed' = FALSE /\ breaks' \in 0..MaxBreaks
    BY <1>12 DEF Remount
  <2>4. \/ UNCHANGED <<view, fetch, retried, gap>>
        \/ view' \in {view, NoData} /\ fetch' = Asked /\ retried' = FALSE /\ gap' = FALSE
    BY <1>12 DEF Remount
  <2>5. view' \in NoData..MaxVersion /\ fetch' \in Idle..MaxVersion
    BY <2>4
  <2>6. retried' \in BOOLEAN /\ gap' \in BOOLEAN
    BY <2>4, Zenon
  <2>3. UNCHANGED <<row, publishing, eventID, history, lastEventId, got, dropped, failures, restarts>>
    BY <1>12 DEF Remount
  <2> QED
    BY <2>1, <2>2, <2>3, <2>5, <2>6
<1>13. CASE RestartAPI
  <2>1. /\ publishing' = FALSE /\ eventID' \in 0..MaxVersion /\ restarts' \in 0..MaxRestarts
        /\ history' \in Seq(Event) /\ Len(history') <= Window
    BY <1>13 DEF RestartAPI
  <2>2. UNCHANGED <<row, lastEventId, seen, query, got, dropped, gap, breaks, failures>>
    BY <1>13 DEF RestartAPI
  <2>3. CASE state = "fallback"
    <3>1. UNCHANGED <<subscribed, channel, wire, state, attempts>>
      BY <1>13, <2>3 DEF RestartAPI
    <3> QED
      BY <2>1, <2>2, <3>1
  <2>4. CASE state # "fallback"
    <3>1. /\ channel' \in Seq(Event) /\ Len(channel') <= Capacity /\ wire' \in Seq(Event)
          /\ attempts' \in 0..(MaxAttempts + 1) /\ state' \in {"fallback", "reconnecting"}
          /\ subscribed' = FALSE
      BY <1>13, <2>4 DEF RestartAPI, Disconnected, ConnectionInv
    <3> QED
      BY <2>1, <2>2, <3>1
  <2> QED
    BY <2>3, <2>4
<1>14. CASE UNCHANGED streamVars
  BY <1>14 DEF streamVars, broker, console, query, bounds
<1>15. CASE FetchFails
  <2>1. UNCHANGED <<row, publishing, eventID, history, subscribed, channel, wire, state, attempts,
                    lastEventId, seen, view, got, dropped, breaks, restarts>>
    BY <1>15 DEF FetchFails, broker, console
  <2>2. fetch' \in Idle..MaxVersion /\ failures' \in 0..MaxFailures
    BY <1>15 DEF FetchFails
  <2>3. retried' \in BOOLEAN /\ gap' \in BOOLEAN
    <3>1. retried' = ~retried /\ (gap' = TRUE \/ gap' = gap)
      BY <1>15, Zenon DEF FetchFails
    <3> QED
      BY <3>1, Zenon
  <2> QED
    BY <2>1, <2>2, <2>3
<1> QED
  BY <1>1, <1>2, <1>3, <1>4, <1>5, <1>6, <1>7, <1>8, <1>9, <1>10, <1>11, <1>12, <1>13, <1>14, <1>15 DEF StreamNext

\* Only Publish and a restart touch the history.
LEMMA HistoryStep ==
    StreamInv /\ [StreamNext]_streamVars => HistoryInv'
<1> SUFFICES ASSUME StreamInv, [StreamNext]_streamVars
             PROVE  HistoryInv'
  OBVIOUS
<1> USE DEF StreamInv, HistoryInv
<1>1. CASE UpdateJob
  BY <1>1 DEF UpdateJob, broker, console, query, bounds
<1>2. CASE Publish
  <2> DEFINE e == [id |-> eventID + 1, version |-> row]
  <2>0. eventID + 1 \in 1..MaxVersion /\ row \in 0..MaxVersion
    BY <1>2, StreamConstants DEF Publish, StreamTypeOK, ConnectionInv
  <2>1. e \in Event /\ e.id = eventID + 1
    BY <2>0 DEF Event
  <2>2. history' = Trimmed(Append(history, e))
    BY <1>2 DEF Publish
  <2>9. eventID' = eventID + 1
    BY <1>2 DEF Publish
  <2> HIDE DEF e, HistoryInv
  <2>3. /\ Len(history') = IF eventID + 1 < Window THEN eventID + 1 ELSE Window
        /\ \A i \in 1..Len(history') : history'[i].id = (eventID + 1) - Len(history') + i
    BY <2>1, <2>2, TrimFits
  <2>4. /\ Len(history') = IF eventID' < Window THEN eventID' ELSE Window
        /\ \A i \in 1..Len(history') : history'[i].id = eventID' - Len(history') + i
    <3>1. Len(history') = IF eventID' < Window THEN eventID' ELSE Window
      BY <2>3, <2>9
    <3>2. ASSUME NEW i \in 1..Len(history')
          PROVE  history'[i].id = eventID' - Len(history') + i
      <4>1. history'[i].id = (eventID + 1) - Len(history') + i
        BY <2>3
      <4> QED
        BY <2>9, <4>1
    <3> QED
      BY <3>1, <3>2
  <2> QED
    BY <2>4 DEF HistoryInv
<1>3. CASE Forward
  BY <1>3 DEF Forward, broker, console, query, bounds
<1>4. CASE Connect
  BY <1>4 DEF Connect, broker, console, query, bounds
<1>5. CASE Open
  BY <1>5 DEF Open, Refetch, broker, console, query, bounds
<1>6. CASE HandleEvent
  BY <1>6 DEF HandleEvent, broker, console, query, bounds
<1>7. CASE Stable
  BY <1>7 DEF Stable, broker, console, query, bounds
<1>8. CASE FetchAnswered
  BY <1>8 DEF FetchAnswered, broker, console, query, bounds
<1>9. CASE FetchShown
  BY <1>9 DEF FetchShown, broker, console, query, bounds
<1>10. CASE Poll
  BY <1>10 DEF Poll, broker, console, query, bounds
<1>11. CASE Break
  BY <1>11 DEF Break, broker, console, query, bounds, Disconnected
<1>12. CASE Remount
  BY <1>12 DEF Remount, broker, console, query, bounds
<1>13. CASE RestartAPI
  BY <1>13, StreamConstants DEF RestartAPI
<1>14. CASE UNCHANGED streamVars
  BY <1>14 DEF streamVars, broker, console, query, bounds
<1>15. CASE FetchFails
  BY <1>15 DEF FetchFails, broker, console, query, bounds
<1> QED
  BY <1>1, <1>2, <1>3, <1>4, <1>5, <1>6, <1>7, <1>8, <1>9, <1>10, <1>11, <1>12, <1>13, <1>14, <1>15 DEF StreamNext

\* Counters, subscription and fallback.
LEMMA ConnectionStep ==
    StreamInv /\ [StreamNext]_streamVars => ConnectionInv'
<1> SUFFICES ASSUME StreamInv, [StreamNext]_streamVars
             PROVE  ConnectionInv'
  OBVIOUS
<1> USE StreamConstants DEF StreamInv, StreamTypeOK, ConnectionInv
<1>1. CASE UpdateJob
  BY <1>1 DEF UpdateJob, broker, console, query, bounds
<1>2. CASE Publish
  BY <1>2 DEF Publish, broker, console, query, bounds
<1>3. CASE Forward
  BY <1>3 DEF Forward, broker, console, query, bounds
<1>4. CASE Connect
  BY <1>4 DEF Connect, broker, console, query, bounds
<1>5. CASE Open
  BY <1>5 DEF Open, Refetch, broker, console, query, bounds
<1>6. CASE HandleEvent
  BY <1>6 DEF HandleEvent, broker, console, query, bounds
<1>7. CASE Stable
  BY <1>7 DEF Stable, broker, console, query, bounds
<1>8. CASE FetchAnswered
  BY <1>8 DEF FetchAnswered, broker, console, query, bounds
<1>9. CASE FetchShown
  BY <1>9 DEF FetchShown, broker, console, query, bounds
<1>10. CASE Poll
  BY <1>10 DEF Poll, broker, console, query, bounds
<1>11. CASE Break
  BY <1>11 DEF Break, broker, console, query, bounds, Disconnected
<1>12. CASE Remount
  BY <1>12 DEF Remount, broker, console, query, bounds
<1>13. CASE RestartAPI
  BY <1>13 DEF RestartAPI, broker, console, query, bounds, Disconnected
<1>14. CASE UNCHANGED streamVars
  BY <1>14 DEF streamVars, broker, console, query, bounds
<1>15. CASE FetchFails
  BY <1>15 DEF FetchFails, broker, console, query, bounds
<1> QED
  BY <1>1, <1>2, <1>3, <1>4, <1>5, <1>6, <1>7, <1>8, <1>9, <1>10, <1>11, <1>12, <1>13, <1>14, <1>15 DEF StreamNext

\* What is on its way to the console stays without a gap.
LEMMA DeliveryStep ==
    StreamInv /\ [StreamNext]_streamVars => DeliveryInv'
<1> SUFFICES ASSUME StreamInv, [StreamNext]_streamVars
             PROVE  DeliveryInv'
  OBVIOUS
<1>0. /\ eventID \in Nat /\ got \in Nat /\ channel \in Seq(Event) /\ wire \in Seq(Event)
      /\ Len(channel) \in Nat /\ Len(wire) \in Nat
  BY DEF StreamInv, StreamTypeOK
<1> USE DEF StreamInv, DeliveryInv
<1>1. CASE UpdateJob
  BY <1>1 DEF UpdateJob, broker, console, query, bounds
<1>2. CASE Publish
  <2> DEFINE e == [id |-> eventID + 1, version |-> row]
  <2> SUFFICES ASSUME subscribed', ~dropped'
               PROVE  /\ Len(wire') + Len(channel') = eventID' - got'
                      /\ \A i \in 1..Len(wire') : wire'[i].id = got' + i
                      /\ \A i \in 1..Len(channel') : channel'[i].id = got' + Len(wire') + i
    OBVIOUS
  <2>1. subscribed /\ ~dropped /\ channel' = Append(channel, e)
    BY <1>2 DEF Publish
  <2>2. wire' = wire /\ got' = got /\ eventID' = eventID + 1
    BY <1>2 DEF Publish
  <2>3. Len(channel') = Len(channel) + 1 /\ channel'[Len(channel) + 1] = e
    BY <1>0, <2>1
  <2>4. \A i \in 1..Len(channel) : channel'[i] = channel[i]
    BY <1>0, <2>1
  <2>5. Len(wire') + Len(channel') = eventID' - got'
    <3>1. Len(wire) + Len(channel) = eventID - got
      BY <2>1
    <3>2. Len(wire) + (Len(channel) + 1) = (eventID + 1) - got
      BY <1>0, <3>1
    <3> QED
      BY <1>0, <2>2, <2>3, <3>2
  <2>6. e.id = got + Len(wire) + (Len(channel) + 1)
    BY <1>0, <2>1
  <2> HIDE DEF e
  <2>7. ASSUME NEW i \in 1..Len(channel')
        PROVE  channel'[i].id = got' + Len(wire') + i
    <3>1. CASE i = Len(channel) + 1
      BY <2>2, <2>3, <2>6, <3>1
    <3>2. CASE i \in 1..Len(channel)
      BY <2>1, <2>2, <2>4, <3>2
    <3> QED
      BY <1>0, <2>3, <3>1, <3>2
  <2> QED
    BY <2>1, <2>2, <2>5, <2>7
<1>3. CASE Forward
  <2> SUFFICES ASSUME subscribed', ~dropped'
               PROVE  /\ Len(wire') + Len(channel') = eventID' - got'
                      /\ \A i \in 1..Len(wire') : wire'[i].id = got' + i
                      /\ \A i \in 1..Len(channel') : channel'[i].id = got' + Len(wire') + i
    OBVIOUS
  <2>1. /\ subscribed /\ ~dropped /\ channel # <<>> /\ got' = got /\ eventID' = eventID
        /\ wire' = Append(wire, Head(channel)) /\ channel' = Tail(channel)
    BY <1>3 DEF Forward
  <2>2. /\ Len(channel) > 0 /\ Len(channel') = Len(channel) - 1
        /\ \A i \in 1..Len(channel') : channel'[i] = channel[i + 1]
        /\ Head(channel) = channel[1]
    BY <1>0, <2>1
  <2>3. /\ Len(wire') = Len(wire) + 1 /\ wire'[Len(wire) + 1] = channel[1]
        /\ \A i \in 1..Len(wire) : wire'[i] = wire[i]
    BY <1>0, <2>1, <2>2
  <2>4. Len(wire') + Len(channel') = eventID' - got'
    <3>1. Len(wire) + Len(channel) = eventID - got
      BY <2>1
    <3>2. (Len(wire) + 1) + (Len(channel) - 1) = eventID - got
      BY <1>0, <3>1
    <3> QED
      BY <2>1, <2>2, <2>3, <3>2, Zenon
  <2>5. ASSUME NEW i \in 1..Len(wire')
        PROVE  wire'[i].id = got' + i
    <3>1. CASE i = Len(wire) + 1
      <4>1. channel[1].id = got + Len(wire) + 1
        BY <1>0, <2>1, <2>2
      <4> QED
        BY <1>0, <2>1, <2>3, <3>1, <4>1
    <3>2. CASE i \in 1..Len(wire)
      BY <2>1, <2>3, <3>2
    <3> QED
      BY <1>0, <2>3, <3>1, <3>2
  <2>6. ASSUME NEW i \in 1..Len(channel')
        PROVE  channel'[i].id = got' + Len(wire') + i
    <3>1. i + 1 \in 1..Len(channel) /\ i \in Nat
      BY <1>0, <2>2
    <3>2. channel'[i].id = got + Len(wire) + (i + 1)
      BY <2>1, <2>2, <3>1
    <3> QED
      BY <1>0, <2>1, <2>3, <3>1, <3>2
  <2> QED
    BY <2>4, <2>5, <2>6
<1>4. CASE Connect
  <2>1. /\ wire' = EventsAfter(lastEventId) /\ channel' = <<>>
        /\ got' = Base(lastEventId) /\ eventID' = eventID
    BY <1>4 DEF Connect
  <2>2. lastEventId \in Nat
    BY DEF StreamTypeOK
  <2>3. /\ EventsAfter(lastEventId) \in Seq(Event)
        /\ Base(lastEventId) \in 0..eventID
        /\ Len(EventsAfter(lastEventId)) = eventID - Base(lastEventId)
        /\ \A i \in 1..Len(EventsAfter(lastEventId)) :
              EventsAfter(lastEventId)[i].id = Base(lastEventId) + i
    BY <2>2, ReplayFits
  <2>4. Len(channel') = 0
    BY <2>1
  <2> QED
    BY <1>0, <2>1, <2>3, <2>4
<1>5. CASE Open
  BY <1>5 DEF Open, Refetch, broker, console, query, bounds
<1>6. CASE HandleEvent
  <2> SUFFICES ASSUME subscribed', ~dropped'
               PROVE  /\ Len(wire') + Len(channel') = eventID' - got'
                      /\ \A i \in 1..Len(wire') : wire'[i].id = got' + i
                      /\ \A i \in 1..Len(channel') : channel'[i].id = got' + Len(wire') + i
    OBVIOUS
  <2>1. /\ subscribed /\ ~dropped /\ wire # <<>> /\ eventID' = eventID /\ channel' = channel
        /\ wire' = Tail(wire) /\ got' = Head(wire).id
    BY <1>6 DEF HandleEvent, broker
  <2>2. /\ Len(wire) > 0 /\ Len(wire') = Len(wire) - 1
        /\ \A i \in 1..Len(wire') : wire'[i] = wire[i + 1]
        /\ Head(wire) = wire[1]
    BY <1>0, <2>1
  <2>3. got' = got + 1
    BY <1>0, <2>1, <2>2
  <2>4. ASSUME NEW i \in 1..Len(wire')
        PROVE  wire'[i].id = got' + i
    <3>1. i + 1 \in 1..Len(wire) /\ i \in Nat
      BY <1>0, <2>2
    <3>2. wire'[i].id = got + (i + 1)
      BY <2>1, <2>2, <3>1
    <3> QED
      BY <1>0, <2>3, <3>1, <3>2
  <2>5. Len(wire') + Len(channel') = eventID' - got'
    BY <1>0, <2>1, <2>2, <2>3
  <2>6. ASSUME NEW i \in 1..Len(channel')
        PROVE  channel'[i].id = got' + Len(wire') + i
    <3>1. channel'[i].id = got + Len(wire) + i
      BY <2>1
    <3>2. i \in Nat
      BY <1>0, <2>1
    <3>3. got + Len(wire) + i = (got + 1) + (Len(wire) - 1) + i
      BY <1>0, <3>2
    <3> QED
      BY <2>2, <2>3, <3>1, <3>3, Zenon
  <2> QED
    BY <2>4, <2>5, <2>6
<1>7. CASE Stable
  BY <1>7 DEF Stable, broker, console, query, bounds
<1>8. CASE FetchAnswered
  BY <1>8 DEF FetchAnswered, broker, console, query, bounds
<1>9. CASE FetchShown
  BY <1>9 DEF FetchShown, broker, console, query, bounds
<1>10. CASE Poll
  BY <1>10 DEF Poll, broker, console, query, bounds
<1>11. CASE Break
  BY <1>11 DEF Break, broker, console, query, bounds, Disconnected
<1>12. CASE Remount
  BY <1>12 DEF Remount, broker, console, query, bounds
<1>13. CASE RestartAPI
  BY <1>13 DEF RestartAPI, Disconnected, ConnectionInv
<1>14. CASE UNCHANGED streamVars
  BY <1>14 DEF streamVars, broker, console, query, bounds
<1>15. CASE FetchFails
  BY <1>15 DEF FetchFails, broker, console, query, bounds
<1> QED
  BY <1>1, <1>2, <1>3, <1>4, <1>5, <1>6, <1>7, <1>8, <1>9, <1>10, <1>11, <1>12, <1>13, <1>14, <1>15 DEF StreamNext

\* The inductive invariant of broker, subscription and console.
THEOREM StreamInvariant == StreamSpec => []StreamInv
<1>1. StreamInit => StreamInv
  <2> SUFFICES ASSUME StreamInit
               PROVE  StreamInv
    OBVIOUS
  <2>1. StreamTypeOK
    <3>1. /\ history \in Seq(Event) /\ channel \in Seq(Event) /\ wire \in Seq(Event)
          /\ seen \in Seq(1..MaxVersion)
          /\ Len(history) <= Window /\ Len(channel) <= Capacity /\ Len(seen) <= MaxSeen
      BY StreamConstants DEF StreamInit
    <3>2. /\ row \in 0..MaxVersion /\ eventID \in 0..MaxVersion /\ lastEventId \in 0..MaxVersion
          /\ view \in NoData..MaxVersion /\ got \in 0..MaxVersion /\ attempts \in 0..(MaxAttempts + 1)
          /\ breaks \in 0..MaxBreaks /\ restarts \in 0..MaxRestarts /\ fetch \in Idle..MaxVersion
          /\ failures \in 0..MaxFailures
      BY StreamConstants DEF StreamInit, Idle, Asked, NoData
    <3> QED
      BY <3>1, <3>2 DEF StreamInit, StreamTypeOK
  <2> QED
    BY <2>1, StreamConstants DEF StreamInit, StreamInv, HistoryInv, ConnectionInv, DeliveryInv
<1>2. StreamInv /\ [StreamNext]_streamVars => StreamInv'
  BY StreamTypeStep, HistoryStep, ConnectionStep, DeliveryStep DEF StreamInv
<1> QED
  BY <1>1, <1>2, PTL DEF StreamSpec

\* Type correctness of EventStream.
THEOREM StreamTypeCorrect == StreamSpec => []StreamTypeOK
<1>1. StreamInv => StreamTypeOK
  BY DEF StreamInv
<1> QED
  BY <1>1, StreamInvariant, PTL

\* A connection is a stream without gap or repetition: unless Publish found its
\* channel full, what the console has yet to read are exactly the events after
\* the last one it read, across SubscribeAfter, trimming of the history and
\* restarts of the API, for every size of history and channel.
THEOREM GapFreeTheorem == StreamSpec => []GapFree
<1>1. StreamInv => GapFree
  <2> SUFFICES ASSUME StreamInv, subscribed, ~dropped
               PROVE  Ids(wire \o channel) = [i \in 1..(eventID - got) |-> got + i]
    BY DEF GapFree
  <2>1. /\ channel \in Seq(Event) /\ wire \in Seq(Event) /\ got \in Nat
        /\ Len(channel) \in Nat /\ Len(wire) \in Nat
    BY DEF StreamInv, StreamTypeOK
  <2>2. /\ Len(wire) + Len(channel) = eventID - got
        /\ \A i \in 1..Len(wire) : wire[i].id = got + i
        /\ \A i \in 1..Len(channel) : channel[i].id = got + Len(wire) + i
    BY DEF StreamInv, DeliveryInv
  <2> DEFINE s == wire \o channel
  <2>3. /\ DOMAIN s = 1..(eventID - got)
        /\ \A i \in 1..Len(wire) : s[i] = wire[i]
        /\ \A i \in (Len(wire) + 1)..(Len(wire) + Len(channel)) : s[i] = channel[i - Len(wire)]
    BY <2>1, <2>2
  <2> HIDE DEF s
  <2>4. ASSUME NEW i \in 1..(eventID - got)
        PROVE  s[i].id = got + i
    <3>1. CASE i \in 1..Len(wire)
      BY <2>2, <2>3, <3>1
    <3>2. CASE i \in (Len(wire) + 1)..(Len(wire) + Len(channel))
      <4>1. i - Len(wire) \in 1..Len(channel)
        BY <2>1, <3>2
      <4>2. channel[i - Len(wire)].id = got + Len(wire) + (i - Len(wire))
        BY <2>2, <4>1
      <4> QED
        BY <2>1, <2>3, <3>2, <4>2
    <3> QED
      BY <2>1, <2>2, <3>1, <3>2
  <2> QED
    BY <2>3, <2>4 DEF Ids, s
<1> QED
  BY <1>1, StreamInvariant, PTL
=============================================================================
