------------------------ MODULE ChangeControl_proofs ------------------------
(***************************************************************************)
(* Proofs about ChangeControl, for any sets of requests, users, jobs and   *)
(* operations, any clock and any number of faults.                         *)
(***************************************************************************)
EXTENDS ChangeControl, TLAPS

\* What the handler in progress has established and still relies on.
HandlerInv ==
    /\ handler.point = "idle" => handler = Idle
    /\ handler.point # "idle" => handler.change \in Changes
    /\ handler.point = "decide" =>
          /\ status[handler.change] = "pending_approval"
          /\ handler.user \in Users \ {requester[handler.change]}
          /\ handler.decision \in {"approved", "rejected"}
    /\ handler.point = "mark" => status[handler.change] = "approved"
    /\ handler.point = "create" =>
          /\ status[handler.change] = "executing"
          /\ handler.job \in Jobs
          /\ jobOf[handler.change] = handler.job
          /\ jobStatus[handler.job] = "absent"

\* A request nobody has decided has no approver, one nobody executes no job.
RowInv ==
    \A c \in Changes :
        /\ status[c] \in Undecided => approver[c] = NoUser
        /\ status[c] \in Undecided \cup {"approved"} => jobOf[c] = NoJob

\* A gated request from its approval on was approved by another user.
ApprovedInv ==
    \A c \in Changes :
        /\ status[c] \in {"approved", "executing"} \cup Final
        /\ RequiresApproval(op[c])
        => approver[c] \in Users \ {requester[c]}

\* Trackers follow jobs that exist, and the request names its job.
LaunchInv ==
    /\ tracking \subseteq launched
    /\ \A c \in Changes, j \in Jobs : <<c, j>> \in launched =>
          /\ jobOf[c] = j
          /\ status[c] \in {"executing"} \cup Final
          /\ jobStatus[j] # "absent"

\* A job reported as a success was carried out.
SuccessInv == \A j \in Jobs : jobStatus[j] = "success" => jobRun[j] = "ok"

\* From the window check on, the window has opened.
OpenedInv ==
    \A c \in Changes :
        /\ RequiresWindow(op[c])
        /\ \/ status[c] \in {"executing"} \cup Final
           \/ handler.point = "mark" /\ handler.change = c
        => opens[c] <= now

\* Every step preserves the types.
LEMMA TypeStep ==
    TypeOK /\ HandlerInv /\ [Next]_vars
        => TypeOK'
<1> SUFFICES ASSUME TypeOK, HandlerInv, [Next]_vars PROVE TypeOK'
  OBVIOUS
<1> USE ChangeConstants DEF TypeOK, ChangeStatus, Undecided, Final, Handlers,
        Idle, Job!InProgress, Job!Settled, Job!RunStates, rowVars, jobVars,
            HandlerInv
<1>1. ASSUME NEW u \in Users, NEW c \in Changes, NEW o \in Operations,
             NEW r \in Resources, NEW s \in 0..MaxTime, NEW e \in 0..MaxTime,
             Request(u, c, o, r, s, e)
      PROVE TypeOK'
  BY <1>1 DEF Request
<1>2. ASSUME NEW u \in Users, NEW c \in Changes,
             NEW d \in {"approved", "rejected"}, DecideCheck(u, c, d)
      PROVE TypeOK'
  BY <1>2 DEF DecideCheck
<1>3. ASSUME NEW u \in Users, NEW c \in Changes,
             NEW d \in {"approved", "rejected"}, DecideExpired(u, c, d)
      PROVE TypeOK'
  BY <1>3 DEF DecideExpired
<1>4. CASE DecideCommit
  BY <1>4 DEF DecideCommit
<1>5. ASSUME NEW u \in Users, NEW c \in Changes, ExecuteCheck(u, c)
      PROVE TypeOK'
  BY <1>5 DEF ExecuteCheck
<1>6. ASSUME NEW j \in Jobs, ExecuteMark(j)
      PROVE TypeOK'
  BY <1>6 DEF ExecuteMark
<1>7. CASE StatementFails
  BY <1>7 DEF StatementFails
<1>8. CASE ExecuteCreate
  BY <1>8 DEF ExecuteCreate, Job!Submit
<1>9. CASE ExecuteRelease
  BY <1>9 DEF ExecuteRelease
<1>10. CASE ExecuteReleaseFails
  BY <1>10 DEF ExecuteReleaseFails
<1>11. ASSUME NEW c \in Changes, NEW j \in Jobs, Complete(c, j)
      PROVE TypeOK'
  BY <1>11 DEF Complete, OutcomeOf
<1>12. ASSUME NEW c \in Changes, NEW j \in Jobs, TrackerQuits(c, j)
      PROVE TypeOK'
  BY <1>12 DEF TrackerQuits
<1>13. ASSUME NEW j \in Jobs, JobSettles(j)
      PROVE TypeOK'
  BY <1>13 DEF JobSettles, Job!Settle
<1>14. ASSUME NEW j \in Jobs, JobAdvances(j)
      PROVE TypeOK'
  BY <1>14 DEF JobAdvances, Job!Advance
<1>15. ASSUME NEW j \in Jobs, JobBegins(j)
      PROVE TypeOK'
  BY <1>15 DEF JobBegins, Job!Begin
<1>16. ASSUME NEW j \in Jobs, JobEnds(j)
      PROVE TypeOK'
  BY <1>16 DEF JobEnds, Job!End
<1>17. CASE Tick
  BY <1>17 DEF Tick
<1>18. CASE Restart
  BY <1>18 DEF Restart
<1>19. CASE UNCHANGED vars
  BY <1>19 DEF vars
<1> HIDE ChangeConstants DEF TypeOK, ChangeStatus, Undecided, Final, Handlers,
        Idle, Job!InProgress, Job!Settled, Job!RunStates, rowVars, jobVars,
            HandlerInv
<1> QED
  BY <1>1, <1>2, <1>3, <1>4, <1>5, <1>6, <1>7, <1>8, <1>9, <1>10, <1>11,
     <1>12, <1>13, <1>14, <1>15, <1>16, <1>17, <1>18, <1>19
     DEF Next, HandlerSteps

\* What a handler relies on survives the steps of everybody else.
LEMMA HandlerStep ==
    TypeOK /\ LaunchInv /\ HandlerInv /\ [Next]_vars
        => HandlerInv'
<1> SUFFICES ASSUME TypeOK, LaunchInv, HandlerInv, [Next]_vars PROVE HandlerInv'
  OBVIOUS
<1> USE ChangeConstants DEF TypeOK, ChangeStatus, Undecided, Final, Handlers,
        Idle, Job!InProgress, Job!Settled, Job!RunStates, rowVars, jobVars,
        HandlerInv, MayDecide, RequiresApproval, RequiresSeparation, LaunchInv
<1>1. ASSUME NEW u \in Users, NEW c \in Changes, NEW o \in Operations,
             NEW r \in Resources, NEW s \in 0..MaxTime, NEW e \in 0..MaxTime,
             Request(u, c, o, r, s, e)
      PROVE HandlerInv'
  BY <1>1 DEF Request
<1>2. ASSUME NEW u \in Users, NEW c \in Changes,
             NEW d \in {"approved", "rejected"}, DecideCheck(u, c, d)
      PROVE HandlerInv'
  BY <1>2 DEF DecideCheck
<1>3. ASSUME NEW u \in Users, NEW c \in Changes,
             NEW d \in {"approved", "rejected"}, DecideExpired(u, c, d)
      PROVE HandlerInv'
  BY <1>3 DEF DecideExpired
<1>4. CASE DecideCommit
  BY <1>4 DEF DecideCommit
<1>5. ASSUME NEW u \in Users, NEW c \in Changes, ExecuteCheck(u, c)
      PROVE HandlerInv'
  BY <1>5 DEF ExecuteCheck
<1>6. ASSUME NEW j \in Jobs, ExecuteMark(j)
      PROVE HandlerInv'
  BY <1>6 DEF ExecuteMark
<1>7. CASE StatementFails
  BY <1>7 DEF StatementFails
<1>8. CASE ExecuteCreate
  BY <1>8 DEF ExecuteCreate, Job!Submit
<1>9. CASE ExecuteRelease
  BY <1>9 DEF ExecuteRelease
<1>10. CASE ExecuteReleaseFails
  BY <1>10 DEF ExecuteReleaseFails
<1>11. ASSUME NEW c \in Changes, NEW j \in Jobs, Complete(c, j)
      PROVE HandlerInv'
  BY <1>11 DEF Complete, OutcomeOf
<1>12. ASSUME NEW c \in Changes, NEW j \in Jobs, TrackerQuits(c, j)
      PROVE HandlerInv'
  BY <1>12 DEF TrackerQuits
<1>13. ASSUME NEW j \in Jobs, JobSettles(j)
      PROVE HandlerInv'
  BY <1>13 DEF JobSettles, Job!Settle
<1>14. ASSUME NEW j \in Jobs, JobAdvances(j)
      PROVE HandlerInv'
  BY <1>14 DEF JobAdvances, Job!Advance
<1>15. ASSUME NEW j \in Jobs, JobBegins(j)
      PROVE HandlerInv'
  BY <1>15 DEF JobBegins, Job!Begin
<1>16. ASSUME NEW j \in Jobs, JobEnds(j)
      PROVE HandlerInv'
  BY <1>16 DEF JobEnds, Job!End
<1>17. CASE Tick
  BY <1>17 DEF Tick
<1>18. CASE Restart
  BY <1>18 DEF Restart
<1>19. CASE UNCHANGED vars
  BY <1>19 DEF vars
<1> HIDE ChangeConstants DEF TypeOK, ChangeStatus, Undecided, Final, Handlers,
        Idle, Job!InProgress, Job!Settled, Job!RunStates, rowVars, jobVars,
        HandlerInv, MayDecide, RequiresApproval, RequiresSeparation, LaunchInv
<1> QED
  BY <1>1, <1>2, <1>3, <1>4, <1>5, <1>6, <1>7, <1>8, <1>9, <1>10, <1>11,
     <1>12, <1>13, <1>14, <1>15, <1>16, <1>17, <1>18, <1>19
     DEF Next, HandlerSteps

\* Approver and job appear with the decision and the execution.
LEMMA RowStep ==
    TypeOK /\ HandlerInv /\ RowInv /\ [Next]_vars
        => RowInv'
<1> SUFFICES ASSUME TypeOK, HandlerInv, RowInv, [Next]_vars PROVE RowInv'
  OBVIOUS
<1> USE ChangeConstants DEF TypeOK, ChangeStatus, Undecided, Final, Handlers,
        Idle, Job!InProgress, Job!Settled, Job!RunStates, rowVars, jobVars,
            HandlerInv, RowInv
<1>1. ASSUME NEW u \in Users, NEW c \in Changes, NEW o \in Operations,
             NEW r \in Resources, NEW s \in 0..MaxTime, NEW e \in 0..MaxTime,
             Request(u, c, o, r, s, e)
      PROVE RowInv'
  BY <1>1 DEF Request
<1>2. ASSUME NEW u \in Users, NEW c \in Changes,
             NEW d \in {"approved", "rejected"}, DecideCheck(u, c, d)
      PROVE RowInv'
  BY <1>2 DEF DecideCheck
<1>3. ASSUME NEW u \in Users, NEW c \in Changes,
             NEW d \in {"approved", "rejected"}, DecideExpired(u, c, d)
      PROVE RowInv'
  BY <1>3 DEF DecideExpired
<1>4. CASE DecideCommit
  BY <1>4 DEF DecideCommit
<1>5. ASSUME NEW u \in Users, NEW c \in Changes, ExecuteCheck(u, c)
      PROVE RowInv'
  BY <1>5 DEF ExecuteCheck
<1>6. ASSUME NEW j \in Jobs, ExecuteMark(j)
      PROVE RowInv'
  BY <1>6 DEF ExecuteMark
<1>7. CASE StatementFails
  BY <1>7 DEF StatementFails
<1>8. CASE ExecuteCreate
  BY <1>8 DEF ExecuteCreate, Job!Submit
<1>9. CASE ExecuteRelease
  BY <1>9 DEF ExecuteRelease
<1>10. CASE ExecuteReleaseFails
  BY <1>10 DEF ExecuteReleaseFails
<1>11. ASSUME NEW c \in Changes, NEW j \in Jobs, Complete(c, j)
      PROVE RowInv'
  BY <1>11 DEF Complete, OutcomeOf
<1>12. ASSUME NEW c \in Changes, NEW j \in Jobs, TrackerQuits(c, j)
      PROVE RowInv'
  BY <1>12 DEF TrackerQuits
<1>13. ASSUME NEW j \in Jobs, JobSettles(j)
      PROVE RowInv'
  BY <1>13 DEF JobSettles, Job!Settle
<1>14. ASSUME NEW j \in Jobs, JobAdvances(j)
      PROVE RowInv'
  BY <1>14 DEF JobAdvances, Job!Advance
<1>15. ASSUME NEW j \in Jobs, JobBegins(j)
      PROVE RowInv'
  BY <1>15 DEF JobBegins, Job!Begin
<1>16. ASSUME NEW j \in Jobs, JobEnds(j)
      PROVE RowInv'
  BY <1>16 DEF JobEnds, Job!End
<1>17. CASE Tick
  BY <1>17 DEF Tick
<1>18. CASE Restart
  BY <1>18 DEF Restart
<1>19. CASE UNCHANGED vars
  BY <1>19 DEF vars
<1> HIDE ChangeConstants DEF TypeOK, ChangeStatus, Undecided, Final, Handlers,
        Idle, Job!InProgress, Job!Settled, Job!RunStates, rowVars, jobVars,
            HandlerInv, RowInv
<1> QED
  BY <1>1, <1>2, <1>3, <1>4, <1>5, <1>6, <1>7, <1>8, <1>9, <1>10, <1>11,
     <1>12, <1>13, <1>14, <1>15, <1>16, <1>17, <1>18, <1>19
     DEF Next, HandlerSteps

\* No step approves a request in the name of its requester.
LEMMA ApprovedStep ==
    TypeOK /\ HandlerInv /\ ApprovedInv /\ [Next]_vars
        => ApprovedInv'
<1> SUFFICES ASSUME TypeOK, HandlerInv, ApprovedInv, [Next]_vars
        PROVE ApprovedInv'
  OBVIOUS
<1> USE ChangeConstants DEF TypeOK, ChangeStatus, Undecided, Final, Handlers,
        Idle, Job!InProgress, Job!Settled, Job!RunStates, rowVars, jobVars,
            HandlerInv, ApprovedInv,
        RequiresApproval
<1>1. ASSUME NEW u \in Users, NEW c \in Changes, NEW o \in Operations,
             NEW r \in Resources, NEW s \in 0..MaxTime, NEW e \in 0..MaxTime,
             Request(u, c, o, r, s, e)
      PROVE ApprovedInv'
  BY <1>1 DEF Request
<1>2. ASSUME NEW u \in Users, NEW c \in Changes,
             NEW d \in {"approved", "rejected"}, DecideCheck(u, c, d)
      PROVE ApprovedInv'
  BY <1>2 DEF DecideCheck
<1>3. ASSUME NEW u \in Users, NEW c \in Changes,
             NEW d \in {"approved", "rejected"}, DecideExpired(u, c, d)
      PROVE ApprovedInv'
  BY <1>3 DEF DecideExpired
<1>4. CASE DecideCommit
  BY <1>4 DEF DecideCommit
<1>5. ASSUME NEW u \in Users, NEW c \in Changes, ExecuteCheck(u, c)
      PROVE ApprovedInv'
  BY <1>5 DEF ExecuteCheck
<1>6. ASSUME NEW j \in Jobs, ExecuteMark(j)
      PROVE ApprovedInv'
  BY <1>6 DEF ExecuteMark
<1>7. CASE StatementFails
  BY <1>7 DEF StatementFails
<1>8. CASE ExecuteCreate
  BY <1>8 DEF ExecuteCreate, Job!Submit
<1>9. CASE ExecuteRelease
  BY <1>9 DEF ExecuteRelease
<1>10. CASE ExecuteReleaseFails
  BY <1>10 DEF ExecuteReleaseFails
<1>11. ASSUME NEW c \in Changes, NEW j \in Jobs, Complete(c, j)
      PROVE ApprovedInv'
  BY <1>11 DEF Complete, OutcomeOf
<1>12. ASSUME NEW c \in Changes, NEW j \in Jobs, TrackerQuits(c, j)
      PROVE ApprovedInv'
  BY <1>12 DEF TrackerQuits
<1>13. ASSUME NEW j \in Jobs, JobSettles(j)
      PROVE ApprovedInv'
  BY <1>13 DEF JobSettles, Job!Settle
<1>14. ASSUME NEW j \in Jobs, JobAdvances(j)
      PROVE ApprovedInv'
  BY <1>14 DEF JobAdvances, Job!Advance
<1>15. ASSUME NEW j \in Jobs, JobBegins(j)
      PROVE ApprovedInv'
  BY <1>15 DEF JobBegins, Job!Begin
<1>16. ASSUME NEW j \in Jobs, JobEnds(j)
      PROVE ApprovedInv'
  BY <1>16 DEF JobEnds, Job!End
<1>17. CASE Tick
  BY <1>17 DEF Tick
<1>18. CASE Restart
  BY <1>18 DEF Restart
<1>19. CASE UNCHANGED vars
  BY <1>19 DEF vars
<1> HIDE DEF ApprovedInv
<1> HIDE ChangeConstants DEF TypeOK, ChangeStatus, Undecided, Final, Handlers,
        Idle, Job!InProgress, Job!Settled, Job!RunStates, rowVars, jobVars,
            HandlerInv, ApprovedInv,
        RequiresApproval
<1> QED
  BY <1>1, <1>2, <1>3, <1>4, <1>5, <1>6, <1>7, <1>8, <1>9, <1>10, <1>11,
     <1>12, <1>13, <1>14, <1>15, <1>16, <1>17, <1>18, <1>19
     DEF Next, HandlerSteps

\* No step detaches a job from its request.
LEMMA LaunchStep ==
    TypeOK /\ HandlerInv /\ LaunchInv /\ [Next]_vars
        => LaunchInv'
<1> SUFFICES ASSUME TypeOK, HandlerInv, LaunchInv, [Next]_vars PROVE LaunchInv'
  OBVIOUS
<1> USE ChangeConstants DEF TypeOK, ChangeStatus, Undecided, Final, Handlers,
        Idle, Job!InProgress, Job!Settled, Job!RunStates, rowVars, jobVars,
            HandlerInv, LaunchInv
<1>1. ASSUME NEW u \in Users, NEW c \in Changes, NEW o \in Operations,
             NEW r \in Resources, NEW s \in 0..MaxTime, NEW e \in 0..MaxTime,
             Request(u, c, o, r, s, e)
      PROVE LaunchInv'
  BY <1>1 DEF Request
<1>2. ASSUME NEW u \in Users, NEW c \in Changes,
             NEW d \in {"approved", "rejected"}, DecideCheck(u, c, d)
      PROVE LaunchInv'
  BY <1>2 DEF DecideCheck
<1>3. ASSUME NEW u \in Users, NEW c \in Changes,
             NEW d \in {"approved", "rejected"}, DecideExpired(u, c, d)
      PROVE LaunchInv'
  BY <1>3 DEF DecideExpired
<1>4. CASE DecideCommit
  BY <1>4 DEF DecideCommit
<1>5. ASSUME NEW u \in Users, NEW c \in Changes, ExecuteCheck(u, c)
      PROVE LaunchInv'
  BY <1>5 DEF ExecuteCheck
<1>6. ASSUME NEW j \in Jobs, ExecuteMark(j)
      PROVE LaunchInv'
  BY <1>6 DEF ExecuteMark
<1>7. CASE StatementFails
  BY <1>7 DEF StatementFails
<1>8. CASE ExecuteCreate
  BY <1>8 DEF ExecuteCreate, Job!Submit
<1>9. CASE ExecuteRelease
  BY <1>9 DEF ExecuteRelease
<1>10. CASE ExecuteReleaseFails
  BY <1>10 DEF ExecuteReleaseFails
<1>11. ASSUME NEW c \in Changes, NEW j \in Jobs, Complete(c, j)
      PROVE LaunchInv'
  BY <1>11 DEF Complete, OutcomeOf
<1>12. ASSUME NEW c \in Changes, NEW j \in Jobs, TrackerQuits(c, j)
      PROVE LaunchInv'
  BY <1>12 DEF TrackerQuits
<1>13. ASSUME NEW j \in Jobs, JobSettles(j)
      PROVE LaunchInv'
  BY <1>13 DEF JobSettles, Job!Settle
<1>14. ASSUME NEW j \in Jobs, JobAdvances(j)
      PROVE LaunchInv'
  BY <1>14 DEF JobAdvances, Job!Advance
<1>15. ASSUME NEW j \in Jobs, JobBegins(j)
      PROVE LaunchInv'
  BY <1>15 DEF JobBegins, Job!Begin
<1>16. ASSUME NEW j \in Jobs, JobEnds(j)
      PROVE LaunchInv'
  BY <1>16 DEF JobEnds, Job!End
<1>17. CASE Tick
  BY <1>17 DEF Tick
<1>18. CASE Restart
  BY <1>18 DEF Restart
<1>19. CASE UNCHANGED vars
  BY <1>19 DEF vars
<1> HIDE DEF LaunchInv
<1> HIDE ChangeConstants DEF TypeOK, ChangeStatus, Undecided, Final, Handlers,
        Idle, Job!InProgress, Job!Settled, Job!RunStates, rowVars, jobVars,
            HandlerInv, LaunchInv
<1> QED
  BY <1>1, <1>2, <1>3, <1>4, <1>5, <1>6, <1>7, <1>8, <1>9, <1>10, <1>11,
     <1>12, <1>13, <1>14, <1>15, <1>16, <1>17, <1>18, <1>19
     DEF Next, HandlerSteps

\* Only an execution that ended well becomes a success.
LEMMA SuccessStep ==
    TypeOK /\ HandlerInv /\ SuccessInv /\ [Next]_vars
        => SuccessInv'
<1> SUFFICES ASSUME TypeOK, HandlerInv, SuccessInv, [Next]_vars
        PROVE SuccessInv'
  OBVIOUS
<1> USE ChangeConstants DEF TypeOK, ChangeStatus, Undecided, Final, Handlers,
        Idle, Job!InProgress, Job!Settled, Job!RunStates, rowVars, jobVars,
            HandlerInv, SuccessInv
<1>1. ASSUME NEW u \in Users, NEW c \in Changes, NEW o \in Operations,
             NEW r \in Resources, NEW s \in 0..MaxTime, NEW e \in 0..MaxTime,
             Request(u, c, o, r, s, e)
      PROVE SuccessInv'
  BY <1>1 DEF Request
<1>2. ASSUME NEW u \in Users, NEW c \in Changes,
             NEW d \in {"approved", "rejected"}, DecideCheck(u, c, d)
      PROVE SuccessInv'
  BY <1>2 DEF DecideCheck
<1>3. ASSUME NEW u \in Users, NEW c \in Changes,
             NEW d \in {"approved", "rejected"}, DecideExpired(u, c, d)
      PROVE SuccessInv'
  BY <1>3 DEF DecideExpired
<1>4. CASE DecideCommit
  BY <1>4 DEF DecideCommit
<1>5. ASSUME NEW u \in Users, NEW c \in Changes, ExecuteCheck(u, c)
      PROVE SuccessInv'
  BY <1>5 DEF ExecuteCheck
<1>6. ASSUME NEW j \in Jobs, ExecuteMark(j)
      PROVE SuccessInv'
  BY <1>6 DEF ExecuteMark
<1>7. CASE StatementFails
  BY <1>7 DEF StatementFails
<1>8. CASE ExecuteCreate
  BY <1>8 DEF ExecuteCreate, Job!Submit
<1>9. CASE ExecuteRelease
  BY <1>9 DEF ExecuteRelease
<1>10. CASE ExecuteReleaseFails
  BY <1>10 DEF ExecuteReleaseFails
<1>11. ASSUME NEW c \in Changes, NEW j \in Jobs, Complete(c, j)
      PROVE SuccessInv'
  BY <1>11 DEF Complete, OutcomeOf
<1>12. ASSUME NEW c \in Changes, NEW j \in Jobs, TrackerQuits(c, j)
      PROVE SuccessInv'
  BY <1>12 DEF TrackerQuits
<1>13. ASSUME NEW j \in Jobs, JobSettles(j)
      PROVE SuccessInv'
  BY <1>13 DEF JobSettles, Job!Settle
<1>14. ASSUME NEW j \in Jobs, JobAdvances(j)
      PROVE SuccessInv'
  BY <1>14 DEF JobAdvances, Job!Advance
<1>15. ASSUME NEW j \in Jobs, JobBegins(j)
      PROVE SuccessInv'
  BY <1>15 DEF JobBegins, Job!Begin
<1>16. ASSUME NEW j \in Jobs, JobEnds(j)
      PROVE SuccessInv'
  BY <1>16 DEF JobEnds, Job!End
<1>17. CASE Tick
  BY <1>17 DEF Tick
<1>18. CASE Restart
  BY <1>18 DEF Restart
<1>19. CASE UNCHANGED vars
  BY <1>19 DEF vars
<1> HIDE ChangeConstants DEF TypeOK, ChangeStatus, Undecided, Final, Handlers,
        Idle, Job!InProgress, Job!Settled, Job!RunStates, rowVars, jobVars,
            HandlerInv, SuccessInv
<1> QED
  BY <1>1, <1>2, <1>3, <1>4, <1>5, <1>6, <1>7, <1>8, <1>9, <1>10, <1>11,
     <1>12, <1>13, <1>14, <1>15, <1>16, <1>17, <1>18, <1>19
     DEF Next, HandlerSteps

\* A recorded outcome stays the outcome of the job.
LEMMA OutcomeStep ==
    TypeOK /\ HandlerInv /\ LaunchInv /\ SuccessInv /\ OutcomeAgrees
        /\ [Next]_vars
        => OutcomeAgrees'
<1> SUFFICES ASSUME TypeOK, HandlerInv, LaunchInv, SuccessInv, OutcomeAgrees,
        [Next]_vars PROVE OutcomeAgrees'
  OBVIOUS
<1> USE ChangeConstants DEF TypeOK, ChangeStatus, Undecided, Final, Handlers,
        Idle, Job!InProgress, Job!Settled, Job!RunStates, rowVars, jobVars,
        HandlerInv, LaunchInv, SuccessInv, OutcomeAgrees
<1>1. ASSUME NEW u \in Users, NEW c \in Changes, NEW o \in Operations,
             NEW r \in Resources, NEW s \in 0..MaxTime, NEW e \in 0..MaxTime,
             Request(u, c, o, r, s, e)
      PROVE OutcomeAgrees'
  BY <1>1 DEF Request
<1>2. ASSUME NEW u \in Users, NEW c \in Changes,
             NEW d \in {"approved", "rejected"}, DecideCheck(u, c, d)
      PROVE OutcomeAgrees'
  BY <1>2 DEF DecideCheck
<1>3. ASSUME NEW u \in Users, NEW c \in Changes,
             NEW d \in {"approved", "rejected"}, DecideExpired(u, c, d)
      PROVE OutcomeAgrees'
  BY <1>3 DEF DecideExpired
<1>4. CASE DecideCommit
  BY <1>4 DEF DecideCommit
<1>5. ASSUME NEW u \in Users, NEW c \in Changes, ExecuteCheck(u, c)
      PROVE OutcomeAgrees'
  BY <1>5 DEF ExecuteCheck
<1>6. ASSUME NEW j \in Jobs, ExecuteMark(j)
      PROVE OutcomeAgrees'
  BY <1>6 DEF ExecuteMark
<1>7. CASE StatementFails
  BY <1>7 DEF StatementFails
<1>8. CASE ExecuteCreate
  BY <1>8 DEF ExecuteCreate, Job!Submit
<1>9. CASE ExecuteRelease
  BY <1>9 DEF ExecuteRelease
<1>10. CASE ExecuteReleaseFails
  BY <1>10 DEF ExecuteReleaseFails
<1>11. ASSUME NEW c \in Changes, NEW j \in Jobs, Complete(c, j)
      PROVE OutcomeAgrees'
  BY <1>11 DEF Complete, OutcomeOf
<1>12. ASSUME NEW c \in Changes, NEW j \in Jobs, TrackerQuits(c, j)
      PROVE OutcomeAgrees'
  BY <1>12 DEF TrackerQuits
<1>13. ASSUME NEW j \in Jobs, JobSettles(j)
      PROVE OutcomeAgrees'
  BY <1>13 DEF JobSettles, Job!Settle
<1>14. ASSUME NEW j \in Jobs, JobAdvances(j)
      PROVE OutcomeAgrees'
  BY <1>14 DEF JobAdvances, Job!Advance
<1>15. ASSUME NEW j \in Jobs, JobBegins(j)
      PROVE OutcomeAgrees'
  BY <1>15 DEF JobBegins, Job!Begin
<1>16. ASSUME NEW j \in Jobs, JobEnds(j)
      PROVE OutcomeAgrees'
  BY <1>16 DEF JobEnds, Job!End
<1>17. CASE Tick
  BY <1>17 DEF Tick
<1>18. CASE Restart
  BY <1>18 DEF Restart
<1>19. CASE UNCHANGED vars
  BY <1>19 DEF vars
<1> HIDE ChangeConstants DEF TypeOK, ChangeStatus, Undecided, Final, Handlers,
        Idle, Job!InProgress, Job!Settled, Job!RunStates, rowVars, jobVars,
        HandlerInv, LaunchInv, SuccessInv, OutcomeAgrees
<1> QED
  BY <1>1, <1>2, <1>3, <1>4, <1>5, <1>6, <1>7, <1>8, <1>9, <1>10, <1>11,
     <1>12, <1>13, <1>14, <1>15, <1>16, <1>17, <1>18, <1>19
     DEF Next, HandlerSteps

\* Windows do not move and the clock does not go back.
LEMMA OpenedStep ==
    TypeOK /\ HandlerInv /\ OpenedInv /\ [Next]_vars
        => OpenedInv'
<1> SUFFICES ASSUME TypeOK, HandlerInv, OpenedInv, [Next]_vars PROVE OpenedInv'
  OBVIOUS
<1> USE ChangeConstants DEF TypeOK, ChangeStatus, Undecided, Final, Handlers,
        Idle, Job!InProgress, Job!Settled, Job!RunStates, rowVars, jobVars,
            HandlerInv, OpenedInv,
        RequiresWindow, WindowOpen
<1>1. ASSUME NEW u \in Users, NEW c \in Changes, NEW o \in Operations,
             NEW r \in Resources, NEW s \in 0..MaxTime, NEW e \in 0..MaxTime,
             Request(u, c, o, r, s, e)
      PROVE OpenedInv'
  BY <1>1 DEF Request
<1>2. ASSUME NEW u \in Users, NEW c \in Changes,
             NEW d \in {"approved", "rejected"}, DecideCheck(u, c, d)
      PROVE OpenedInv'
  BY <1>2 DEF DecideCheck
<1>3. ASSUME NEW u \in Users, NEW c \in Changes,
             NEW d \in {"approved", "rejected"}, DecideExpired(u, c, d)
      PROVE OpenedInv'
  BY <1>3 DEF DecideExpired
<1>4. CASE DecideCommit
  BY <1>4 DEF DecideCommit
<1>5. ASSUME NEW u \in Users, NEW c \in Changes, ExecuteCheck(u, c)
      PROVE OpenedInv'
  BY <1>5 DEF ExecuteCheck
<1>6. ASSUME NEW j \in Jobs, ExecuteMark(j)
      PROVE OpenedInv'
  BY <1>6 DEF ExecuteMark
<1>7. CASE StatementFails
  BY <1>7 DEF StatementFails
<1>8. CASE ExecuteCreate
  BY <1>8 DEF ExecuteCreate, Job!Submit
<1>9. CASE ExecuteRelease
  BY <1>9 DEF ExecuteRelease
<1>10. CASE ExecuteReleaseFails
  BY <1>10 DEF ExecuteReleaseFails
<1>11. ASSUME NEW c \in Changes, NEW j \in Jobs, Complete(c, j)
      PROVE OpenedInv'
  BY <1>11 DEF Complete, OutcomeOf
<1>12. ASSUME NEW c \in Changes, NEW j \in Jobs, TrackerQuits(c, j)
      PROVE OpenedInv'
  BY <1>12 DEF TrackerQuits
<1>13. ASSUME NEW j \in Jobs, JobSettles(j)
      PROVE OpenedInv'
  BY <1>13 DEF JobSettles, Job!Settle
<1>14. ASSUME NEW j \in Jobs, JobAdvances(j)
      PROVE OpenedInv'
  BY <1>14 DEF JobAdvances, Job!Advance
<1>15. ASSUME NEW j \in Jobs, JobBegins(j)
      PROVE OpenedInv'
  BY <1>15 DEF JobBegins, Job!Begin
<1>16. ASSUME NEW j \in Jobs, JobEnds(j)
      PROVE OpenedInv'
  BY <1>16 DEF JobEnds, Job!End
<1>17. CASE Tick
  BY <1>17 DEF Tick
<1>18. CASE Restart
  BY <1>18 DEF Restart
<1>19. CASE UNCHANGED vars
  BY <1>19 DEF vars
<1> HIDE ChangeConstants DEF TypeOK, ChangeStatus, Undecided, Final, Handlers,
        Idle, Job!InProgress, Job!Settled, Job!RunStates, rowVars, jobVars,
            HandlerInv, OpenedInv,
        RequiresWindow, WindowOpen
<1> QED
  BY <1>1, <1>2, <1>3, <1>4, <1>5, <1>6, <1>7, <1>8, <1>9, <1>10, <1>11,
     <1>12, <1>13, <1>14, <1>15, <1>16, <1>17, <1>18, <1>19
     DEF Next, HandlerSteps

\* What DecisionFinal says of one step.
DecisionKept ==
    \A c \in Changes :
        /\ status[c] \in {"rejected", "expired"} \cup Final =>
              status'[c] = status[c]
        /\ approver[c] # NoUser =>
              approver'[c] = approver[c] /\ status'[c] \notin Undecided

\* No step changes a decided request except towards its execution.
LEMMA DecisionStep ==
    TypeOK /\ HandlerInv /\ RowInv /\ [Next]_vars => DecisionKept
<1> SUFFICES ASSUME TypeOK, HandlerInv, RowInv, [Next]_vars PROVE DecisionKept
  OBVIOUS
<1> USE ChangeConstants DEF TypeOK, ChangeStatus, Undecided, Final, Handlers,
        Idle, Job!InProgress, Job!Settled, Job!RunStates, rowVars, jobVars,
        HandlerInv, RowInv, DecisionKept
<1>1. ASSUME NEW u \in Users, NEW c \in Changes, NEW o \in Operations,
             NEW r \in Resources, NEW s \in 0..MaxTime, NEW e \in 0..MaxTime,
             Request(u, c, o, r, s, e)
      PROVE DecisionKept
  BY <1>1 DEF Request
<1>2. ASSUME NEW u \in Users, NEW c \in Changes,
             NEW d \in {"approved", "rejected"}, DecideCheck(u, c, d)
      PROVE DecisionKept
  BY <1>2 DEF DecideCheck
<1>3. ASSUME NEW u \in Users, NEW c \in Changes,
             NEW d \in {"approved", "rejected"}, DecideExpired(u, c, d)
      PROVE DecisionKept
  BY <1>3 DEF DecideExpired
<1>4. CASE DecideCommit
  BY <1>4 DEF DecideCommit
<1>5. ASSUME NEW u \in Users, NEW c \in Changes, ExecuteCheck(u, c)
      PROVE DecisionKept
  BY <1>5 DEF ExecuteCheck
<1>6. ASSUME NEW j \in Jobs, ExecuteMark(j)
      PROVE DecisionKept
  BY <1>6 DEF ExecuteMark
<1>7. CASE StatementFails
  BY <1>7 DEF StatementFails
<1>8. CASE ExecuteCreate
  BY <1>8 DEF ExecuteCreate, Job!Submit
<1>9. CASE ExecuteRelease
  BY <1>9 DEF ExecuteRelease
<1>10. CASE ExecuteReleaseFails
  BY <1>10 DEF ExecuteReleaseFails
<1>11. ASSUME NEW c \in Changes, NEW j \in Jobs, Complete(c, j)
      PROVE DecisionKept
  BY <1>11 DEF Complete, OutcomeOf
<1>12. ASSUME NEW c \in Changes, NEW j \in Jobs, TrackerQuits(c, j)
      PROVE DecisionKept
  BY <1>12 DEF TrackerQuits
<1>13. ASSUME NEW j \in Jobs, JobSettles(j)
      PROVE DecisionKept
  BY <1>13 DEF JobSettles, Job!Settle
<1>14. ASSUME NEW j \in Jobs, JobAdvances(j)
      PROVE DecisionKept
  BY <1>14 DEF JobAdvances, Job!Advance
<1>15. ASSUME NEW j \in Jobs, JobBegins(j)
      PROVE DecisionKept
  BY <1>15 DEF JobBegins, Job!Begin
<1>16. ASSUME NEW j \in Jobs, JobEnds(j)
      PROVE DecisionKept
  BY <1>16 DEF JobEnds, Job!End
<1>17. CASE Tick
  BY <1>17 DEF Tick
<1>18. CASE Restart
  BY <1>18 DEF Restart
<1>19. CASE UNCHANGED vars
  BY <1>19 DEF vars
<1> HIDE DEF DecisionKept
<1> HIDE ChangeConstants DEF TypeOK, ChangeStatus, Undecided, Final, Handlers,
        Idle, Job!InProgress, Job!Settled, Job!RunStates, rowVars, jobVars,
        HandlerInv, RowInv, DecisionKept
<1> QED
  BY <1>1, <1>2, <1>3, <1>4, <1>5, <1>6, <1>7, <1>8, <1>9, <1>10, <1>11,
     <1>12, <1>13, <1>14, <1>15, <1>16, <1>17, <1>18, <1>19
     DEF Next, HandlerSteps

\* What LateApprovalIsVoid says of one step.
LateKept == \A c \in Changes : Late(c) => Late(c)' /\ jobOf'[c] = NoJob

\* No step takes a late change up again: a handler that works on a change has
\* compared its window before, and none begins to.
LEMMA LateStep ==
    TypeOK /\ HandlerInv /\ RowInv /\ [Next]_vars => LateKept
<1> SUFFICES ASSUME TypeOK, HandlerInv, RowInv, [Next]_vars PROVE LateKept
  OBVIOUS
<1> USE ChangeConstants DEF TypeOK, ChangeStatus, Undecided, Final, Handlers,
        Idle, Job!InProgress, Job!Settled, Job!RunStates, rowVars, jobVars,
        HandlerInv, RowInv, LateKept, Late, RequiresWindow
<1>1. ASSUME NEW u \in Users, NEW c \in Changes, NEW o \in Operations,
             NEW r \in Resources, NEW s \in 0..MaxTime, NEW e \in 0..MaxTime,
             Request(u, c, o, r, s, e)
      PROVE LateKept
  BY <1>1 DEF Request
<1>2. ASSUME NEW u \in Users, NEW c \in Changes,
             NEW d \in {"approved", "rejected"}, DecideCheck(u, c, d)
      PROVE LateKept
  BY <1>2 DEF DecideCheck
<1>3. ASSUME NEW u \in Users, NEW c \in Changes,
             NEW d \in {"approved", "rejected"}, DecideExpired(u, c, d)
      PROVE LateKept
  BY <1>3 DEF DecideExpired
<1>4. CASE DecideCommit
  BY <1>4 DEF DecideCommit
<1>5. ASSUME NEW u \in Users, NEW c \in Changes, ExecuteCheck(u, c)
      PROVE LateKept
  BY <1>5 DEF ExecuteCheck, WindowOpen
<1>6. ASSUME NEW j \in Jobs, ExecuteMark(j)
      PROVE LateKept
  BY <1>6 DEF ExecuteMark
<1>7. CASE StatementFails
  BY <1>7 DEF StatementFails
<1>8. CASE ExecuteCreate
  BY <1>8 DEF ExecuteCreate, Job!Submit
<1>9. CASE ExecuteRelease
  BY <1>9 DEF ExecuteRelease
<1>10. CASE ExecuteReleaseFails
  BY <1>10 DEF ExecuteReleaseFails
<1>11. ASSUME NEW c \in Changes, NEW j \in Jobs, Complete(c, j)
      PROVE LateKept
  BY <1>11 DEF Complete, OutcomeOf
<1>12. ASSUME NEW c \in Changes, NEW j \in Jobs, TrackerQuits(c, j)
      PROVE LateKept
  BY <1>12 DEF TrackerQuits
<1>13. ASSUME NEW j \in Jobs, JobSettles(j)
      PROVE LateKept
  BY <1>13 DEF JobSettles, Job!Settle
<1>14. ASSUME NEW j \in Jobs, JobAdvances(j)
      PROVE LateKept
  BY <1>14 DEF JobAdvances, Job!Advance
<1>15. ASSUME NEW j \in Jobs, JobBegins(j)
      PROVE LateKept
  BY <1>15 DEF JobBegins, Job!Begin
<1>16. ASSUME NEW j \in Jobs, JobEnds(j)
      PROVE LateKept
  BY <1>16 DEF JobEnds, Job!End
<1>17. CASE Tick
  BY <1>17 DEF Tick
<1>18. CASE Restart
  BY <1>18 DEF Restart
<1>19. CASE UNCHANGED vars
  BY <1>19 DEF vars
<1> HIDE DEF LateKept
<1> HIDE ChangeConstants DEF TypeOK, ChangeStatus, Undecided, Final, Handlers,
        Idle, Job!InProgress, Job!Settled, Job!RunStates, rowVars, jobVars,
        HandlerInv, RowInv, LateKept, Late, RequiresWindow
<1> QED
  BY <1>1, <1>2, <1>3, <1>4, <1>5, <1>6, <1>7, <1>8, <1>9, <1>10, <1>11,
     <1>12, <1>13, <1>14, <1>15, <1>16, <1>17, <1>18, <1>19
     DEF Next, HandlerSteps

\* The conjunction is inductive.
LEMMA ChangeInvariant ==
    Spec => [](/\ TypeOK /\ HandlerInv /\ RowInv /\ ApprovedInv /\ LaunchInv
              /\ SuccessInv /\ OutcomeAgrees /\ OpenedInv)
<1> DEFINE IInv == /\ TypeOK /\ HandlerInv /\ RowInv /\ ApprovedInv /\ LaunchInv
                   /\ SuccessInv /\ OutcomeAgrees /\ OpenedInv
<1>1. Init => IInv
  <2> SUFFICES ASSUME Init PROVE IInv
    OBVIOUS
  <2> USE ChangeConstants DEF Init, Job!Init, Idle
  <2>1. TypeOK
    BY DEF TypeOK, ChangeStatus, Handlers, Job!RunStates
  <2>2. HandlerInv /\ RowInv
    BY DEF HandlerInv, RowInv
  <2>3. ApprovedInv /\ OutcomeAgrees /\ OpenedInv
    BY DEF ApprovedInv, OutcomeAgrees, OpenedInv, Final
  <2>4. LaunchInv /\ SuccessInv
    BY DEF LaunchInv, SuccessInv
  <2> QED
    BY <2>1, <2>2, <2>3, <2>4
<1>2. IInv /\ [Next]_vars => IInv'
  BY TypeStep, HandlerStep, RowStep, ApprovedStep, LaunchStep, SuccessStep,
     OutcomeStep, OpenedStep
<1> QED
  BY <1>1, <1>2, PTL DEF Spec

-----------------------------------------------------------------------------
(***************************************************************************)
(* Theorems.                                                               *)
(***************************************************************************)

\* The rows, the handler, the trackers and the jobs keep their types.
THEOREM ChangeTypeCorrect == Spec => []TypeOK
BY ChangeInvariant, PTL

\* A job for a gated operation exists only after somebody other than the
\* requester approved it: Approve, the status guards of the store and the
\* exclusion of handlers by idemMu together.
THEOREM SeparationTheorem == Spec => []SeparationOfDuties
<1>1. LaunchInv /\ ApprovedInv => SeparationOfDuties
  BY DEF LaunchInv, ApprovedInv, SeparationOfDuties, RequiresSeparation,
         RequiresApproval
<1> QED
  BY <1>1, ChangeInvariant, PTL

\* An approval is spent by the one job it launches, across crashes and failed
\* statements of executeChangeRequest.
THEOREM OneExecutionTheorem == Spec => []OneExecutionPerApproval
<1>1. LaunchInv => OneExecutionPerApproval
  BY DEF LaunchInv, OneExecutionPerApproval
<1> QED
  BY <1>1, ChangeInvariant, PTL

\* The outcome trackChangeRequest records is the outcome of the job.
THEOREM OutcomeTheorem == Spec => []OutcomeAgrees
BY ChangeInvariant, PTL

\* No interleaving of handlers, trackers, jobs and crashes takes a decision or
\* an outcome back.
THEOREM DecisionTheorem == Spec => DecisionFinal
<1>1. TypeOK /\ HandlerInv /\ RowInv /\ [Next]_vars =>
        [\A c \in Changes :
          /\ status[c] \in {"rejected", "expired"} \cup Final =>
                status'[c] = status[c]
          /\ approver[c] # NoUser =>
                approver'[c] = approver[c] /\ status'[c] \notin Undecided]_vars
  BY DecisionStep DEF DecisionKept
<1> QED
  BY <1>1, ChangeInvariant, PTL DEF Spec, DecisionFinal

\* The agent is never started before the maintenance window opened.
THEOREM WindowTheorem == Spec => NeverBeforeWindow
<1>1. LaunchInv /\ OpenedInv /\ [Next]_vars =>
        [\A c \in Changes, j \in Jobs :
          /\ <<c, j>> \in launched
          /\ RequiresWindow(op[c])
          /\ jobRun[j] = "idle" /\ jobRun'[j] = "active"
          => opens[c] <= now]_vars
  BY DEF LaunchInv, OpenedInv
<1> QED
  BY <1>1, ChangeInvariant, PTL DEF Spec, NeverBeforeWindow

\* An approval past its expiry never launches anything, also when it was
\* recorded after the expiry it had been compared with.
THEOREM LateTheorem == Spec => LateApprovalIsVoid
<1>1. TypeOK /\ HandlerInv /\ RowInv /\ [Next]_vars =>
        [\A c \in Changes : Late(c) => Late(c)' /\ jobOf'[c] = NoJob]_vars
  BY LateStep DEF LateKept
<1> QED
  BY <1>1, ChangeInvariant, PTL DEF Spec, LateApprovalIsVoid
=============================================================================
