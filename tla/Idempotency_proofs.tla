------------------------- MODULE Idempotency_proofs -------------------------
(***************************************************************************)
(* Proofs about Idempotency, for any requests, keys, actors, bodies and    *)
(* time to live.                                                           *)
(***************************************************************************)
EXTENDS Idempotency, TLAPS

\* The control points between the lookup and the return.
Working == {"purge", "insert", "handling", "complete", "release"}

\* idemMu is held by the request that works, and until a request returns at
\* most the timeout has answered it.
MutexInv ==
    \A r \in Requests :
        /\ pc[r] \in Working <=> mutex = r
        /\ pc[r] # "done" => told[r] \in {"nothing", "timeout"}

\* A place without a row holds nothing, and a response in a row was produced,
\* without an error, by a request for that key, actor and content that has
\* returned.
RowInv ==
    \A s \in Slots :
        /\ hash[s] = NoBody => response[s] = NoRequest /\ expires[s] = 0
        /\ response[s] # NoRequest =>
              /\ pc[response[s]] = "done"
              /\ slot[response[s]] = s
              /\ body[response[s]] = hash[s]
              /\ told[response[s]] # "error"

\* What the request that works knows of its row, however long it takes.
WorkInv ==
    \A r \in Requests :
        /\ until[r] <= now + TTL
        /\ pc[r] = "purge" => ~Live(slot[r])
        /\ pc[r] = "insert" => hash[slot[r]] = NoBody
        /\ pc[r] \in {"handling", "complete", "release"} =>
              /\ hash[slot[r]] = body[r]
              /\ response[slot[r]] = NoRequest
              /\ expires[slot[r]] = until[r]

\* An effect is covered by a row until its reservation has run out ...
Covered(q) ==
    \/ until[q] <= now
    \/ hash[slot[q]] # NoBody /\ expires[slot[q]] >= until[q]

\* ... so that whoever works on its key reserved it a whole TTL later.
EffectInv ==
    /\ \A q \in effect : pc[q] \in {"complete", "done"} /\ Covered(q)
    /\ \A q \in effect, r \in Requests :
          pc[r] \in Working /\ q # r /\ slot[q] = slot[r] =>
              until[q] + TTL <= until[r]

\* A response that was sent is in its row until the reservation has run out.
FreshInv ==
    \A r \in Requests : told[r] = "fresh" =>
        /\ pc[r] = "done"
        /\ \/ until[r] <= now
           \/ response[slot[r]] = r /\ expires[slot[r]] = until[r]

\* A response that was sent again came from a row.
ReplayInv ==
    \A r \in Requests : told[r] = "replayed" =>
        /\ result[r] \in Requests
        /\ pc[result[r]] = "done"
        /\ slot[result[r]] = slot[r]
        /\ body[result[r]] = body[r]
        /\ told[result[r]] # "error"

\* Every step keeps the types.
LEMMA TypeStep ==
    TypeOK /\ [Next]_vars
        => TypeOK'
<1> SUFFICES ASSUME TypeOK, [Next]_vars PROVE TypeOK'
  OBVIOUS
<1> USE IdempotencyConstants DEF TypeOK, Told, ControlPoints, rowVars,
        requestVars, answerVars
<1>1. ASSUME NEW r \in Requests, Arrive(r)
      PROVE  TypeOK'
  BY <1>1 DEF Arrive
<1>2. ASSUME NEW r \in Requests, Timeout(r)
      PROVE  TypeOK'
  BY <1>2 DEF Timeout, Tell
<1>3. ASSUME NEW r \in Requests, LookupFound(r)
      PROVE  TypeOK'
  BY <1>3 DEF LookupFound, Return, Tell, Recorded, Live
<1>4. ASSUME NEW r \in Requests, LookupNoRows(r)
      PROVE  TypeOK'
  BY <1>4 DEF LookupNoRows, Live
<1>5. ASSUME NEW r \in Requests, LookupFails(r)
      PROVE  TypeOK'
  BY <1>5 DEF LookupFails, Return, Tell, Fault
<1>6. ASSUME NEW r \in Requests, ReservePurge(r)
      PROVE  TypeOK'
  BY <1>6 DEF ReservePurge, Delete
<1>7. ASSUME NEW r \in Requests, ReserveInsert(r)
      PROVE  TypeOK'
  BY <1>7 DEF ReserveInsert
<1>8. ASSUME NEW r \in Requests, ReserveFails(r)
      PROVE  TypeOK'
  BY <1>8 DEF ReserveFails, Return, Tell, Fault
<1>9. ASSUME NEW r \in Requests, HandlerAccepts(r)
      PROVE  TypeOK'
  BY <1>9 DEF HandlerAccepts
<1>10. ASSUME NEW r \in Requests, HandlerRefuses(r)
      PROVE  TypeOK'
  BY <1>10 DEF HandlerRefuses
<1>11. ASSUME NEW r \in Requests, HandlerErrors(r)
      PROVE  TypeOK'
  BY <1>11 DEF HandlerErrors
<1>12. ASSUME NEW r \in Requests, HandlerPanics(r)
      PROVE  TypeOK'
  BY <1>12 DEF HandlerPanics, Return, Tell, Fault
<1>13. ASSUME NEW r \in Requests, Complete(r)
      PROVE  TypeOK'
  BY <1>13 DEF Complete, Return, Tell, Pending
<1>14. ASSUME NEW r \in Requests, CompleteFails(r)
      PROVE  TypeOK'
  BY <1>14 DEF CompleteFails, Return, Tell, Fault
<1>15. ASSUME NEW r \in Requests, Release(r)
      PROVE  TypeOK'
  BY <1>15 DEF Release, Return, Tell, Pending, Delete
<1>16. ASSUME NEW r \in Requests, ReleaseFails(r)
      PROVE  TypeOK'
  BY <1>16 DEF ReleaseFails, Return, Tell, Fault
<1>17. CASE Restart
  BY <1>17 DEF Restart, Fault
<1>18. CASE Tick
  BY <1>18 DEF Tick
<1>19. CASE UNCHANGED vars
  BY <1>19 DEF vars
<1> HIDE IdempotencyConstants DEF TypeOK, Told, ControlPoints, rowVars,
        requestVars, answerVars
<1> QED
  BY <1>1, <1>2, <1>3, <1>4, <1>5, <1>6, <1>7, <1>8, <1>9, <1>10, <1>11,
      <1>12, <1>13, <1>14, <1>15, <1>16, <1>17, <1>18, <1>19 DEF Next, Handler

\* The mutex is taken with the lookup and given back with the return.
LEMMA MutexStep ==
    TypeOK /\ MutexInv /\ [Next]_vars
        => MutexInv'
<1> SUFFICES ASSUME TypeOK, MutexInv, [Next]_vars PROVE MutexInv'
  OBVIOUS
<1> USE IdempotencyConstants DEF TypeOK, Told, ControlPoints, rowVars,
        requestVars, answerVars, MutexInv, Working
<1>1. ASSUME NEW r \in Requests, Arrive(r)
      PROVE  MutexInv'
  BY <1>1 DEF Arrive
<1>2. ASSUME NEW r \in Requests, Timeout(r)
      PROVE  MutexInv'
  BY <1>2 DEF Timeout, Tell
<1>3. ASSUME NEW r \in Requests, LookupFound(r)
      PROVE  MutexInv'
  BY <1>3 DEF LookupFound, Return, Tell, Recorded, Live
<1>4. ASSUME NEW r \in Requests, LookupNoRows(r)
      PROVE  MutexInv'
  BY <1>4 DEF LookupNoRows, Live
<1>5. ASSUME NEW r \in Requests, LookupFails(r)
      PROVE  MutexInv'
  BY <1>5 DEF LookupFails, Return, Tell, Fault
<1>6. ASSUME NEW r \in Requests, ReservePurge(r)
      PROVE  MutexInv'
  BY <1>6 DEF ReservePurge, Delete
<1>7. ASSUME NEW r \in Requests, ReserveInsert(r)
      PROVE  MutexInv'
  BY <1>7 DEF ReserveInsert
<1>8. ASSUME NEW r \in Requests, ReserveFails(r)
      PROVE  MutexInv'
  BY <1>8 DEF ReserveFails, Return, Tell, Fault
<1>9. ASSUME NEW r \in Requests, HandlerAccepts(r)
      PROVE  MutexInv'
  BY <1>9 DEF HandlerAccepts
<1>10. ASSUME NEW r \in Requests, HandlerRefuses(r)
      PROVE  MutexInv'
  BY <1>10 DEF HandlerRefuses
<1>11. ASSUME NEW r \in Requests, HandlerErrors(r)
      PROVE  MutexInv'
  BY <1>11 DEF HandlerErrors
<1>12. ASSUME NEW r \in Requests, HandlerPanics(r)
      PROVE  MutexInv'
  BY <1>12 DEF HandlerPanics, Return, Tell, Fault
<1>13. ASSUME NEW r \in Requests, Complete(r)
      PROVE  MutexInv'
  BY <1>13 DEF Complete, Return, Tell, Pending
<1>14. ASSUME NEW r \in Requests, CompleteFails(r)
      PROVE  MutexInv'
  BY <1>14 DEF CompleteFails, Return, Tell, Fault
<1>15. ASSUME NEW r \in Requests, Release(r)
      PROVE  MutexInv'
  BY <1>15 DEF Release, Return, Tell, Pending, Delete
<1>16. ASSUME NEW r \in Requests, ReleaseFails(r)
      PROVE  MutexInv'
  BY <1>16 DEF ReleaseFails, Return, Tell, Fault
<1>17. CASE Restart
  BY <1>17 DEF Restart, Fault
<1>18. CASE Tick
  BY <1>18 DEF Tick
<1>19. CASE UNCHANGED vars
  BY <1>19 DEF vars
<1> HIDE IdempotencyConstants DEF TypeOK, Told, ControlPoints, rowVars,
        requestVars, answerVars, MutexInv, Working
<1> QED
  BY <1>1, <1>2, <1>3, <1>4, <1>5, <1>6, <1>7, <1>8, <1>9, <1>10, <1>11,
      <1>12, <1>13, <1>14, <1>15, <1>16, <1>17, <1>18, <1>19 DEF Next, Handler

\* Only a request that completes puts a response into its row.
LEMMA RowStep ==
    TypeOK /\ MutexInv /\ RowInv /\ [Next]_vars
        => RowInv'
<1> SUFFICES ASSUME TypeOK, MutexInv, RowInv, [Next]_vars PROVE RowInv'
  OBVIOUS
<1> USE IdempotencyConstants DEF TypeOK, Told, ControlPoints, rowVars,
        requestVars, answerVars, MutexInv, RowInv
<1>1. ASSUME NEW r \in Requests, Arrive(r)
      PROVE  RowInv'
  BY <1>1 DEF Arrive
<1>2. ASSUME NEW r \in Requests, Timeout(r)
      PROVE  RowInv'
  BY <1>2 DEF Timeout, Tell
<1>3. ASSUME NEW r \in Requests, LookupFound(r)
      PROVE  RowInv'
  BY <1>3 DEF LookupFound, Return, Tell, Recorded, Live
<1>4. ASSUME NEW r \in Requests, LookupNoRows(r)
      PROVE  RowInv'
  BY <1>4 DEF LookupNoRows, Live
<1>5. ASSUME NEW r \in Requests, LookupFails(r)
      PROVE  RowInv'
  BY <1>5 DEF LookupFails, Return, Tell, Fault
<1>6. ASSUME NEW r \in Requests, ReservePurge(r)
      PROVE  RowInv'
  BY <1>6 DEF ReservePurge, Delete
<1>7. ASSUME NEW r \in Requests, ReserveInsert(r)
      PROVE  RowInv'
  BY <1>7 DEF ReserveInsert
<1>8. ASSUME NEW r \in Requests, ReserveFails(r)
      PROVE  RowInv'
  BY <1>8 DEF ReserveFails, Return, Tell, Fault
<1>9. ASSUME NEW r \in Requests, HandlerAccepts(r)
      PROVE  RowInv'
  BY <1>9 DEF HandlerAccepts
<1>10. ASSUME NEW r \in Requests, HandlerRefuses(r)
      PROVE  RowInv'
  BY <1>10 DEF HandlerRefuses
<1>11. ASSUME NEW r \in Requests, HandlerErrors(r)
      PROVE  RowInv'
  BY <1>11 DEF HandlerErrors
<1>12. ASSUME NEW r \in Requests, HandlerPanics(r)
      PROVE  RowInv'
  BY <1>12 DEF HandlerPanics, Return, Tell, Fault
<1>13. ASSUME NEW r \in Requests, Complete(r)
      PROVE  RowInv'
  BY <1>13 DEF Complete, Return, Tell, Pending
<1>14. ASSUME NEW r \in Requests, CompleteFails(r)
      PROVE  RowInv'
  BY <1>14 DEF CompleteFails, Return, Tell, Fault
<1>15. ASSUME NEW r \in Requests, Release(r)
      PROVE  RowInv'
  BY <1>15 DEF Release, Return, Tell, Pending, Delete
<1>16. ASSUME NEW r \in Requests, ReleaseFails(r)
      PROVE  RowInv'
  BY <1>16 DEF ReleaseFails, Return, Tell, Fault
<1>17. CASE Restart
  BY <1>17 DEF Restart, Fault
<1>18. CASE Tick
  BY <1>18 DEF Tick
<1>19. CASE UNCHANGED vars
  BY <1>19 DEF vars
<1> HIDE IdempotencyConstants DEF TypeOK, Told, ControlPoints, rowVars,
        requestVars, answerVars, MutexInv, RowInv
<1> QED
  BY <1>1, <1>2, <1>3, <1>4, <1>5, <1>6, <1>7, <1>8, <1>9, <1>10, <1>11,
      <1>12, <1>13, <1>14, <1>15, <1>16, <1>17, <1>18, <1>19 DEF Next, Handler

\* Nobody else touches the row of the request that works.
LEMMA WorkStep ==
    TypeOK /\ MutexInv /\ RowInv /\ WorkInv /\ [Next]_vars
        => WorkInv'
<1> SUFFICES ASSUME TypeOK, MutexInv, RowInv, WorkInv, [Next]_vars PROVE
        WorkInv'
  OBVIOUS
<1> USE IdempotencyConstants DEF TypeOK, Told, ControlPoints, rowVars,
        requestVars, answerVars, MutexInv, RowInv, WorkInv, Working, Live
<1>1. ASSUME NEW r \in Requests, Arrive(r)
      PROVE  WorkInv'
  BY <1>1 DEF Arrive
<1>2. ASSUME NEW r \in Requests, Timeout(r)
      PROVE  WorkInv'
  BY <1>2 DEF Timeout, Tell
<1>3. ASSUME NEW r \in Requests, LookupFound(r)
      PROVE  WorkInv'
  BY <1>3 DEF LookupFound, Return, Tell, Recorded, Live
<1>4. ASSUME NEW r \in Requests, LookupNoRows(r)
      PROVE  WorkInv'
  BY <1>4 DEF LookupNoRows, Live
<1>5. ASSUME NEW r \in Requests, LookupFails(r)
      PROVE  WorkInv'
  BY <1>5 DEF LookupFails, Return, Tell, Fault
<1>6. ASSUME NEW r \in Requests, ReservePurge(r)
      PROVE  WorkInv'
  BY <1>6 DEF ReservePurge, Delete
<1>7. ASSUME NEW r \in Requests, ReserveInsert(r)
      PROVE  WorkInv'
  BY <1>7 DEF ReserveInsert
<1>8. ASSUME NEW r \in Requests, ReserveFails(r)
      PROVE  WorkInv'
  BY <1>8 DEF ReserveFails, Return, Tell, Fault
<1>9. ASSUME NEW r \in Requests, HandlerAccepts(r)
      PROVE  WorkInv'
  BY <1>9 DEF HandlerAccepts
<1>10. ASSUME NEW r \in Requests, HandlerRefuses(r)
      PROVE  WorkInv'
  BY <1>10 DEF HandlerRefuses
<1>11. ASSUME NEW r \in Requests, HandlerErrors(r)
      PROVE  WorkInv'
  BY <1>11 DEF HandlerErrors
<1>12. ASSUME NEW r \in Requests, HandlerPanics(r)
      PROVE  WorkInv'
  BY <1>12 DEF HandlerPanics, Return, Tell, Fault
<1>13. ASSUME NEW r \in Requests, Complete(r)
      PROVE  WorkInv'
  BY <1>13 DEF Complete, Return, Tell, Pending
<1>14. ASSUME NEW r \in Requests, CompleteFails(r)
      PROVE  WorkInv'
  BY <1>14 DEF CompleteFails, Return, Tell, Fault
<1>15. ASSUME NEW r \in Requests, Release(r)
      PROVE  WorkInv'
  BY <1>15 DEF Release, Return, Tell, Pending, Delete
<1>16. ASSUME NEW r \in Requests, ReleaseFails(r)
      PROVE  WorkInv'
  BY <1>16 DEF ReleaseFails, Return, Tell, Fault
<1>17. CASE Restart
  BY <1>17 DEF Restart, Fault
<1>18. CASE Tick
  BY <1>18 DEF Tick
<1>19. CASE UNCHANGED vars
  BY <1>19 DEF vars
<1> HIDE IdempotencyConstants DEF TypeOK, Told, ControlPoints, rowVars,
        requestVars, answerVars, MutexInv, RowInv, WorkInv, Working, Live
<1> QED
  BY <1>1, <1>2, <1>3, <1>4, <1>5, <1>6, <1>7, <1>8, <1>9, <1>10, <1>11,
      <1>12, <1>13, <1>14, <1>15, <1>16, <1>17, <1>18, <1>19 DEF Next, Handler

\* A row that covers an effect goes only when the reservation has run out.
LEMMA EffectStep ==
    TypeOK /\ MutexInv /\ RowInv /\ WorkInv /\ EffectInv /\ [Next]_vars
        => EffectInv'
<1> SUFFICES ASSUME TypeOK, MutexInv, RowInv, WorkInv, EffectInv, [Next]_vars
        PROVE EffectInv'
  OBVIOUS
<1> USE IdempotencyConstants DEF TypeOK, Told, ControlPoints, rowVars,
        requestVars, answerVars, MutexInv, RowInv, WorkInv, EffectInv,
        Working, Live, Covered
<1>1. ASSUME NEW r \in Requests, Arrive(r)
      PROVE  EffectInv'
  BY <1>1 DEF Arrive
<1>2. ASSUME NEW r \in Requests, Timeout(r)
      PROVE  EffectInv'
  BY <1>2 DEF Timeout, Tell
<1>3. ASSUME NEW r \in Requests, LookupFound(r)
      PROVE  EffectInv'
  BY <1>3 DEF LookupFound, Return, Tell, Recorded, Live
<1>4. ASSUME NEW r \in Requests, LookupNoRows(r)
      PROVE  EffectInv'
  BY <1>4 DEF LookupNoRows, Live
<1>5. ASSUME NEW r \in Requests, LookupFails(r)
      PROVE  EffectInv'
  BY <1>5 DEF LookupFails, Return, Tell, Fault
<1>6. ASSUME NEW r \in Requests, ReservePurge(r)
      PROVE  EffectInv'
  BY <1>6 DEF ReservePurge, Delete
<1>7. ASSUME NEW r \in Requests, ReserveInsert(r)
      PROVE  EffectInv'
  BY <1>7 DEF ReserveInsert
<1>8. ASSUME NEW r \in Requests, ReserveFails(r)
      PROVE  EffectInv'
  BY <1>8 DEF ReserveFails, Return, Tell, Fault
<1>9. ASSUME NEW r \in Requests, HandlerAccepts(r)
      PROVE  EffectInv'
  BY <1>9 DEF HandlerAccepts
<1>10. ASSUME NEW r \in Requests, HandlerRefuses(r)
      PROVE  EffectInv'
  BY <1>10 DEF HandlerRefuses
<1>11. ASSUME NEW r \in Requests, HandlerErrors(r)
      PROVE  EffectInv'
  BY <1>11 DEF HandlerErrors
<1>12. ASSUME NEW r \in Requests, HandlerPanics(r)
      PROVE  EffectInv'
  BY <1>12 DEF HandlerPanics, Return, Tell, Fault
<1>13. ASSUME NEW r \in Requests, Complete(r)
      PROVE  EffectInv'
  BY <1>13 DEF Complete, Return, Tell, Pending
<1>14. ASSUME NEW r \in Requests, CompleteFails(r)
      PROVE  EffectInv'
  BY <1>14 DEF CompleteFails, Return, Tell, Fault
<1>15. ASSUME NEW r \in Requests, Release(r)
      PROVE  EffectInv'
  BY <1>15 DEF Release, Return, Tell, Pending, Delete
<1>16. ASSUME NEW r \in Requests, ReleaseFails(r)
      PROVE  EffectInv'
  BY <1>16 DEF ReleaseFails, Return, Tell, Fault
<1>17. CASE Restart
  BY <1>17 DEF Restart, Fault
<1>18. CASE Tick
  BY <1>18 DEF Tick
<1>19. CASE UNCHANGED vars
  BY <1>19 DEF vars
<1> HIDE IdempotencyConstants DEF TypeOK, Told, ControlPoints, rowVars,
        requestVars, answerVars, MutexInv, RowInv, WorkInv, EffectInv,
        Working, Live, Covered
<1> QED
  BY <1>1, <1>2, <1>3, <1>4, <1>5, <1>6, <1>7, <1>8, <1>9, <1>10, <1>11,
      <1>12, <1>13, <1>14, <1>15, <1>16, <1>17, <1>18, <1>19 DEF Next, Handler

\* A stored response stays until its reservation has run out.
LEMMA FreshStep ==
    TypeOK /\ MutexInv /\ RowInv /\ WorkInv /\ FreshInv /\ [Next]_vars
        => FreshInv'
<1> SUFFICES ASSUME TypeOK, MutexInv, RowInv, WorkInv, FreshInv, [Next]_vars
        PROVE FreshInv'
  OBVIOUS
<1> USE IdempotencyConstants DEF TypeOK, Told, ControlPoints, rowVars,
        requestVars, answerVars, MutexInv, RowInv, WorkInv, FreshInv, Working
<1>1. ASSUME NEW r \in Requests, Arrive(r)
      PROVE  FreshInv'
  BY <1>1 DEF Arrive
<1>2. ASSUME NEW r \in Requests, Timeout(r)
      PROVE  FreshInv'
  BY <1>2 DEF Timeout, Tell
<1>3. ASSUME NEW r \in Requests, LookupFound(r)
      PROVE  FreshInv'
  BY <1>3 DEF LookupFound, Return, Tell, Recorded, Live
<1>4. ASSUME NEW r \in Requests, LookupNoRows(r)
      PROVE  FreshInv'
  BY <1>4 DEF LookupNoRows, Live
<1>5. ASSUME NEW r \in Requests, LookupFails(r)
      PROVE  FreshInv'
  BY <1>5 DEF LookupFails, Return, Tell, Fault
<1>6. ASSUME NEW r \in Requests, ReservePurge(r)
      PROVE  FreshInv'
  BY <1>6 DEF ReservePurge, Delete
<1>7. ASSUME NEW r \in Requests, ReserveInsert(r)
      PROVE  FreshInv'
  BY <1>7 DEF ReserveInsert
<1>8. ASSUME NEW r \in Requests, ReserveFails(r)
      PROVE  FreshInv'
  BY <1>8 DEF ReserveFails, Return, Tell, Fault
<1>9. ASSUME NEW r \in Requests, HandlerAccepts(r)
      PROVE  FreshInv'
  BY <1>9 DEF HandlerAccepts
<1>10. ASSUME NEW r \in Requests, HandlerRefuses(r)
      PROVE  FreshInv'
  BY <1>10 DEF HandlerRefuses
<1>11. ASSUME NEW r \in Requests, HandlerErrors(r)
      PROVE  FreshInv'
  BY <1>11 DEF HandlerErrors
<1>12. ASSUME NEW r \in Requests, HandlerPanics(r)
      PROVE  FreshInv'
  BY <1>12 DEF HandlerPanics, Return, Tell, Fault
<1>13. ASSUME NEW r \in Requests, Complete(r)
      PROVE  FreshInv'
  BY <1>13 DEF Complete, Return, Tell, Pending
<1>14. ASSUME NEW r \in Requests, CompleteFails(r)
      PROVE  FreshInv'
  BY <1>14 DEF CompleteFails, Return, Tell, Fault
<1>15. ASSUME NEW r \in Requests, Release(r)
      PROVE  FreshInv'
  BY <1>15 DEF Release, Return, Tell, Pending, Delete
<1>16. ASSUME NEW r \in Requests, ReleaseFails(r)
      PROVE  FreshInv'
  BY <1>16 DEF ReleaseFails, Return, Tell, Fault
<1>17. CASE Restart
  BY <1>17 DEF Restart, Fault
<1>18. CASE Tick
  BY <1>18 DEF Tick
<1>19. CASE UNCHANGED vars
  BY <1>19 DEF vars
<1> HIDE IdempotencyConstants DEF TypeOK, Told, ControlPoints, rowVars,
        requestVars, answerVars, MutexInv, RowInv, WorkInv, FreshInv, Working
<1> QED
  BY <1>1, <1>2, <1>3, <1>4, <1>5, <1>6, <1>7, <1>8, <1>9, <1>10, <1>11,
      <1>12, <1>13, <1>14, <1>15, <1>16, <1>17, <1>18, <1>19 DEF Next, Handler

\* What is sent again comes from a row.
LEMMA ReplayStep ==
    TypeOK /\ MutexInv /\ RowInv /\ ReplayInv /\ [Next]_vars
        => ReplayInv'
<1> SUFFICES ASSUME TypeOK, MutexInv, RowInv, ReplayInv, [Next]_vars PROVE
        ReplayInv'
  OBVIOUS
<1> USE IdempotencyConstants DEF TypeOK, Told, ControlPoints, rowVars,
        requestVars, answerVars, MutexInv, RowInv, ReplayInv
<1>1. ASSUME NEW r \in Requests, Arrive(r)
      PROVE  ReplayInv'
  BY <1>1 DEF Arrive
<1>2. ASSUME NEW r \in Requests, Timeout(r)
      PROVE  ReplayInv'
  BY <1>2 DEF Timeout, Tell
<1>3. ASSUME NEW r \in Requests, LookupFound(r)
      PROVE  ReplayInv'
  BY <1>3 DEF LookupFound, Return, Tell, Recorded, Live
<1>4. ASSUME NEW r \in Requests, LookupNoRows(r)
      PROVE  ReplayInv'
  BY <1>4 DEF LookupNoRows, Live
<1>5. ASSUME NEW r \in Requests, LookupFails(r)
      PROVE  ReplayInv'
  BY <1>5 DEF LookupFails, Return, Tell, Fault
<1>6. ASSUME NEW r \in Requests, ReservePurge(r)
      PROVE  ReplayInv'
  BY <1>6 DEF ReservePurge, Delete
<1>7. ASSUME NEW r \in Requests, ReserveInsert(r)
      PROVE  ReplayInv'
  BY <1>7 DEF ReserveInsert
<1>8. ASSUME NEW r \in Requests, ReserveFails(r)
      PROVE  ReplayInv'
  BY <1>8 DEF ReserveFails, Return, Tell, Fault
<1>9. ASSUME NEW r \in Requests, HandlerAccepts(r)
      PROVE  ReplayInv'
  BY <1>9 DEF HandlerAccepts
<1>10. ASSUME NEW r \in Requests, HandlerRefuses(r)
      PROVE  ReplayInv'
  BY <1>10 DEF HandlerRefuses
<1>11. ASSUME NEW r \in Requests, HandlerErrors(r)
      PROVE  ReplayInv'
  BY <1>11 DEF HandlerErrors
<1>12. ASSUME NEW r \in Requests, HandlerPanics(r)
      PROVE  ReplayInv'
  BY <1>12 DEF HandlerPanics, Return, Tell, Fault
<1>13. ASSUME NEW r \in Requests, Complete(r)
      PROVE  ReplayInv'
  BY <1>13 DEF Complete, Return, Tell, Pending
<1>14. ASSUME NEW r \in Requests, CompleteFails(r)
      PROVE  ReplayInv'
  BY <1>14 DEF CompleteFails, Return, Tell, Fault
<1>15. ASSUME NEW r \in Requests, Release(r)
      PROVE  ReplayInv'
  BY <1>15 DEF Release, Return, Tell, Pending, Delete
<1>16. ASSUME NEW r \in Requests, ReleaseFails(r)
      PROVE  ReplayInv'
  BY <1>16 DEF ReleaseFails, Return, Tell, Fault
<1>17. CASE Restart
  BY <1>17 DEF Restart, Fault
<1>18. CASE Tick
  BY <1>18 DEF Tick
<1>19. CASE UNCHANGED vars
  BY <1>19 DEF vars
<1> HIDE IdempotencyConstants DEF TypeOK, Told, ControlPoints, rowVars,
        requestVars, answerVars, MutexInv, RowInv, ReplayInv
<1> QED
  BY <1>1, <1>2, <1>3, <1>4, <1>5, <1>6, <1>7, <1>8, <1>9, <1>10, <1>11,
      <1>12, <1>13, <1>14, <1>15, <1>16, <1>17, <1>18, <1>19 DEF Next, Handler

\* Whoever has a second effect on a key worked on it before, a TTL after the first.
LEMMA OneEffectStep ==
    TypeOK /\ EffectInv /\ OneEffectPerKey /\ [Next]_vars
        => OneEffectPerKey'
<1> SUFFICES ASSUME TypeOK, EffectInv, OneEffectPerKey, [Next]_vars PROVE
        OneEffectPerKey'
  OBVIOUS
<1> USE IdempotencyConstants DEF TypeOK, Told, ControlPoints, rowVars,
        requestVars, answerVars, EffectInv, OneEffectPerKey, Working
<1>1. ASSUME NEW r \in Requests, Arrive(r)
      PROVE  OneEffectPerKey'
  BY <1>1 DEF Arrive
<1>2. ASSUME NEW r \in Requests, Timeout(r)
      PROVE  OneEffectPerKey'
  BY <1>2 DEF Timeout, Tell
<1>3. ASSUME NEW r \in Requests, LookupFound(r)
      PROVE  OneEffectPerKey'
  BY <1>3 DEF LookupFound, Return, Tell, Recorded, Live
<1>4. ASSUME NEW r \in Requests, LookupNoRows(r)
      PROVE  OneEffectPerKey'
  BY <1>4 DEF LookupNoRows, Live
<1>5. ASSUME NEW r \in Requests, LookupFails(r)
      PROVE  OneEffectPerKey'
  BY <1>5 DEF LookupFails, Return, Tell, Fault
<1>6. ASSUME NEW r \in Requests, ReservePurge(r)
      PROVE  OneEffectPerKey'
  BY <1>6 DEF ReservePurge, Delete
<1>7. ASSUME NEW r \in Requests, ReserveInsert(r)
      PROVE  OneEffectPerKey'
  BY <1>7 DEF ReserveInsert
<1>8. ASSUME NEW r \in Requests, ReserveFails(r)
      PROVE  OneEffectPerKey'
  BY <1>8 DEF ReserveFails, Return, Tell, Fault
<1>9. ASSUME NEW r \in Requests, HandlerAccepts(r)
      PROVE  OneEffectPerKey'
  BY <1>9 DEF HandlerAccepts
<1>10. ASSUME NEW r \in Requests, HandlerRefuses(r)
      PROVE  OneEffectPerKey'
  BY <1>10 DEF HandlerRefuses
<1>11. ASSUME NEW r \in Requests, HandlerErrors(r)
      PROVE  OneEffectPerKey'
  BY <1>11 DEF HandlerErrors
<1>12. ASSUME NEW r \in Requests, HandlerPanics(r)
      PROVE  OneEffectPerKey'
  BY <1>12 DEF HandlerPanics, Return, Tell, Fault
<1>13. ASSUME NEW r \in Requests, Complete(r)
      PROVE  OneEffectPerKey'
  BY <1>13 DEF Complete, Return, Tell, Pending
<1>14. ASSUME NEW r \in Requests, CompleteFails(r)
      PROVE  OneEffectPerKey'
  BY <1>14 DEF CompleteFails, Return, Tell, Fault
<1>15. ASSUME NEW r \in Requests, Release(r)
      PROVE  OneEffectPerKey'
  BY <1>15 DEF Release, Return, Tell, Pending, Delete
<1>16. ASSUME NEW r \in Requests, ReleaseFails(r)
      PROVE  OneEffectPerKey'
  BY <1>16 DEF ReleaseFails, Return, Tell, Fault
<1>17. CASE Restart
  BY <1>17 DEF Restart, Fault
<1>18. CASE Tick
  BY <1>18 DEF Tick
<1>19. CASE UNCHANGED vars
  BY <1>19 DEF vars
<1> HIDE IdempotencyConstants DEF TypeOK, Told, ControlPoints, rowVars,
        requestVars, answerVars, EffectInv, OneEffectPerKey, Working
<1> QED
  BY <1>1, <1>2, <1>3, <1>4, <1>5, <1>6, <1>7, <1>8, <1>9, <1>10, <1>11,
      <1>12, <1>13, <1>14, <1>15, <1>16, <1>17, <1>18, <1>19 DEF Next, Handler

\* The inductive invariant.
IInv ==
    /\ TypeOK /\ MutexInv /\ RowInv /\ WorkInv /\ EffectInv
    /\ FreshInv /\ ReplayInv /\ OneEffectPerKey

LEMMA Invariance == Spec => []IInv
<1>1. Init => IInv
  <2> SUFFICES ASSUME Init PROVE IInv
    OBVIOUS
  <2> USE IdempotencyConstants DEF Init
  <2>1. TypeOK
    BY DEF TypeOK, Told, ControlPoints
  <2>2. MutexInv /\ RowInv /\ WorkInv
    BY <2>1 DEF MutexInv, RowInv, WorkInv, Working, Live, TypeOK
  <2>3. EffectInv /\ FreshInv /\ ReplayInv /\ OneEffectPerKey
    BY DEF EffectInv, FreshInv, ReplayInv, OneEffectPerKey
  <2> QED
    BY <2>1, <2>2, <2>3 DEF IInv
<1>2. IInv /\ [Next]_vars => IInv'
  BY TypeStep, MutexStep, RowStep, WorkStep, EffectStep, FreshStep, ReplayStep,
     OneEffectStep DEF IInv
<1> QED
  BY <1>1, <1>2, PTL DEF Spec

\* The columns of idempotency_keys and the handlers keep their types.
THEOREM IdempotencyTypeCorrect == Spec => []TypeOK
<1>1. IInv => TypeOK
  BY DEF IInv
<1> QED
  BY <1>1, Invariance, PTL

\* Two effects for one key and actor are a whole TTL apart, whatever fails
\* after the first one (withIdempotency): proved for any number of deliveries,
\* keys, crashes and failed statements.
THEOREM OneEffectTheorem == Spec => []OneEffectPerKey
<1>1. IInv => OneEffectPerKey
  BY DEF IInv
<1> QED
  BY <1>1, Invariance, PTL

\* A replay is the response to the same request, and a response that was sent
\* will be replayed until the reservation runs out (writeIdempotencyRecord,
\* CompleteIdempotency).
THEOREM ReplayTheorem == Spec => []ReplayIsOriginal
<1>1. IInv => ReplayIsOriginal
  <2> SUFFICES ASSUME TypeOK, FreshInv, ReplayInv PROVE ReplayIsOriginal
    BY DEF IInv
  <2>1. \A r \in Requests : now < until[r] => ~(until[r] <= now)
    BY IdempotencyConstants DEF TypeOK
  <2>2. \A r \in Requests :
          told[r] = "fresh" /\ now < until[r] => response[slot[r]] = r
    BY <2>1, Zenon DEF FreshInv
  <2> QED
    BY <2>2, Zenon DEF ReplayInv, ReplayIsOriginal
<1> QED
  BY <1>1, Invariance, PTL

\* At most one handler works between lookup and return (idemMu), and every
\* return gives the mutex back.
THEOREM HandlersExclude ==
    Spec => [](\A q, r \in Requests :
                  pc[q] \in Working /\ pc[r] \in Working => q = r)
<1>1. IInv => \A q, r \in Requests :
                 pc[q] \in Working /\ pc[r] \in Working => q = r
  BY DEF IInv, MutexInv
<1> QED
  BY <1>1, Invariance, PTL
=============================================================================
