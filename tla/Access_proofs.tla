---------------------------- MODULE Access_proofs ----------------------------
(***************************************************************************)
(* Proofs about who gets in: the password check of BeginLogin with the     *)
(* lock of an account (LoginLockout), and the way of a request through the *)
(* middleware to its effect (Requests).  The two share nothing but this    *)
(* module.                                                                 *)
(***************************************************************************)
EXTENDS LoginLockout, Requests, FiniteSetTheorems, TLAPS

(***************************************************************************)
(* LoginLockout, for any number of clients, any threshold, any duration of *)
(* the lock and any number of failed statements.                           *)
(*                                                                         *)
(* Every client has a time before which it cannot make its next guess.     *)
(* While the account has reached the threshold, a guess moves that time    *)
(* on by the duration of the lock, so that a client which has used up the  *)
(* guess of the running period is known by it.                             *)
(***************************************************************************)

Clients == Cardinality(Logins)
Period(time) == time \div LockFor

\* Guesses that were made and not yet counted in the row.
Uncounted == {l \in Logins : pc[l] = "failure"}

\* Clients that cannot make another guess in the running period, unless the
\* statement that counts their last one fails.
Spent ==
    {l \in Logins :
        \/ pc[l] = "failure"
        \/ pc[l] = "read" /\ Period(seenLocked[l]) > Period(now)
        \/ pc[l] \in {"idle", "answer", "success"} /\ Period(lockedUntil) > Period(now)}

\* No lock reaches further than its duration, and once the threshold is reached
\* no copy of the row is ahead of it.
LockInv ==
    /\ lockedUntil <= now + LockFor
    /\ \A l \in Logins : seenLocked[l] <= now + LockFor
    /\ failed >= Threshold => \A l \in Logins : seenLocked[l] <= lockedUntil

\* Guesses are in the row, on their way to it or lost to a failed statement;
\* what else the row counts was on its way at the last reset.
CountInv ==
    /\ guesses <= failed + Cardinality(Uncounted) + faults
    /\ failed + Cardinality(Uncounted) <= guesses + Clients

\* From the threshold on every period costs a client its guess.
SpentInv ==
    failed >= Threshold =>
        guesses <= Threshold - 1 + faults + Clients * Period(now) + Cardinality(Spent)

\* LockoutTypeOK without the bound on failed_attempts, which is no matter of one step.
LockoutShape ==
    /\ failed \in Nat
    /\ lockedUntil \in 0..(MaxTime + LockFor)
    /\ expiresAt \in {Never, MaxTime} /\ restricted \in BOOLEAN
    /\ pc \in [Logins -> {"idle", "read", "compare", "failure", "answer", "success"}]
    /\ seenFailed \in [Logins -> Counts]
    /\ seenLocked \in [Logins -> 0..(MaxTime + LockFor)]
    /\ secret \in [Logins -> BOOLEAN] /\ inside \in [Logins -> BOOLEAN]
    /\ guesses \in Nat
    /\ now \in 0..MaxTime /\ faults \in 0..MaxFaults

-----------------------------------------------------------------------------
\* Sets of clients.
LEMMA CardinalityFacts ==
    /\ Clients \in Nat
    /\ \A S \in SUBSET Logins :
          IsFiniteSet(S) /\ Cardinality(S) \in Nat /\ Cardinality(S) <= Clients
BY LockoutConstants, FS_CardinalityType, FS_Subset DEF Clients

LEMMA GrowingSet ==
    ASSUME NEW S \in SUBSET Logins, NEW T \in SUBSET Logins, S \subseteq T
    PROVE  Cardinality(S) <= Cardinality(T)
BY CardinalityFacts, FS_Subset

LEMMA ShrinkingSet ==
    ASSUME NEW S \in SUBSET Logins, NEW T \in SUBSET Logins, NEW l, S \ {l} \subseteq T
    PROVE  Cardinality(S) <= Cardinality(T) + 1
<1>1. Cardinality(S \ {l}) <= Cardinality(T)
  BY GrowingSet
<1>2. Cardinality(S) <= Cardinality(S \ {l}) + 1
  BY CardinalityFacts, FS_RemoveElement
<1> QED
  BY <1>1, <1>2, CardinalityFacts

LEMMA UncountedFinite ==
    /\ IsFiniteSet(Uncounted) /\ Cardinality(Uncounted) \in Nat
    /\ IsFiniteSet(Uncounted') /\ Cardinality(Uncounted') \in Nat
    /\ Clients \in Nat
BY CardinalityFacts DEF Uncounted

LEMMA SpentFinite ==
    /\ IsFiniteSet(Spent) /\ Cardinality(Spent) \in Nat
    /\ IsFiniteSet(Spent') /\ Cardinality(Spent') \in Nat
<1>1. Spent \in SUBSET Logins /\ Spent' \in SUBSET Logins
  BY DEF Spent
<1> QED
  BY <1>1, CardinalityFacts

\* Periods of the lock.
LEMMA PeriodFacts ==
    /\ \A a \in Nat : Period(a) \in Nat
    /\ \A a, b \in Nat : a <= b => Period(a) <= Period(b)
    /\ \A a \in Nat : Period(a + LockFor) = Period(a) + 1
    /\ \A a \in Nat : Period(a + 1) \in {Period(a), Period(a) + 1}
<1> USE LockoutConstants DEF Period
<1>1. \A a \in Nat : Period(a) \in Nat /\ LockFor * Period(a) <= a /\ a < LockFor * Period(a) + LockFor
  OBVIOUS
<1>2. ASSUME NEW a \in Nat, NEW b \in Nat, a <= b PROVE Period(a) <= Period(b)
  BY <1>2
<1>3. ASSUME NEW a \in Nat PROVE Period(a + LockFor) = Period(a) + 1
  OBVIOUS
<1>4. ASSUME NEW a \in Nat PROVE Period(a + 1) \in {Period(a), Period(a) + 1}
  <2>1. Period(a) <= Period(a + 1) /\ Period(a + 1) <= Period(a + LockFor)
    BY <1>2
  <2> QED
    BY <2>1, <1>1, <1>3
<1> QED
  BY <1>1, <1>2, <1>3, <1>4

LEMMA ProductFacts ==
    /\ \A p \in Nat : Clients * p \in Nat
    /\ \A p \in Nat : Clients * (p + 1) = Clients * p + Clients
    /\ \A p, q \in Nat : p <= q => Clients * p <= Clients * q
BY CardinalityFacts

LEMMA AllowanceFacts ==
    \A time \in Nat :
        /\ Allowance(time) = Threshold - 1 + (Clients * Period(time) + Clients) + MaxFaults
        /\ Allowance(time) \in Nat
<1> TAKE time \in Nat
<1>1. Period(time) \in Nat /\ Clients \in Nat
  BY PeriodFacts, CardinalityFacts
<1>2. Clients * (1 + Period(time)) = Clients * Period(time) + Clients
  BY <1>1
<1>3. Clients * Period(time) \in Nat
  BY <1>1, ProductFacts
<1>4. Allowance(time) = Threshold - 1 + Clients * (1 + Period(time)) + MaxFaults
  BY DEF Allowance, Period, Clients
<1> QED
  BY <1>1, <1>2, <1>3, <1>4, LockoutConstants

LEMMA CountsFacts == 0 \in Counts /\ Counts \subseteq Nat
<1>1. Allowance(MaxTime) \in Nat /\ Clients \in Nat
  BY AllowanceFacts, CardinalityFacts, LockoutConstants
<1> QED
  BY <1>1 DEF Counts, Clients

LEMMA SpentFrame ==
    ASSUME LockoutShape, SpentInv, failed >= Threshold => Spent \subseteq Spent',
           UNCHANGED <<failed, guesses, faults, now>>
    PROVE  SpentInv'
<1> SUFFICES ASSUME failed >= Threshold PROVE SpentInv'
  BY DEF SpentInv
<1>1. Cardinality(Spent) <= Cardinality(Spent')
  BY GrowingSet DEF Spent
<1>2. Clients * Period(now) \in Nat /\ Clients * Period(now') = Clients * Period(now)
  BY PeriodFacts, ProductFacts DEF LockoutShape
<1> QED
  BY <1>1, <1>2, SpentFinite, LockoutConstants DEF LockoutShape, SpentInv

-----------------------------------------------------------------------------
\* Every step keeps the types but the bound on failed_attempts.
LEMMA ShapeStep ==
    LockoutTypeOK /\ [LockoutNext]_lockoutVars
        => LockoutShape'
<1> SUFFICES ASSUME LockoutTypeOK, [LockoutNext]_lockoutVars PROVE LockoutShape'
  OBVIOUS
<1> USE LockoutConstants, CountsFacts DEF LockoutTypeOK, LockoutShape, account, seen
<1>1. ASSUME NEW l \in Logins, NEW right \in BOOLEAN, NEW in \in BOOLEAN,
        FindUser(l, right, in)
      PROVE  LockoutShape'
  BY <1>1 DEF FindUser
<1>2. ASSUME NEW l \in Logins, Turned(l)
      PROVE  LockoutShape'
  BY <1>2 DEF Turned, Answer
<1>3. ASSUME NEW l \in Logins, Admissible(l)
      PROVE  LockoutShape'
  BY <1>3 DEF Admissible
<1>4. ASSUME NEW l \in Logins, VerifyPassword(l)
      PROVE  LockoutShape'
  BY <1>4 DEF VerifyPassword
<1>5. ASSUME NEW l \in Logins, RegisterLoginFailure(l)
      PROVE  LockoutShape'
  BY <1>5 DEF RegisterLoginFailure
<1>6. ASSUME NEW l \in Logins, AnswerFailure(l)
      PROVE  LockoutShape'
  BY <1>6 DEF AnswerFailure, Answer
<1>7. ASSUME NEW l \in Logins, ResetLoginFailures(l)
      PROVE  LockoutShape'
  BY <1>7 DEF ResetLoginFailures, Answer
<1>8. ASSUME NEW l \in Logins, StatementFails(l)
      PROVE  LockoutShape'
  BY <1>8 DEF StatementFails, Answer
<1>9. CASE Tick
  BY <1>9 DEF Tick
<1>10. CASE UNCHANGED lockoutVars
  BY <1>10 DEF lockoutVars
<1> HIDE LockoutConstants, CountsFacts DEF LockoutTypeOK, LockoutShape, account, seen
<1> QED
  BY <1>1, <1>2, <1>3, <1>4, <1>5, <1>6, <1>7, <1>8, <1>9, <1>10 DEF LockoutNext

\* Locks are set from the clock.
LEMMA LockStep ==
    LockoutShape /\ LockInv /\ [LockoutNext]_lockoutVars
        => LockInv'
<1> SUFFICES ASSUME LockoutShape, LockInv, [LockoutNext]_lockoutVars PROVE LockInv'
  OBVIOUS
<1> USE LockoutConstants DEF LockoutShape, LockInv, account, seen
<1>1. ASSUME NEW l \in Logins, NEW right \in BOOLEAN, NEW in \in BOOLEAN,
        FindUser(l, right, in)
      PROVE  LockInv'
  BY <1>1 DEF FindUser
<1>2. ASSUME NEW l \in Logins, Turned(l)
      PROVE  LockInv'
  BY <1>2 DEF Turned, Answer
<1>3. ASSUME NEW l \in Logins, Admissible(l)
      PROVE  LockInv'
  BY <1>3 DEF Admissible
<1>4. ASSUME NEW l \in Logins, VerifyPassword(l)
      PROVE  LockInv'
  BY <1>4 DEF VerifyPassword
<1>5. ASSUME NEW l \in Logins, RegisterLoginFailure(l)
      PROVE  LockInv'
  BY <1>5 DEF RegisterLoginFailure
<1>6. ASSUME NEW l \in Logins, AnswerFailure(l)
      PROVE  LockInv'
  BY <1>6 DEF AnswerFailure, Answer
<1>7. ASSUME NEW l \in Logins, ResetLoginFailures(l)
      PROVE  LockInv'
  BY <1>7 DEF ResetLoginFailures, Answer
<1>8. ASSUME NEW l \in Logins, StatementFails(l)
      PROVE  LockInv'
  BY <1>8 DEF StatementFails, Answer
<1>9. CASE Tick
  BY <1>9 DEF Tick
<1>10. CASE UNCHANGED lockoutVars
  BY <1>10 DEF lockoutVars
<1> HIDE LockoutConstants DEF LockoutShape, LockInv, account, seen
<1> QED
  BY <1>1, <1>2, <1>3, <1>4, <1>5, <1>6, <1>7, <1>8, <1>9, <1>10 DEF LockoutNext

\* No guess is lost but to a failed statement.
LEMMA CountStep ==
    LockoutShape /\ CountInv /\ [LockoutNext]_lockoutVars
        => CountInv'
<1> SUFFICES ASSUME LockoutShape, CountInv, [LockoutNext]_lockoutVars PROVE CountInv'
  OBVIOUS
<1> USE LockoutConstants DEF CountInv, LockoutShape, account, seen
<1>1. ASSUME NEW l \in Logins, NEW right \in BOOLEAN, NEW in \in BOOLEAN,
        FindUser(l, right, in)
      PROVE  CountInv'
  <2>1. Uncounted' = Uncounted /\ UNCHANGED <<failed, guesses, faults>>
    BY <1>1 DEF FindUser, Uncounted
  <2> QED
    BY <2>1
<1>2. ASSUME NEW l \in Logins, Turned(l)
      PROVE  CountInv'
  <2>1. Uncounted' = Uncounted /\ UNCHANGED <<failed, guesses, faults>>
    BY <1>2 DEF Turned, Answer, Uncounted
  <2> QED
    BY <2>1
<1>3. ASSUME NEW l \in Logins, Admissible(l)
      PROVE  CountInv'
  <2>1. Uncounted' = Uncounted /\ UNCHANGED <<failed, guesses, faults>>
    BY <1>3 DEF Admissible, Uncounted
  <2> QED
    BY <2>1
<1>4. ASSUME NEW l \in Logins, VerifyPassword(l)
      PROVE  CountInv'
  <2>1. CASE secret[l]
    <3>1. Uncounted' = Uncounted /\ UNCHANGED <<failed, guesses, faults>>
      BY <1>4, <2>1 DEF VerifyPassword, Uncounted
    <3> QED
      BY <3>1
  <2>2. CASE ~secret[l]
    <3>1. /\ Uncounted' = Uncounted \cup {l} /\ l \notin Uncounted
          /\ guesses' = guesses + 1 /\ UNCHANGED <<failed, faults>>
      BY <1>4, <2>2 DEF VerifyPassword, Uncounted
    <3>2. Cardinality(Uncounted)' = Cardinality(Uncounted) + 1
      BY <3>1, UncountedFinite, FS_AddElement
    <3> QED
      BY <3>1, <3>2, UncountedFinite DEF LockoutShape
  <2> QED
    BY <2>1, <2>2
<1>5. ASSUME NEW l \in Logins, RegisterLoginFailure(l)
      PROVE  CountInv'
  <2>1. /\ Uncounted' = Uncounted \ {l} /\ l \in Uncounted
        /\ failed' = failed + 1 /\ UNCHANGED <<guesses, faults>>
    BY <1>5 DEF RegisterLoginFailure, Uncounted
  <2>2. Cardinality(Uncounted)' = Cardinality(Uncounted) - 1
    BY <2>1, UncountedFinite, FS_RemoveElement
  <2> QED
    BY <2>1, <2>2, UncountedFinite DEF LockoutShape
<1>6. ASSUME NEW l \in Logins, AnswerFailure(l)
      PROVE  CountInv'
  <2>1. Uncounted' = Uncounted /\ UNCHANGED <<failed, guesses, faults>>
    BY <1>6 DEF AnswerFailure, Answer, Uncounted
  <2> QED
    BY <2>1
<1>7. ASSUME NEW l \in Logins, ResetLoginFailures(l)
      PROVE  CountInv'
  <2>1. failed' = 0 /\ guesses' = 0 /\ faults' = faults
    BY <1>7 DEF ResetLoginFailures
  <2>2. /\ Cardinality(Uncounted') \in Nat
        /\ Cardinality(Uncounted') <= Clients
    BY CardinalityFacts DEF Uncounted
  <2> QED
    BY <2>1, <2>2, CardinalityFacts DEF LockoutShape
<1>8. ASSUME NEW l \in Logins, StatementFails(l)
      PROVE  CountInv'
  <2>1. /\ Uncounted' = Uncounted \ {l}
        /\ faults' = faults + 1 /\ UNCHANGED <<failed, guesses>>
    BY <1>8 DEF StatementFails, Answer, Uncounted
  <2>2. Cardinality(Uncounted)' \in {Cardinality(Uncounted), Cardinality(Uncounted) - 1}
    BY <2>1, UncountedFinite, FS_RemoveElement
  <2> QED
    BY <2>1, <2>2, UncountedFinite DEF LockoutShape
<1>9. CASE Tick
  <2>1. Uncounted' = Uncounted /\ UNCHANGED <<failed, guesses, faults>>
    BY <1>9 DEF Tick, Uncounted
  <2> QED
    BY <2>1
<1>10. CASE UNCHANGED lockoutVars
  <2>1. Uncounted' = Uncounted /\ UNCHANGED <<failed, guesses, faults>>
    BY <1>10 DEF lockoutVars, Uncounted
  <2> QED
    BY <2>1
<1> HIDE LockoutConstants DEF CountInv, LockoutShape, account, seen
<1> QED
  BY <1>1, <1>2, <1>3, <1>4, <1>5, <1>6, <1>7, <1>8, <1>9, <1>10 DEF LockoutNext

\* A guess costs a client the period.
LEMMA SpentStep ==
    LockoutShape /\ LockInv /\ CountInv /\ SpentInv /\ [LockoutNext]_lockoutVars
        => SpentInv'
<1> SUFFICES ASSUME LockoutShape, LockInv, CountInv, SpentInv, [LockoutNext]_lockoutVars PROVE
        SpentInv'
  OBVIOUS
<1> USE LockoutConstants DEF LockoutShape, account, seen
<1>1. ASSUME NEW l \in Logins, NEW right \in BOOLEAN, NEW in \in BOOLEAN,
        FindUser(l, right, in)
      PROVE  SpentInv'
  <2> HIDE DEF LockInv, CountInv, SpentInv
  <2>1. /\ Spent \subseteq Spent'
        /\ UNCHANGED <<failed, guesses, faults, now>>
    BY <1>1 DEF FindUser, Spent
  <2> QED
    BY <2>1, SpentFrame
<1>2. ASSUME NEW l \in Logins, Turned(l)
      PROVE  SpentInv'
  <2> HIDE DEF LockInv, CountInv, SpentInv
  <2>1. UNCHANGED <<failed, guesses, faults, now, lockedUntil>>
    BY <1>2 DEF Turned
  <2>2. failed >= Threshold => Period(seenLocked[l]) <= Period(lockedUntil)
    BY PeriodFacts DEF LockInv
  <2>3. failed >= Threshold => Spent \subseteq Spent'
    <3>1. Period(now) \in Nat /\ Period(lockedUntil) \in Nat /\ Period(seenLocked[l]) \in Nat
      BY PeriodFacts
    <3> QED
      BY <1>2, <2>1, <2>2, <3>1 DEF Turned, Answer, Spent
  <2> QED
    BY <2>1, <2>3, SpentFrame
<1>3. ASSUME NEW l \in Logins, Admissible(l)
      PROVE  SpentInv'
  <2> HIDE DEF LockInv, CountInv, SpentInv
  <2>1. UNCHANGED <<failed, guesses, faults, now, lockedUntil>>
    BY <1>3 DEF Admissible
  <2>2. Period(seenLocked[l]) <= Period(now)
    BY <1>3, PeriodFacts DEF Admissible, Locked
  <2>3. Period(now) \in Nat /\ Period(seenLocked[l]) \in Nat
    BY PeriodFacts
  <2>4. Spent \subseteq Spent'
    BY <1>3, <2>2, <2>3 DEF Admissible, Spent
  <2> QED
    BY <2>1, <2>4, SpentFrame
<1>4. ASSUME NEW l \in Logins, VerifyPassword(l)
      PROVE  SpentInv'
  <2> HIDE DEF LockInv, CountInv, SpentInv
  <2>1. CASE secret[l]
    <3>1. Spent \subseteq Spent' /\ UNCHANGED <<failed, guesses, faults, now>>
      BY <1>4, <2>1 DEF VerifyPassword, Spent
    <3> QED
      BY <3>1, SpentFrame
  <2>2. CASE ~secret[l]
    <3>1. /\ Spent' = Spent \cup {l} /\ l \notin Spent
          /\ guesses' = guesses + 1 /\ UNCHANGED <<failed, faults, now>>
      BY <1>4, <2>2 DEF VerifyPassword, Spent
    <3>2. Cardinality(Spent') = Cardinality(Spent) + 1
      BY <3>1, SpentFinite, FS_AddElement
    <3>3. Clients * Period(now) \in Nat
      <4>1. Period(now) \in Nat
        BY PeriodFacts
      <4> QED
        BY <4>1, ProductFacts
    <3> QED
      BY <3>1, <3>2, <3>3, SpentFinite DEF LockoutShape, SpentInv
  <2> QED
    BY <2>1, <2>2
<1>5. ASSUME NEW l \in Logins, RegisterLoginFailure(l)
      PROVE  SpentInv'
  <2> HIDE DEF LockInv, CountInv, SpentInv
  <2>1. /\ failed' = failed + 1 /\ UNCHANGED <<guesses, faults, now>>
        /\ pc' = [pc EXCEPT ![l] = "answer"] /\ pc[l] = "failure" /\ UNCHANGED seenLocked
    BY <1>5 DEF RegisterLoginFailure
  <2> SUFFICES ASSUME failed + 1 >= Threshold PROVE SpentInv'
    BY <2>1 DEF SpentInv
  <2>2. lockedUntil' = now + LockFor
    BY <1>5 DEF RegisterLoginFailure
  <2>3. Period(lockedUntil') = Period(now) + 1
    BY <2>2, PeriodFacts
  <2>4. Period(lockedUntil') > Period(now') /\ UNCHANGED Period(now)
    BY <2>1, <2>3, PeriodFacts
  <2>5. Spent \subseteq Spent' /\ Uncounted \subseteq Spent'
    BY <2>1, <2>4 DEF Spent, Uncounted
  <2>6. /\ Cardinality(Spent) <= Cardinality(Spent')
        /\ Cardinality(Uncounted) <= Cardinality(Spent')
    BY <2>5, SpentFinite, UncountedFinite, GrowingSet DEF Spent, Uncounted
  <2>7. Clients * Period(now) \in Nat
    <3>1. Period(now) \in Nat
      BY PeriodFacts
    <3> QED
      BY <3>1, ProductFacts
  <2>8. CASE failed >= Threshold
    BY <2>1, <2>6, <2>7, <2>8, SpentFinite DEF LockoutShape, SpentInv
  <2>9. CASE failed < Threshold
    BY <2>1, <2>6, <2>7, <2>9, SpentFinite, UncountedFinite DEF LockoutShape, SpentInv, CountInv
  <2> QED
    BY <2>8, <2>9 DEF LockoutShape
<1>6. ASSUME NEW l \in Logins, AnswerFailure(l)
      PROVE  SpentInv'
  <2> HIDE DEF LockInv, CountInv, SpentInv
  <2>1. /\ Spent \subseteq Spent'
        /\ UNCHANGED <<failed, guesses, faults, now>>
    BY <1>6 DEF AnswerFailure, Answer, Spent
  <2> QED
    BY <2>1, SpentFrame
<1>7. ASSUME NEW l \in Logins, ResetLoginFailures(l)
      PROVE  SpentInv'
  <2>1. failed' = 0
    BY <1>7 DEF ResetLoginFailures
  <2> QED
    BY <2>1 DEF SpentInv
<1>8. ASSUME NEW l \in Logins, StatementFails(l)
      PROVE  SpentInv'
  <2> HIDE DEF LockInv, CountInv, SpentInv
  <2>1. /\ Spent \ {l} \subseteq Spent'
        /\ faults' = faults + 1 /\ UNCHANGED <<failed, guesses, now>>
    BY <1>8 DEF StatementFails, Answer, Spent
  <2>2. Cardinality(Spent) <= Cardinality(Spent') + 1
    BY <2>1, SpentFinite, ShrinkingSet DEF Spent
  <2>3. Clients * Period(now) \in Nat
    <3>1. Period(now) \in Nat
      BY PeriodFacts
    <3> QED
      BY <3>1, ProductFacts
  <2> QED
    BY <2>1, <2>2, <2>3, SpentFinite DEF LockoutShape, SpentInv
<1>9. CASE Tick
  <2> HIDE DEF LockInv, CountInv, SpentInv
  <2>1. /\ now' = now + 1
        /\ UNCHANGED <<failed, guesses, faults, pc, seenLocked, lockedUntil>>
    BY <1>9 DEF Tick
  <2>2. Period(now) \in Nat /\ Period(now') \in {Period(now), Period(now) + 1}
    BY <2>1, PeriodFacts
  <2>3. CASE Period(now') = Period(now)
    <3>1. Spent \subseteq Spent'
      BY <2>1, <2>3 DEF Spent
    <3>2. Cardinality(Spent) <= Cardinality(Spent')
      BY <3>1, GrowingSet DEF Spent
    <3> QED
      BY <2>1, <2>3, <3>2, <2>2, SpentFinite, ProductFacts DEF LockoutShape, SpentInv
  <2>4. CASE Period(now') = Period(now) + 1
    <3>1. Clients * Period(now') = Clients * Period(now) + Clients
      BY <2>2, <2>4, ProductFacts
    <3>2. Cardinality(Spent) <= Clients
      BY CardinalityFacts DEF Spent
    <3>3. Clients \in Nat /\ Clients * Period(now) \in Nat
      BY <2>2, CardinalityFacts
    <3> HIDE DEF Clients
    <3> QED
      BY <2>1, <3>1, <3>2, <3>3, SpentFinite DEF LockoutShape, SpentInv
  <2> QED
    BY <2>2, <2>3, <2>4
<1>10. CASE UNCHANGED lockoutVars
  <2> HIDE DEF LockInv, CountInv, SpentInv
  <2>1. /\ Spent \subseteq Spent'
        /\ UNCHANGED <<failed, guesses, faults, now>>
    BY <1>10 DEF lockoutVars, Spent
  <2> QED
    BY <2>1, SpentFrame
<1> HIDE LockoutConstants DEF LockoutShape, account, seen
<1> QED
  BY <1>1, <1>2, <1>3, <1>4, <1>5, <1>6, <1>7, <1>8, <1>9, <1>10 DEF LockoutNext

-----------------------------------------------------------------------------
\* The three invariants bound the guesses and the count in the row.
LEMMA Bound ==
    ASSUME LockoutShape, LockInv, CountInv, SpentInv
    PROVE  GuessesBounded /\ LockoutTypeOK
<1> DEFINE p == Period(now)
<1>1. p \in Nat /\ Clients \in Nat /\ Clients * p \in Nat
  BY PeriodFacts, ProductFacts, CardinalityFacts DEF LockoutShape
<1>2. Allowance(now) = Threshold - 1 + (Clients * p + Clients) + MaxFaults
  BY AllowanceFacts, LockoutConstants DEF LockoutShape, p
<1>3. /\ Cardinality(Uncounted) <= Clients /\ Cardinality(Spent) <= Clients
      /\ Cardinality(Uncounted) \in Nat /\ Cardinality(Spent) \in Nat
  BY CardinalityFacts DEF Uncounted, Spent
<1> HIDE DEF p
<1>4. GuessesBounded
  <2>1. CASE failed >= Threshold
    <3>1. guesses <= Threshold - 1 + faults + Clients * p + Cardinality(Spent)
      BY <2>1 DEF SpentInv, p
    <3> QED
      BY <3>1, <1>1, <1>2, <1>3, LockoutConstants DEF GuessesBounded, LockoutShape
  <2>2. CASE failed < Threshold
    BY <2>2, <1>1, <1>2, <1>3, LockoutConstants DEF GuessesBounded, LockoutShape, CountInv
  <2> QED
    BY <2>1, <2>2, LockoutConstants DEF LockoutShape
<1>5. Allowance(now) <= Allowance(MaxTime)
  <2>1. now <= MaxTime /\ MaxTime \in Nat /\ now \in Nat
    BY LockoutConstants DEF LockoutShape
  <2>2. p <= Period(MaxTime) /\ Period(MaxTime) \in Nat
    BY <2>1, PeriodFacts DEF p
  <2>3. Clients * p <= Clients * Period(MaxTime) /\ Clients * Period(MaxTime) \in Nat
    BY <2>2, <1>1, ProductFacts
  <2>4. Allowance(MaxTime) = Threshold - 1 + (Clients * Period(MaxTime) + Clients) + MaxFaults
    BY <2>1, AllowanceFacts
  <2> QED
    BY <2>3, <2>4, <1>1, <1>2, LockoutConstants
<1>6. failed \in Counts
  <2>1. failed <= guesses + Clients
    BY <1>1, <1>3 DEF CountInv, LockoutShape
  <2>2. Allowance(now) \in Nat /\ Allowance(MaxTime) \in Nat
    BY AllowanceFacts, LockoutConstants DEF LockoutShape
  <2>3. failed <= Allowance(MaxTime) + Clients
    BY <2>1, <2>2, <1>1, <1>4, <1>5 DEF GuessesBounded, LockoutShape
  <2> QED
    BY <2>3, <2>2, <1>1 DEF Counts, Clients, LockoutShape
<1> QED
  BY <1>4, <1>6 DEF LockoutTypeOK, LockoutShape

\* The inductive invariant.
LockoutInv == LockoutShape /\ LockInv /\ CountInv /\ SpentInv

LEMMA LockoutInvariance == LockoutSpec => []LockoutInv
<1>1. LockoutInit => LockoutInv
  <2> SUFFICES ASSUME LockoutInit PROVE LockoutInv
    OBVIOUS
  <2>2. LockoutShape
    BY CountsFacts, LockoutConstants DEF LockoutInit, LockoutShape
  <2>3. LockInv
    BY LockoutConstants DEF LockoutInit, LockInv
  <2>4. CountInv
    <3>1. Uncounted = {} /\ failed = 0 /\ guesses = 0 /\ faults = 0
      BY DEF LockoutInit, Uncounted
    <3> QED
      BY <3>1, FS_EmptySet, CardinalityFacts DEF CountInv
  <2>5. SpentInv
    BY LockoutConstants DEF LockoutInit, SpentInv
  <2> QED
    BY <2>2, <2>3, <2>4, <2>5 DEF LockoutInv
<1>2. LockoutInv /\ [LockoutNext]_lockoutVars => LockoutInv'
  <2> SUFFICES ASSUME LockoutInv, [LockoutNext]_lockoutVars PROVE LockoutInv'
    OBVIOUS
  <2>1. LockoutTypeOK
    BY Bound DEF LockoutInv
  <2> QED
    BY <2>1, ShapeStep, LockStep, CountStep, SpentStep DEF LockoutInv
<1> QED
  BY <1>1, <1>2, PTL DEF LockoutSpec

\* The row of the account and the copies of it keep their types, with a count of
\* failures that is bounded by the guesses and the clients.
THEOREM LockoutTypeCorrect == LockoutSpec => []LockoutTypeOK
<1>1. LockoutInv => LockoutTypeOK
  BY Bound DEF LockoutInv
<1> QED
  BY <1>1, LockoutInvariance, PTL

\* Stale copies of the row cost at most one guess per client and period of the
\* lock (RegisterLoginFailure): proved for any number of clients, any threshold
\* and any duration of the lock.
THEOREM GuessesTheorem == LockoutSpec => []GuessesBounded
<1>1. LockoutInv => GuessesBounded
  BY Bound DEF LockoutInv
<1> QED
  BY <1>1, LockoutInvariance, PTL

-----------------------------------------------------------------------------
(***************************************************************************)
(* Requests, for any operations that are asked for and any duties that the *)
(* grants of rbac.go fit.                                                  *)
(***************************************************************************)

\* What can be wrong with a request.
AnyFault == {"none", "cookie", "missing", "repeated", "malformed", "key", "token", "body"}

\* The types of the fields of the request.
Shape ==
    /\ mode \in {"local", "development-bypass"} /\ role \in Roles
    /\ timed \in BOOLEAN /\ live \in BOOLEAN
    /\ request \in [op : Operations \cup {"none"}, method : Methods \cup {"none"},
                    fault : AnyFault, fresh : BOOLEAN, at : Stages \cup {"none"},
                    answer : Answers, reserved : BOOLEAN, effect : BOOLEAN,
                    audited : BOOLEAN]

\* A request is answered when it is done, and what is recorded had an effect or
\* is a login that failed.
AnswerInv ==
    /\ request.at \in {"done", "streaming"} => request.answer # "none"
    /\ request.at = "handled" => (request.effect <=> request.op \in Effects)
    /\ request.audited => request.effect \/ request.op \in FailureAudited
    /\ request.at # "done" => ~request.audited

\* A session that is live now was live when the request came.
FreshInv == live /\ request.at # "none" => request.fresh

\* What Authenticate has established ...
AuthInv ==
    request.at \in {"authenticated", "routed", "reserved", "handled", "streaming"} =>
        (mode = "local" /\ ~Public => request.fresh /\ request.fault # "cookie")

\* ... and what the router and the wrapper have.
RouteInv ==
    request.at \in {"routed", "reserved", "handled", "streaming"} =>
        /\ RequireCSRF
        /\ Served(request.op, request.method)
        /\ Authorized(role, request.op)

\* The operations that need a session and its token.
Guarded == request.effect /\ mode = "local" /\ request.op \notin {"Login", "VerifyMfaLogin"}

\* What an effect and a refusal say about the request, for good.
EffectInv ==
    /\ Guarded => /\ request.fresh /\ request.fault \notin {"cookie", "token"}
                  /\ Authorized(role, request.op)
    /\ request.answer = "permission_denied" => ~Authorized(role, request.op)

IInv == Shape /\ AnswerInv /\ FreshInv /\ AuthInv /\ RouteInv /\ EffectInv

-----------------------------------------------------------------------------
\* Whatever changes something is posted, and nothing but a login is open to
\* everybody.
LEMMA EffectsArePosted ==
    /\ Effects \subseteq Posted
    /\ "Health" \notin Effects /\ "Readiness" \notin Effects
    /\ Audited \subseteq Effects
BY DEF Effects, Posted, Keyed, Audited

\* The fields that say what was asked.
Same ==
    /\ UNCHANGED <<mode, timed, role>>
    /\ request'.op = request.op /\ request'.method = request.method
    /\ request'.fault = request.fault /\ request'.fresh = request.fresh

\* A step of one of the handlers that moves the request on.
LEMMA GoesFacts ==
    ASSUME Shape, NEW s \in Stages, Goes(s)
    PROVE  /\ Same /\ Shape' /\ UNCHANGED live
           /\ request'.at = s /\ request'.answer = request.answer
           /\ request'.effect = request.effect /\ request'.audited = request.audited
BY DEF Shape, Goes, Same, configuration

LEMMA RepliesFacts ==
    ASSUME Shape, NEW a \in Answers \ {"none"}, Replies(a)
    PROVE  /\ Same /\ Shape' /\ UNCHANGED live
           /\ request'.at = "done" /\ request'.answer # "none"
           /\ request'.answer \in {a, request.answer}
           /\ request'.effect = request.effect /\ request'.audited = request.audited
<1>1. /\ request' = [request EXCEPT !.at = "done",
                      !.answer = IF request.answer = "none" THEN a ELSE request.answer]
      /\ UNCHANGED <<mode, timed, role, live>>
  BY DEF Replies, configuration
<1>2. "done" \in Stages
  BY DEF Stages
<1> QED
  BY <1>1, <1>2 DEF Shape, Same

\* What was asked stays known.
LEMMA SameFacts ==
    ASSUME Same
    PROVE  /\ Public' <=> Public
           /\ RequireCSRF' <=> RequireCSRF
           /\ Served(request.op, request.method)' <=> Served(request.op, request.method)
           /\ Authorized(role, request.op)' <=> Authorized(role, request.op)
BY DEF Same, Public, RequireCSRF, Served, Authorized, Allowed

-----------------------------------------------------------------------------
\* The invariants of a request that keeps what was asked, by the stage it goes to.
LEMMA Moves ==
    ASSUME IInv, Same, Shape', live' => live, request.at # "none",
           request'.at \in {"done", "streaming"} => request'.answer # "none",
           request'.at = "handled" => (request'.effect <=> request.op \in Effects),
           request'.audited => request'.effect \/ request.op \in FailureAudited,
           request'.at # "done" => ~request'.audited,
           request'.at \in {"authenticated", "routed", "reserved", "handled", "streaming"} =>
               (mode = "local" /\ ~Public => request.fresh /\ request.fault # "cookie"),
           request'.at \in {"routed", "reserved", "handled", "streaming"} =>
               RequireCSRF /\ Served(request.op, request.method) /\ Authorized(role, request.op),
           request'.effect => \/ request.effect
                              \/ request'.at = "handled" /\ request.op \in Effects,
           \/ request'.answer = request.answer
           \/ request'.answer = "permission_denied" => ~Authorized(role, request.op)
    PROVE  IInv'
<1> USE SameFacts
<1>1. AnswerInv'
  BY DEF AnswerInv, Same
<1>2. FreshInv'
  BY DEF IInv, FreshInv, Same
<1>3. AuthInv'
  BY DEF AuthInv, Same
<1>4. RouteInv'
  BY DEF RouteInv
<1>5. EffectInv'
  <2>1. request'.answer = "permission_denied" => ~Authorized(role, request.op)
    BY DEF IInv, EffectInv
  <2>2. ASSUME Guarded'
        PROVE  /\ request.fresh /\ request.fault \notin {"cookie", "token"}
               /\ Authorized(role, request.op)
    <3>1. request'.effect /\ mode = "local" /\ request.op \notin {"Login", "VerifyMfaLogin"}
      BY <2>2 DEF Guarded, Same
    <3>2. CASE request.effect
      BY <3>1, <3>2 DEF IInv, EffectInv, Guarded
    <3>3. CASE request'.at = "handled" /\ request.op \in Effects
      <4>1. ~Public
        BY <3>1, <3>3, EffectsArePosted DEF Public
      <4>2. request.op \in Posted
        BY <3>3, EffectsArePosted
      <4>3. request.method = "POST"
        BY <3>3, <4>2 DEF Served
      <4>4. request.fault # "token"
        BY <3>1, <3>3, <4>3 DEF RequireCSRF
      <4> QED
        BY <3>1, <3>3, <4>1, <4>4
    <3> QED
      BY <3>1, <3>2, <3>3
  <2>3. /\ request'.fresh = request.fresh /\ request'.fault = request.fault
        /\ Authorized(role, request.op)' <=> Authorized(role, request.op)
    BY DEF Same
  <2> QED
    BY <2>1, <2>2, <2>3 DEF EffectInv
<1> QED
  BY <1>1, <1>2, <1>3, <1>4, <1>5 DEF IInv

\* A refusal ends the request and changes nothing else.
LEMMA ReplyStep ==
    ASSUME IInv, NEW a \in Answers \ {"none"}, Replies(a), request.at # "none",
           a = "permission_denied" => ~Authorized(role, request.op)
    PROVE  IInv'
<1>1. Shape
  BY DEF IInv
<1>2. /\ Same /\ Shape' /\ UNCHANGED live
      /\ request'.at = "done" /\ request'.answer # "none"
      /\ request'.answer \in {a, request.answer}
      /\ request'.effect = request.effect /\ request'.audited = request.audited
  BY <1>1, RepliesFacts
<1>3. request'.audited => request'.effect \/ request.op \in FailureAudited
  BY <1>2, Zenon DEF IInv, AnswerInv
<1>4. /\ request'.at # "handled"
      /\ request'.at \notin {"authenticated", "routed", "reserved", "handled", "streaming"}
      /\ request'.at \notin {"routed", "reserved", "handled", "streaming"}
  BY <1>2
<1>5. /\ live' => live
      /\ request'.effect => request.effect
      /\ \/ request'.answer = request.answer
         \/ request'.answer = "permission_denied" => ~Authorized(role, request.op)
  BY <1>2, Zenon
<1> QED
  BY <1>2, <1>3, <1>4, <1>5, Moves, Zenon

\* The other stages that a handler leaves the request in.
LEMMA GoesStep ==
    ASSUME IInv, NEW s \in {"timed", "authenticated", "routed", "hung", "done"}, Goes(s),
           request.at # "none", request.at # "done",
           s = "done" => request.answer # "none",
           s \in {"authenticated", "routed"} /\ mode = "local" /\ ~Public
               => request.fresh /\ request.fault # "cookie",
           s = "routed" =>
               RequireCSRF /\ Served(request.op, request.method) /\ Authorized(role, request.op)
    PROVE  IInv'
<1>1. Shape /\ s \in Stages
  BY DEF IInv, Stages
<1>2. /\ Same /\ Shape' /\ UNCHANGED live
      /\ request'.at = s /\ request'.answer = request.answer
      /\ request'.effect = request.effect /\ request'.audited = request.audited
  BY <1>1, GoesFacts
<1>3. request'.audited => request'.effect \/ request.op \in FailureAudited
  BY <1>2, Zenon DEF IInv, AnswerInv
<1>4. /\ request'.at # "handled"
      /\ request'.at \in {"done", "streaming"} => request'.answer # "none"
      /\ request'.at \in {"authenticated", "routed", "reserved", "handled", "streaming"} =>
            s \in {"authenticated", "routed"}
      /\ request'.at \in {"routed", "reserved", "handled", "streaming"} => s = "routed"
  BY <1>2
<1>5. /\ live' => live
      /\ request'.effect => request.effect
      /\ request'.at # "done" => ~request'.audited
  BY <1>2, Zenon DEF IInv, AnswerInv
<1> QED
  BY <1>2, <1>3, <1>4, <1>5, Moves, Zenon

\* A request behind the router has passed its checks.
LEMMA Behind ==
    ASSUME IInv, request.at \in {"routed", "reserved", "handled", "streaming"}
    PROVE  /\ mode = "local" /\ ~Public => request.fresh /\ request.fault # "cookie"
           /\ RequireCSRF /\ Served(request.op, request.method) /\ Authorized(role, request.op)
BY DEF IInv, AuthInv, RouteInv

\* A step that changes stage, answer or history of a request behind the router.
LEMMA BehindStep ==
    ASSUME IInv, Same, Shape', live' => live,
           request.at \in {"routed", "reserved", "handled", "streaming"},
           request'.at \in {"reserved", "handled", "streaming", "done"},
           request'.at \in {"done", "streaming"} => request'.answer # "none",
           request'.at = "handled" => (request'.effect <=> request.op \in Effects),
           request'.audited => request'.effect \/ request.op \in FailureAudited,
           request'.at # "done" => ~request'.audited,
           request'.effect => \/ request.effect
                              \/ request'.at = "handled" /\ request.op \in Effects,
           request'.answer = request.answer \/ request'.answer \in {"2xx", "refused"}
    PROVE  IInv'
<1>1. /\ mode = "local" /\ ~Public => request.fresh /\ request.fault # "cookie"
      /\ RequireCSRF /\ Served(request.op, request.method) /\ Authorized(role, request.op)
  BY Behind
<1>2. request.at # "none"
  OBVIOUS
<1>3. \/ request'.answer = request.answer
      \/ request'.answer = "permission_denied" => ~Authorized(role, request.op)
  <2>1. "permission_denied" \notin {"2xx", "refused"}
    OBVIOUS
  <2> QED
    BY <2>1, Zenon
<1> QED
  BY <1>1, <1>2, <1>3, Moves, Zenon

-----------------------------------------------------------------------------

LEMMA ArriveStep ==
    ASSUME IInv, NEW op \in Asked, NEW method \in Methods, NEW fault \in Faults(op),
           Arrive(op, method, fault)
    PROVE  IInv'
<1>1. op \in Operations
  BY RequestsConstants
<1>2. fault \in AnyFault
  BY DEF Faults, AnyFault
<1>3. request' = [op |-> op, method |-> method, fault |-> fault, fresh |-> live,
                  at |-> "arrived", answer |-> "none", reserved |-> FALSE,
                  effect |-> FALSE, audited |-> FALSE]
  BY DEF Arrive, NoRequest
<1>4. UNCHANGED <<mode, timed, role, live>> /\ Shape
  BY DEF Arrive, IInv, configuration
<1>5. /\ request'.at = "arrived" /\ request'.answer = "none" /\ request'.fresh = live
      /\ request'.effect = FALSE /\ request'.audited = FALSE
  BY <1>3
<1>6. Shape'
  BY <1>1, <1>2, <1>3, <1>4 DEF Shape, Stages, Answers
<1>7. AnswerInv' /\ FreshInv' /\ AuthInv' /\ RouteInv'
  BY <1>4, <1>5 DEF AnswerInv, FreshInv, AuthInv, RouteInv
<1>8. EffectInv'
  BY <1>5 DEF EffectInv, Guarded
<1> QED
  BY <1>6, <1>7, <1>8 DEF IInv

LEMMA TimeoutStep ==
    ASSUME IInv, TimeoutExcept
    PROVE  IInv'
<1>1. /\ request' = [request EXCEPT !.answer = "timeout"] /\ UNCHANGED <<mode, timed, role, live>>
      /\ request.at \in {"timed", "authenticated", "routed", "reserved", "handled", "hung"}
      /\ Shape
  BY DEF TimeoutExcept, Running, IInv, configuration
<1>2. /\ Same /\ request'.at = request.at /\ request'.answer = "timeout"
      /\ request'.effect = request.effect /\ request'.audited = request.audited
  BY <1>1 DEF Shape, Same
<1>3. Shape'
  BY <1>1 DEF Shape, Answers
<1>4. /\ request'.at = "handled" => (request'.effect <=> request.op \in Effects)
      /\ request'.audited => request'.effect \/ request.op \in FailureAudited
      /\ request'.at # "done" => ~request'.audited
      /\ request'.effect => request.effect
      /\ request'.at \in {"authenticated", "routed", "reserved", "handled", "streaming"} =>
            (mode = "local" /\ ~Public => request.fresh /\ request.fault # "cookie")
      /\ request'.at \in {"routed", "reserved", "handled", "streaming"} =>
            RequireCSRF /\ Served(request.op, request.method) /\ Authorized(role, request.op)
      /\ live' => live
  BY <1>1, <1>2, Zenon DEF IInv, AnswerInv, AuthInv, RouteInv
<1>5. /\ request.at # "none" /\ request'.answer # "none"
      /\ request'.answer # "permission_denied"
  BY <1>1, <1>2
<1> QED
  BY <1>2, <1>3, <1>4, <1>5, Moves, Zenon

LEMMA HangStep ==
    ASSUME IInv, Hang
    PROVE  IInv'
<1>1. Goes("hung") /\ request.at # "none" /\ request.at # "done"
  BY DEF Hang, Running
<1> QED
  BY <1>1, GoesStep

LEMMA AuthenticateStep ==
    ASSUME IInv, Authenticate
    PROVE  IInv'
<1>1. request.at = "timed" /\ request.at # "none" /\ request.at # "done"
  BY DEF Authenticate
<1>2. CASE /\ Public \/ mode = "development-bypass" \/ (request.fault # "cookie" /\ live)
           /\ Goes("authenticated")
  <2>1. mode = "local" /\ ~Public => request.fresh /\ request.fault # "cookie"
    BY <1>1, <1>2 DEF IInv, FreshInv
  <2> QED
    BY <1>1, <1>2, <2>1, GoesStep
<1>3. CASE Replies("401")
  <2>1. "401" \in Answers \ {"none"} /\ "401" # "permission_denied"
    BY DEF Answers
  <2> QED
    BY <1>1, <1>3, <2>1, ReplyStep, Zenon
<1> QED
  BY <1>2, <1>3 DEF Authenticate

LEMMA RouteStep ==
    ASSUME IInv, Route
    PROVE  IInv'
<1>1. request.at = "authenticated" /\ request.at # "none" /\ request.at # "done"
  BY DEF Route
<1>2. \/ /\ RequireCSRF /\ Served(request.op, request.method) /\ Authorized(role, request.op)
         /\ Goes("routed")
      \/ Replies("csrf_failed") \/ Replies("404") \/ Replies("invalid_request_parameter")
      \/ Replies("permission_denied") /\ ~Authorized(role, request.op)
  BY DEF Route
<1>3. CASE /\ RequireCSRF /\ Served(request.op, request.method) /\ Authorized(role, request.op)
           /\ Goes("routed")
  <2>1. mode = "local" /\ ~Public => request.fresh /\ request.fault # "cookie"
    BY <1>1 DEF IInv, AuthInv
  <2> QED
    BY <1>1, <1>3, <2>1, GoesStep
<1>4. /\ {"csrf_failed", "404", "invalid_request_parameter", "permission_denied"}
            \subseteq Answers \ {"none"}
      /\ "csrf_failed" # "permission_denied" /\ "404" # "permission_denied"
      /\ "invalid_request_parameter" # "permission_denied"
  BY DEF Answers
<1> QED
  BY <1>1, <1>2, <1>3, <1>4, ReplyStep, Zenon

LEMMA KeyStep ==
    ASSUME IInv, withIdempotency
    PROVE  IInv'
<1>1. request.at = "routed" /\ request.at \notin {"none", "done"} /\ Shape
  BY DEF withIdempotency, IInv
<1>2. {"invalid", "replayed"} \subseteq Answers \ {"none", "permission_denied"}
  BY DEF Answers
<1>3. CASE Replies("invalid") \/ Replies("replayed")
  BY <1>1, <1>2, <1>3, ReplyStep, Zenon
<1>4. CASE /\ request' = [request EXCEPT !.at = "reserved", !.reserved = TRUE]
           /\ UNCHANGED <<mode, timed, role, live>>
  <2>1. /\ Same /\ request'.at = "reserved" /\ request'.answer = request.answer
        /\ request'.effect = request.effect /\ request'.audited = request.audited
    BY <1>1, <1>4 DEF Shape, Same
  <2>2. Shape'
    BY <1>1, <1>4 DEF Shape, Stages
  <2>3. /\ request'.audited => request'.effect \/ request.op \in FailureAudited
        /\ request'.effect => request.effect
        /\ ~request'.audited
        /\ live' => live
    BY <1>1, <1>4, <2>1, Zenon DEF IInv, AnswerInv
  <2>4. /\ request'.at \notin {"done", "streaming"} /\ request'.at # "handled"
        /\ request'.at \in {"reserved", "handled", "streaming", "done"}
        /\ request.at \in {"routed", "reserved", "handled", "streaming"}
    BY <1>1, <2>1
  <2> QED
    BY <2>1, <2>2, <2>3, <2>4, BehindStep, Zenon
<1> QED
  BY <1>3, <1>4 DEF withIdempotency, configuration

LEMMA HandlerStep ==
    ASSUME IInv, HandlerRefuses \/ HandlerPanics \/ HandlerSucceeds
    PROVE  IInv'
<1>1. request.at \in {"routed", "reserved"} /\ request.at # "none" /\ Shape
  BY DEF HandlerRefuses, HandlerPanics, HandlerSucceeds, AtHandler, IInv
<1>2. {"refused", "500"} \subseteq Answers \ {"none", "permission_denied"}
  BY DEF Answers
<1>3. CASE HandlerPanics
  BY <1>1, <1>2, <1>3, ReplyStep, Zenon DEF HandlerPanics
<1>5. CASE HandlerRefuses
  <2>1. PICK recorded \in IF request.op \in FailureAudited /\ request.fault # "body"
                          THEN BOOLEAN ELSE {FALSE} :
           request' = [request EXCEPT !.at = "done", !.audited = recorded,
                          !.answer = IF request.answer = "none" THEN "refused" ELSE request.answer]
    BY <1>5 DEF HandlerRefuses
  <2>2. UNCHANGED <<mode, timed, role, live>>
    BY <1>5 DEF HandlerRefuses, configuration
  <2>3. /\ Same /\ request'.at = "done" /\ request'.answer # "none"
        /\ request'.answer = request.answer \/ request'.answer = "refused"
        /\ request'.effect = request.effect /\ request'.audited = recorded
    BY <1>1, <2>1, <2>2 DEF Shape, Same
  <2>4. Shape'
    BY <1>1, <2>1, <2>2 DEF Shape, Stages, Answers
  <2>5. request'.audited => request'.effect \/ request.op \in FailureAudited
    BY <2>1, <2>3
  <2>6. /\ request'.at \in {"reserved", "handled", "streaming", "done"}
        /\ request'.at # "handled"
        /\ request.at \in {"routed", "reserved", "handled", "streaming"}
    BY <1>1, <2>3
  <2>7. (request'.effect => request.effect) /\ (live' => live)
    BY <2>2, <2>3, Zenon
  <2> QED
    BY <2>3, <2>4, <2>5, <2>6, <2>7, BehindStep, Zenon
<1>4. CASE HandlerSucceeds
  <2>1. /\ request' = [request EXCEPT !.at = "handled", !.effect = request.op \in Effects]
        /\ UNCHANGED <<mode, timed, role>> /\ live' \in BOOLEAN /\ (live' => live)
    BY <1>4 DEF HandlerSucceeds, configuration
  <2>2. /\ Same /\ request'.at = "handled" /\ request'.answer = request.answer
        /\ request'.audited = request.audited
    BY <1>1, <2>1 DEF Shape, Same
  <2>3. request'.effect <=> request.op \in Effects
    BY <1>1, <2>1 DEF Shape
  <2>4. Shape'
    <3> DEFINE e == request.op \in Effects
    <3>1. e \in BOOLEAN
      OBVIOUS
    <3>2. request' = [request EXCEPT !.at = "handled", !.effect = e]
      BY <2>1
    <3> HIDE DEF e
    <3> QED
      BY <1>1, <2>1, <3>1, <3>2 DEF Shape, Stages
  <2>5. ~request'.audited
    BY <1>1, <2>2 DEF IInv, AnswerInv
  <2> QED
    BY <1>1, <2>1, <2>2, <2>3, <2>4, <2>5, BehindStep
<1> QED
  BY <1>3, <1>4, <1>5

LEMMA FinishStep ==
    ASSUME IInv, Finish
    PROVE  IInv'
<1>1. PICK recorded \in IF request.op \in Audited THEN BOOLEAN ELSE {FALSE} :
         request' = [request EXCEPT !.at = "done", !.audited = recorded,
                        !.answer = IF request.answer = "none" THEN "2xx" ELSE request.answer]
  BY DEF Finish
<1>2. request.at = "handled" /\ UNCHANGED <<mode, timed, role, live>> /\ Shape
  BY DEF Finish, IInv, configuration
<1>3. /\ Same /\ request'.at = "done" /\ request'.answer # "none"
      /\ request'.answer = request.answer \/ request'.answer = "2xx"
      /\ request'.effect = request.effect /\ request'.audited = recorded
  BY <1>1, <1>2 DEF Shape, Same
<1>4. Shape'
  BY <1>1, <1>2 DEF Shape, Stages, Answers
<1>5. request'.audited => request'.effect \/ request.op \in FailureAudited
  <2>1. request'.audited => request.op \in Audited
    BY <1>1, <1>3
  <2> QED
    BY <2>1, <1>2, <1>3, EffectsArePosted DEF IInv, AnswerInv
<1>6. /\ request.at \in {"routed", "reserved", "handled", "streaming"}
      /\ request'.at \in {"reserved", "handled", "streaming", "done"}
      /\ request'.at # "handled"
  BY <1>2, <1>3
<1>7. (request'.effect => request.effect) /\ (live' => live)
  BY <1>2, <1>3, Zenon
<1> QED
  BY <1>3, <1>4, <1>5, <1>6, <1>7, BehindStep, Zenon

LEMMA StreamStep ==
    ASSUME IInv, OpenStream \/ Disconnect
    PROVE  IInv'
<1>1. CASE OpenStream
  <2>1. /\ request' = [request EXCEPT !.at = "streaming", !.answer = "2xx"]
        /\ UNCHANGED <<mode, timed, role, live>> /\ request.at = "routed" /\ Shape
    BY <1>1 DEF OpenStream, IInv, configuration
  <2>2. /\ Same /\ request'.at = "streaming" /\ request'.answer = "2xx"
        /\ request'.effect = request.effect /\ request'.audited = request.audited
    BY <2>1 DEF Shape, Same
  <2>3. Shape'
    BY <2>1 DEF Shape, Stages, Answers
  <2>4. /\ request'.audited => request'.effect \/ request.op \in FailureAudited
        /\ request'.effect => request.effect
        /\ ~request'.audited
        /\ live' => live
    BY <2>1, <2>2 DEF IInv, AnswerInv
  <2>5. /\ request.at \in {"routed", "reserved", "handled", "streaming"}
        /\ request'.at \in {"reserved", "handled", "streaming", "done"}
        /\ request'.at # "handled" /\ request'.answer # "none"
    BY <2>1, <2>2
  <2> QED
    BY <2>2, <2>3, <2>4, <2>5, BehindStep, Zenon
<1>2. CASE Disconnect
  <2>1. /\ Goes("done") /\ request.at = "streaming"
        /\ request.at # "none" /\ request.at # "done"
    BY <1>2 DEF Disconnect
  <2>2. request.answer # "none"
    BY <2>1 DEF IInv, AnswerInv
  <2> QED
    BY <2>1, <2>2, GoesStep
<1> QED
  BY <1>1, <1>2

LEMMA QuietStep ==
    ASSUME IInv, EndSession \/ NextRequest
    PROVE  IInv'
<1>1. CASE EndSession
  <2>1. UNCHANGED <<mode, timed, role, request>> /\ live' = FALSE
    BY <1>1 DEF EndSession, configuration
  <2>2. Shape' /\ AnswerInv' /\ FreshInv'
    BY <2>1 DEF IInv, Shape, AnswerInv, FreshInv
  <2>3. AuthInv' /\ RouteInv' /\ EffectInv'
    BY <2>1 DEF IInv, AuthInv, RouteInv, EffectInv, Guarded, Public, RequireCSRF, Served,
       Authorized, Allowed
  <2> QED
    BY <2>2, <2>3 DEF IInv
<1>2. CASE NextRequest
  <2>1. UNCHANGED <<mode, timed, role, live>> /\ Shape
    BY <1>2 DEF NextRequest, IInv, configuration
  <2>2. request' = [op |-> "none", method |-> "none", fault |-> "none", fresh |-> FALSE,
              at |-> "none", answer |-> "none", reserved |-> FALSE, effect |-> FALSE,
              audited |-> FALSE]
    BY <1>2 DEF NextRequest, NoRequest
  <2>3. Shape'
    BY <2>1, <2>2 DEF Shape, AnyFault, Answers
  <2>4. /\ request'.at = "none" /\ request'.answer = "none"
        /\ request'.effect = FALSE /\ request'.audited = FALSE
    BY <2>2
  <2> QED
    BY <2>3, <2>4 DEF IInv, AnswerInv, FreshInv, AuthInv, RouteInv, EffectInv, Guarded
<1> QED
  BY <1>1, <1>2

LEMMA Invariance == Spec => []IInv
<1>1. Init => IInv
  <2> SUFFICES ASSUME Init PROVE IInv
    OBVIOUS
  <2>1. /\ request = [op |-> "none", method |-> "none", fault |-> "none", fresh |-> FALSE,
              at |-> "none", answer |-> "none", reserved |-> FALSE, effect |-> FALSE,
              audited |-> FALSE]
        /\ live = TRUE
    BY DEF Init, NoRequest
  <2>2. /\ mode \in {"local", "development-bypass"} /\ role \in Roles
        /\ timed \in BOOLEAN
    BY DEF Init, Roles, New
  <2>3. Shape
    BY <2>1, <2>2 DEF Shape, AnyFault, Answers
  <2>4. /\ request.at = "none" /\ request.answer = "none"
        /\ request.effect = FALSE /\ request.audited = FALSE
    BY <2>1
  <2> QED
    BY <2>3, <2>4 DEF IInv, AnswerInv, FreshInv, AuthInv, RouteInv, EffectInv, Guarded
<1>2. IInv /\ [Next]_vars => IInv'
  <2> SUFFICES ASSUME IInv, [Next]_vars PROVE IInv'
    OBVIOUS
  <2>1. CASE \E op \in Asked, method \in Methods : \E fault \in Faults(op) :
                Arrive(op, method, fault)
    BY <2>1, ArriveStep
  <2>2. CASE CORS
    <3>1. request.at = "arrived" /\ request.at # "none" /\ request.at # "done"
      BY <2>2 DEF CORS
    <3>2. CASE Replies("204")
      <4>1. "204" \in Answers \ {"none"} /\ "204" # "permission_denied"
        BY DEF Answers
      <4> QED
        BY <3>1, <3>2, <4>1, ReplyStep, Zenon
    <3>3. CASE Goes("timed")
      BY <3>1, <3>3, GoesStep
    <3> QED
      BY <2>2, <3>2, <3>3 DEF CORS
  <2>3. CASE UNCHANGED vars
    <3>1. UNCHANGED <<mode, timed, role, live, request>>
      BY <2>3 DEF vars, configuration
    <3> QED
      BY <3>1 DEF IInv, Shape, AnswerInv, FreshInv, AuthInv, RouteInv, EffectInv, Guarded,
         Public, RequireCSRF, Served, Authorized, Allowed
  <2> QED
    BY <2>1, <2>2, <2>3, TimeoutStep, HangStep, AuthenticateStep, RouteStep, KeyStep, HandlerStep,
       FinishStep, StreamStep, QuietStep DEF Next, Serve
<1> QED
  BY <1>1, <1>2, PTL DEF Spec

-----------------------------------------------------------------------------
\* The request and the session keep their types, a request that is done has an
\* answer, and what was recorded had an effect or is a login, or the code of
\* one, that failed.
THEOREM RequestsTypeCorrect == Spec => []TypeOK
<1>1. IInv => TypeOK
  BY DEF IInv, Shape, AnswerInv, TypeOK
<1> QED
  BY <1>1, Invariance, PTL

\* Whatever the session does while a request is under way, an operation takes
\* effect only behind every check of the middleware that it needs, and a role
\* is refused only what is not its duty (Authenticate, RequireCSRF, Authorize).
THEOREM EntitledTheorem ==
    ASSUME DutiesFit
    PROVE  Spec => []EffectIsEntitled
<1>1. IInv => EffectIsEntitled
  <2> SUFFICES ASSUME IInv PROVE EffectIsEntitled
    OBVIOUS
  <2>1. \A op \in DOMAIN Permission : Authorized(role, op) <=> op \in Duties[role]
    BY DEF DutiesFit, Authorized, IInv, Shape
  <2>2. ASSUME Guarded
        PROVE  /\ request.fresh /\ request.fault \notin {"cookie", "token"}
               /\ request.op \in DOMAIN Permission => request.op \in Duties[role]
    BY <2>1, <2>2 DEF IInv, EffectInv
  <2>3. ASSUME request.answer = "permission_denied"
        PROVE  request.op \notin Duties[role]
    <3>1. ~Authorized(role, request.op)
      BY <2>3 DEF IInv, EffectInv
    <3>2. request.op \in DOMAIN Permission
      BY <3>1 DEF Authorized
    <3> QED
      BY <2>1, <3>1, <3>2
  <2> QED
    BY <2>2, <2>3 DEF EffectIsEntitled, Guarded
<1> QED
  BY <1>1, Invariance, PTL
=============================================================================
