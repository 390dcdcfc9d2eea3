---------------------------- MODULE LoginLockout ----------------------------
(***************************************************************************)
(* The password check of BeginLogin and the lock of an account: FindUser   *)
(* reads the row of the user, and everything up to RegisterLoginFailure or *)
(* ResetLoginFailures is decided from that copy while other logins of the  *)
(* same account go on.                                                     *)
(***************************************************************************)
EXTENDS Integers, FiniteSets

CONSTANTS
    Logins,      \* clients that try the account, each one request at a time
    Threshold,   \* loginFailureThreshold
    LockFor,     \* loginLockDuration
    Never,       \* password_expires_at IS NULL
    MaxTime,     \* bound on the clock
    MaxFaults    \* bound on failed statements

ASSUME LockoutConstants ==
    /\ Threshold \in Nat \ {0}
    /\ LockFor \in Nat \ {0}
    /\ Never \notin Int
    /\ MaxTime \in Nat
    /\ MaxFaults \in Nat
    /\ IsFiniteSet(Logins)

VARIABLES
    failed, lockedUntil,  \* users.failed_attempts, users.locked_until (0: NULL)
    expiresAt,            \* user_security.password_expires_at
    restricted,           \* the account is break-glass and bound to a network
    pc,                   \* control point of a login
    seenFailed,           \* the copy of failed_attempts
    seenLocked,           \* and of locked_until
    secret,               \* the password of the request is the right one
    inside,               \* the request comes from an allowed network
    guesses,              \* history: wrong passwords compared since the last reset
    now, faults

account == <<failed, lockedUntil, expiresAt, restricted>>
seen == <<seenFailed, seenLocked>>
lockoutVars == <<account, pc, seen, secret, inside, guesses, now, faults>>

\* Wrong passwords that may be compared before the clock reaches `now`
\* without a right one in between.  Each period of the lock starts with at
\* most one guess per client; the first has Threshold - 1 more.
Allowance(time) ==
    Threshold - 1 + Cardinality(Logins) * (1 + time \div LockFor) + MaxFaults

Counts == 0..(Allowance(MaxTime) + Cardinality(Logins))

LockoutTypeOK ==
    /\ failed \in Counts
    /\ lockedUntil \in 0..(MaxTime + LockFor)
    /\ expiresAt \in {Never, MaxTime} /\ restricted \in BOOLEAN
    /\ pc \in [Logins -> {"idle", "read", "compare", "failure", "answer", "success"}]
    /\ seenFailed \in [Logins -> Counts]
    /\ seenLocked \in [Logins -> 0..(MaxTime + LockFor)]
    /\ secret \in [Logins -> BOOLEAN] /\ inside \in [Logins -> BOOLEAN]
    /\ guesses \in Nat
    /\ now \in 0..MaxTime /\ faults \in 0..MaxFaults

LockoutInit ==
    /\ failed = 0 /\ lockedUntil = 0
    /\ expiresAt \in {Never, MaxTime}
    /\ restricted \in BOOLEAN
    /\ pc = [l \in Logins |-> "idle"]
    /\ seenFailed = [l \in Logins |-> 0] /\ seenLocked = [l \in Logins |-> 0]
    /\ secret = [l \in Logins |-> FALSE]
    /\ inside = [l \in Logins |-> FALSE]
    /\ guesses = 0
    /\ now = 0
    /\ faults = 0

-----------------------------------------------------------------------------
\* The login is answered and its copy of the row forgotten.
Answer(l) ==
    /\ pc' = [pc EXCEPT ![l] = "idle"]
    /\ seenFailed' = [seenFailed EXCEPT ![l] = 0]
    /\ seenLocked' = [seenLocked EXCEPT ![l] = 0]
    /\ secret' = [secret EXCEPT ![l] = FALSE]
    /\ inside' = [inside EXCEPT ![l] = FALSE]

\* FindUser.
FindUser(l, right, in) ==
    /\ pc[l] = "idle"
    /\ seenFailed' = [seenFailed EXCEPT ![l] = failed]
    /\ seenLocked' = [seenLocked EXCEPT ![l] = lockedUntil]
    /\ secret' = [secret EXCEPT ![l] = right]
    /\ inside' = [inside EXCEPT ![l] = in]
    /\ pc' = [pc EXCEPT ![l] = "read"]
    /\ UNCHANGED <<account, guesses, now, faults>>

Locked(l) == seenLocked[l] > now
PasswordExpired == expiresAt # Never /\ expiresAt <= now
NetworkRestricted(l) == restricted /\ ~inside[l]

\* The early returns of BeginLogin; none of them compares the password.
Turned(l) ==
    /\ pc[l] = "read"
    /\ Locked(l) \/ PasswordExpired \/ NetworkRestricted(l)
    /\ Answer(l)
    /\ UNCHANGED <<account, guesses, now, faults>>

Admissible(l) ==
    /\ pc[l] = "read"
    /\ ~Locked(l) /\ ~PasswordExpired /\ ~NetworkRestricted(l)
    /\ pc' = [pc EXCEPT ![l] = "compare"]
    /\ UNCHANGED <<account, seen, secret, inside, guesses, now, faults>>

VerifyPassword(l) ==
    /\ pc[l] = "compare"
    /\ pc' = [pc EXCEPT ![l] = IF secret[l] THEN "success" ELSE "failure"]
    /\ guesses' = IF secret[l] THEN guesses ELSE guesses + 1
    /\ UNCHANGED <<account, seen, secret, inside, now, faults>>

\* (mutation: the new count is computed from the copy of the row)
RegisterLoginFailureStale(l) ==
    /\ pc[l] = "failure"
    /\ failed' = seenFailed[l] + 1
    /\ lockedUntil' = IF seenFailed[l] + 1 >= Threshold THEN now + LockFor ELSE lockedUntil
    /\ pc' = [pc EXCEPT ![l] = "answer"]
    /\ UNCHANGED <<expiresAt, restricted, seen, secret, inside, guesses, now, faults>>

\* RegisterLoginFailure: one UPDATE that counts and locks, ...
RegisterLoginFailure(l) ==
    /\ pc[l] = "failure"
    /\ failed' = failed + 1
    /\ lockedUntil' = IF failed + 1 >= Threshold THEN now + LockFor ELSE lockedUntil
    /\ pc' = [pc EXCEPT ![l] = "answer"]
    /\ UNCHANGED <<expiresAt, restricted, seen, secret, inside, guesses, now, faults>>

\* ... then a SELECT that decides between the two refusals (locked, invalid).
AnswerFailure(l) ==
    /\ pc[l] = "answer"
    /\ Answer(l)
    /\ UNCHANGED <<account, guesses, now, faults>>

ResetLoginFailures(l) ==
    /\ pc[l] = "success"
    /\ failed' = 0 /\ lockedUntil' = 0
    /\ guesses' = 0
    /\ Answer(l)
    /\ UNCHANGED <<expiresAt, restricted, now, faults>>

\* Any of the statements fails; the client is told that its credentials are
\* invalid.
StatementFails(l) ==
    /\ pc[l] \in {"failure", "answer", "success"}
    /\ faults < MaxFaults /\ faults' = faults + 1
    /\ Answer(l)
    /\ UNCHANGED <<account, guesses, now>>

Tick ==
    /\ now < MaxTime
    /\ now' = now + 1
    /\ UNCHANGED <<account, pc, seen, secret, inside, guesses, faults>>

LockoutNext ==
    \/ \E l \in Logins :
          \/ \E right, in \in BOOLEAN : FindUser(l, right, in)
          \/ Turned(l) \/ Admissible(l) \/ VerifyPassword(l)
          \/ RegisterLoginFailure(l) \/ AnswerFailure(l) \/ ResetLoginFailures(l)
          \/ StatementFails(l)
    \/ Tick

LockoutSpec == LockoutInit /\ [][LockoutNext]_lockoutVars

-----------------------------------------------------------------------------
(***************************************************************************)
(* Properties.                                                             *)
(***************************************************************************)

\* However many logins of one account run side by side, the wrong passwords
\* that are compared without a right one in between stay within the allowance:
\* copies of the row that are out of date cost at most one guess per client
\* and period, because the UPDATE counts in the database and failed_attempts
\* stays at the threshold when a lock runs out (RegisterLoginFailure).
GuessesBounded == guesses <= Allowance(now)
=============================================================================
