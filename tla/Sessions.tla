------------------------------ MODULE Sessions ------------------------------
(***************************************************************************)
(* The sessions of one account and its second factor: the end of           *)
(* BeginLogin, CompleteMFA, Renew, Logout, and enrolment, rotation and     *)
(* revocation of MFA (auth/service.go, auth/mfa.go), each one handler that *)
(* runs its statements one at a time without a transaction.                *)
(*                                                                         *)
(* A TOTP code is named by the secret it was computed from, a recovery     *)
(* code by its row.  Statements that only read what the next one reads     *)
(* again (Authenticate, Current) are part of the step that decides.        *)
(***************************************************************************)
EXTENDS Integers

CONSTANTS
    Handlers,      \* requests being served
    None,          \* no code
    MaxSessions,   \* bounds on the sessions, challenges, secrets and batches
    MaxChallenges, \* of recovery codes that are created: each is named by
    MaxSecrets,    \* its number, the random identifiers being distinct
    MaxBatches,
    CodeCount,     \* codes in a batch, recoveryCodeCount
    TTL, ChallengeTTL,
    MaxTime, MaxFaults

ASSUME SessionsConstants ==
    /\ MaxSessions \in Nat \ {0} /\ MaxChallenges \in Nat
    /\ MaxSecrets \in Nat \ {0} /\ MaxBatches \in Nat \ {0}
    /\ TTL \in Nat \ {0} /\ ChallengeTTL \in Nat \ {0}
    /\ CodeCount \in Nat \ {0}
    /\ MaxTime \in Nat /\ MaxFaults \in Nat

Tokens == 1..MaxSessions
First == 1
Challenges == 1..MaxChallenges
Secrets == 1..MaxSecrets
Batches == 1..MaxBatches
Places == 1..CodeCount
NoSecret == 0
NoSession == 0
NoChallenge == 0

\* What a client may present as second factor.
TOTP(secret) == <<"totp", secret, 0>>
Recovery(b, n) == <<"recovery", b, n>>
Codes == {Recovery(b, n) : b \in Batches, n \in Places}
Factors == {TOTP(s) : s \in Secrets} \cup Codes

ASSUME NoneAssumption == None \notin Factors

VARIABLES
    policy,      \* who asks for MFA: nobody, the user's row, a role
    sessions,    \* rows of table sessions: expires_at, 0 for no row
    challenges,  \* rows of table mfa_challenges, likewise
    active,      \* mfa_totp: secret_ciphertext
    pending,     \* and pending_ciphertext
    codes,       \* mfa_recovery_codes: no row, used_at IS NULL, or used
    op, pc,      \* what a handler serves and where it is
    cookie,      \* its session cookie
    fresh,       \* the session it creates
    challenge,   \* the challenge it answers
    given,       \* the code it was given
    left,        \* recovery codes it has still to insert
    batch,       \* the batch it inserts
    via,         \* history: how a session came about,
    from, by,    \* from which challenge or session, and by which factor
    ended,       \* history: sessions that logout or DeleteUserSessions ended
    stale,       \* history: the code it was given was retired on arrival
    retired,     \* history: codes used or deleted, secrets no longer active
    proven,      \* history: secrets of which a confirmation saw a code
    racedSessions, \* history: sessions that ended while one statement of their
    racedSecrets,  \* renewal was done, secrets begun likewise in a confirmation
    lastSession, lastChallenge, lastSecret, lastBatch,  \* identifiers handed out
    now, faults

request == <<op, cookie, challenge, given>>
totp == <<active, pending>>
rows == <<sessions, challenges, totp, codes>>
locals == <<fresh, left, batch>>
clock == <<now, faults>>
made == <<via, from, by>>
raced == <<racedSessions, racedSecrets>>
history == <<made, ended, proven, raced, stale, retired>>
issued == <<lastSession, lastChallenge, lastSecret, lastBatch>>
vars == <<policy, rows, request, pc, locals, history, issued, clock>>

Ops == {"login", "verify", "renew", "logout", "begin", "confirm", "rotate", "revoke"}
ControlPoints == {"idle", "start", "insert_challenge", "claim", "factor", "recovery",
    "mark", "create", "replace", "drop_old", "drop_new", "activate", "delete_codes",
    "create_codes", "delete_sessions", "ok", "refused", "failed"}

RowTypes ==
    /\ sessions \in [Tokens -> Nat]
    /\ challenges \in [Challenges -> Nat]
    /\ active \in Secrets \cup {NoSecret} /\ pending \in Secrets \cup {NoSecret}
    /\ codes \in [Codes -> {"none", "unused", "used"}]

HandlerTypes ==
    /\ op \in [Handlers -> Ops]
    /\ pc \in [Handlers -> ControlPoints]
    /\ cookie \in [Handlers -> Tokens]
    /\ fresh \in [Handlers -> Tokens \cup {NoSession}]
    /\ challenge \in [Handlers -> Challenges \cup {NoChallenge}]
    /\ given \in [Handlers -> Factors \cup {None}]
    /\ \A h \in Handlers : pc[h] = "mark" => given[h] \in Codes
    /\ left \in [Handlers -> 0..CodeCount]
    /\ batch \in [Handlers -> Batches]

HistoryTypes ==
    /\ via \in [Tokens -> {"none", "earlier", "password", "mfa", "renewal"}]
    /\ from \in [Tokens -> Nat]
    /\ by \in [Tokens -> Factors \cup {None}]
    /\ ended \subseteq Tokens /\ racedSessions \subseteq Tokens
    /\ proven \subseteq Secrets /\ racedSecrets \subseteq Secrets
    /\ stale \in [Handlers -> BOOLEAN] /\ retired \subseteq Factors

CounterTypes ==
    /\ lastSession \in Tokens /\ lastChallenge \in 0..MaxChallenges
    /\ lastSecret \in 0..MaxSecrets /\ lastBatch \in Batches
    /\ now \in 0..MaxTime /\ faults \in 0..MaxFaults
    /\ policy \in {"none", "user", "role"}

TypeOK == RowTypes /\ HandlerTypes /\ HistoryTypes /\ CounterTypes

\* An account as earlier logins, enrolments and restarts may have left it.
Init ==
    /\ policy \in {"none", "user", "role"}
    /\ sessions = [t \in Tokens |-> IF t = First THEN TTL ELSE 0]
    /\ lastSession = First
    /\ lastChallenge \in {0, MaxChallenges}
    /\ lastSecret \in {NoSecret, 1}
    /\ lastBatch = 1
    /\ challenges = [c \in Challenges |-> IF c <= lastChallenge THEN ChallengeTTL ELSE 0]
    /\ active = lastSecret /\ pending = NoSecret
    /\ lastSecret = NoSecret => lastChallenge = 0
    /\ codes = [c \in Codes |->
                  IF lastSecret # NoSecret /\ \E n \in Places : c = Recovery(1, n)
                    THEN "unused" ELSE "none"]
    /\ op = [h \in Handlers |-> "login"]
    /\ pc = [h \in Handlers |-> "idle"]
    /\ cookie = [h \in Handlers |-> First]
    /\ fresh = [h \in Handlers |-> NoSession]
    /\ challenge = [h \in Handlers |-> NoChallenge]
    /\ given = [h \in Handlers |-> None]
    /\ left = [h \in Handlers |-> 0]
    /\ batch = [h \in Handlers |-> 1]
    /\ via = [t \in Tokens |-> IF t = First THEN "earlier" ELSE "none"]
    /\ from = [t \in Tokens |-> NoSession]
    /\ by = [t \in Tokens |-> None]
    /\ ended = {}
    /\ proven = {active} \ {NoSecret}
    /\ racedSessions = {} /\ racedSecrets = {}
    /\ stale = [h \in Handlers |-> FALSE]
    /\ retired = {}
    /\ now = 0
    /\ faults = 0

-----------------------------------------------------------------------------
Goto(h, point) == pc' = [pc EXCEPT ![h] = point]

\* The cookies, challenges and codes a client can know.
Cookies(o) == IF o \in {"login", "verify"} THEN {First} ELSE 1..lastSession
ChallengesFor(o) == IF o = "verify" THEN 1..lastChallenge ELSE {NoChallenge}
CodesFor(o) ==
    CASE o = "verify"  -> {TOTP(s) : s \in 1..lastSecret} \cup {c \in Codes : codes[c] # "none"} \cup retired
      [] o = "confirm" -> {TOTP(s) : s \in 1..lastSecret}
      [] OTHER         -> {None}

Arrive(h, o, t, c, g) ==
    /\ pc[h] = "idle"
    /\ op' = [op EXCEPT ![h] = o]
    /\ cookie' = [cookie EXCEPT ![h] = t]
    /\ challenge' = [challenge EXCEPT ![h] = c]
    /\ given' = [given EXCEPT ![h] = g]
    /\ stale' = [stale EXCEPT ![h] = g \in retired]
    /\ Goto(h, "start")
    /\ UNCHANGED <<policy, rows, locals, made, ended, proven, raced, retired, issued, clock>>

\* Authenticate and SessionUser: the row is there and not over.
Authenticated(h) == sessions[cookie[h]] > 0 /\ now <= sessions[cookie[h]]

Serves(h, o) == pc[h] = "start" /\ op[h] = o

Unauthenticated(h) ==
    /\ pc[h] = "start" /\ op[h] \notin {"login", "verify"}
    /\ ~Authenticated(h)
    /\ Goto(h, "refused")
    /\ UNCHANGED <<policy, rows, request, locals, history, issued, clock>>

RequiresMFA == policy # "none"

\* CreateSession with a new random token.
NewSession(h, how, source, factor) ==
    LET t == lastSession + 1
    IN  /\ t \in Tokens
        /\ sessions' = [sessions EXCEPT ![t] = now + TTL]
        /\ via' = [via EXCEPT ![t] = how]
        /\ from' = [from EXCEPT ![t] = source]
        /\ by' = [by EXCEPT ![t] = factor]
        /\ fresh' = [fresh EXCEPT ![h] = t]
        /\ lastSession' = t
        /\ UNCHANGED <<lastChallenge, lastSecret, lastBatch>>

-----------------------------------------------------------------------------
(***************************************************************************)
(* Login after the password was accepted.                                  *)
(***************************************************************************)
LoginDirect(h) ==
    /\ Serves(h, "login") /\ ~RequiresMFA
    /\ NewSession(h, "password", NoSession, None)
    /\ Goto(h, "ok")
    /\ UNCHANGED <<policy, challenges, totp, codes, request, left, batch, ended, proven, raced, stale, retired, clock>>

LoginNeedsFactor(h) ==
    /\ Serves(h, "login") /\ RequiresMFA
    /\ Goto(h, IF active = NoSecret THEN "refused" ELSE "insert_challenge")
    /\ UNCHANGED <<policy, rows, request, locals, history, issued, clock>>

\* CreateMFAChallenge: expired rows are deleted, then the row is inserted.
CreateMFAChallenge(h) ==
    /\ pc[h] = "insert_challenge"
    /\ lastChallenge + 1 \in Challenges
    /\ lastChallenge' = lastChallenge + 1
    /\ challenges' = [c \in Challenges |->
                        IF c = lastChallenge + 1 THEN now + ChallengeTTL
                        ELSE IF challenges[c] < now THEN 0 ELSE challenges[c]]
    /\ Goto(h, "ok")
    /\ UNCHANGED <<policy, sessions, totp, codes, request, locals, history,
                   lastSession, lastSecret, lastBatch, clock>>

-----------------------------------------------------------------------------
(***************************************************************************)
(* CompleteMFA.                                                            *)
(***************************************************************************)

\* ClaimMFAChallenge: the SELECT, with the DELETE of an expired row, ...
ClaimRead(h) ==
    /\ Serves(h, "verify")
    /\ LET expires == challenges[challenge[h]]
       IN  /\ Goto(h, IF expires > now THEN "claim" ELSE "refused")
           /\ challenges' = IF expires > now THEN challenges
                            ELSE [challenges EXCEPT ![challenge[h]] = 0]
    /\ UNCHANGED <<policy, sessions, totp, codes, request, locals, history, issued, clock>>

\* (mutation: RowsAffected is not looked at)
ClaimDeleteAny(h) ==
    /\ pc[h] = "claim"
    /\ challenges' = [challenges EXCEPT ![challenge[h]] = 0]
    /\ Goto(h, "factor")
    /\ UNCHANGED <<policy, sessions, totp, codes, request, locals, history, issued, clock>>

\* ... then the DELETE that only one handler wins.
ClaimDelete(h) ==
    /\ pc[h] = "claim"
    /\ challenges' = [challenges EXCEPT ![challenge[h]] = 0]
    /\ Goto(h, IF challenges[challenge[h]] > 0 THEN "factor" ELSE "refused")
    /\ UNCHANGED <<policy, sessions, totp, codes, request, locals, history, issued, clock>>

\* The address or the user agent is not the one the challenge is bound to.
Unbound(h) ==
    /\ pc[h] = "factor"
    /\ Goto(h, "refused")
    /\ UNCHANGED <<policy, rows, request, locals, history, issued, clock>>

\* (mutation: an account without a secret needs no code)
VerifyTOTPIfEnrolled(h) ==
    /\ pc[h] = "factor"
    /\ Goto(h, IF active = NoSecret \/ TOTP(active) = given[h] THEN "create" ELSE "recovery")
    /\ UNCHANGED <<policy, rows, request, locals, history, issued, clock>>

\* verifyMFA: the active secret first, ...
VerifyTOTP(h) ==
    /\ pc[h] = "factor"
    /\ Goto(h, IF active # NoSecret /\ TOTP(active) = given[h] THEN "create" ELSE "recovery")
    /\ UNCHANGED <<policy, rows, request, locals, history, issued, clock>>

\* ... then the unused recovery codes, read as a list ...
UnusedRecoveryCodes(h) ==
    /\ pc[h] = "recovery"
    /\ Goto(h, IF given[h] \in Codes /\ codes[given[h]] = "unused" THEN "mark" ELSE "refused")
    /\ UNCHANGED <<policy, rows, request, locals, history, issued, clock>>

\* ... and marked by an UPDATE that only one handler wins.
MarkRecoveryCodeUsed(h) ==
    /\ pc[h] = "mark"
    /\ LET won == codes[given[h]] = "unused"
       IN  /\ codes' = IF won THEN [codes EXCEPT ![given[h]] = "used"] ELSE codes
           /\ Goto(h, IF won THEN "create" ELSE "refused")
    /\ retired' = retired \cup {given[h]}
    /\ UNCHANGED <<policy, sessions, challenges, totp, request, locals, made, ended, proven, raced, stale, issued, clock>>

CreateSession(h) ==
    /\ pc[h] = "create"
    /\ NewSession(h, "mfa", challenge[h], given[h])
    /\ Goto(h, "ok")
    /\ UNCHANGED <<policy, challenges, totp, codes, request, left, batch, ended, proven, raced, stale, retired, clock>>

-----------------------------------------------------------------------------
(***************************************************************************)
(* Renew (RotateSession) and Logout.                                       *)
(***************************************************************************)
RenewRead(h) ==
    /\ Serves(h, "renew") /\ Authenticated(h)
    /\ Goto(h, IF sessions[cookie[h]] > now THEN "replace" ELSE "refused")
    /\ UNCHANGED <<policy, rows, request, locals, history, issued, clock>>

RenewCreate(h) ==
    /\ pc[h] = "replace"
    /\ NewSession(h, "renewal", cookie[h], None)
    /\ Goto(h, "drop_old")
    /\ UNCHANGED <<policy, challenges, totp, codes, request, left, batch, ended, proven, raced, stale, retired, clock>>

RenewDropOld(h) ==
    /\ pc[h] = "drop_old"
    /\ sessions' = [sessions EXCEPT ![cookie[h]] = 0]
    /\ Goto(h, "ok")
    /\ UNCHANGED <<policy, challenges, totp, codes, request, locals, history, issued, clock>>

\* (mutation: the new session is handed out although the old one stays)
RenewDropOldFailsSilently(h) ==
    /\ pc[h] = "drop_old"
    /\ faults < MaxFaults /\ faults' = faults + 1
    /\ Goto(h, "ok")
    /\ UNCHANGED <<policy, rows, request, locals, history, issued, now>>

RenewDropOldFails(h) ==
    /\ pc[h] = "drop_old"
    /\ faults < MaxFaults /\ faults' = faults + 1
    /\ Goto(h, "drop_new")
    /\ UNCHANGED <<policy, rows, request, locals, history, issued, now>>

RenewDropNew(h) ==
    /\ pc[h] = "drop_new"
    /\ sessions' = [sessions EXCEPT ![fresh[h]] = 0]
    /\ Goto(h, "refused")
    /\ UNCHANGED <<policy, challenges, totp, codes, request, locals, history, issued, clock>>

\* The history of sessions ending under the hands of their renewal.
Ends(tokens) ==
    /\ ended' = ended \cup tokens
    /\ racedSessions' = racedSessions \cup
           {t \in tokens : \E g \in Handlers :
               pc[g] \in {"replace", "drop_old"} /\ cookie[g] = t}
    /\ UNCHANGED racedSecrets

Logout(h) ==
    /\ Serves(h, "logout") /\ Authenticated(h)
    /\ sessions' = [sessions EXCEPT ![cookie[h]] = 0]
    /\ Ends({cookie[h]})
    /\ Goto(h, "ok")
    /\ UNCHANGED <<policy, challenges, totp, codes, request, locals, made, proven, stale, retired, issued, clock>>

-----------------------------------------------------------------------------
(***************************************************************************)
(* Enrolment, rotation and revocation.                                     *)
(***************************************************************************)
BeginTOTPEnrollment(h) ==
    /\ Serves(h, "begin") /\ Authenticated(h)
    /\ lastSecret + 1 \in Secrets
    /\ pending' = lastSecret + 1
    /\ lastSecret' = lastSecret + 1
    /\ racedSecrets' = IF \E g \in Handlers : pc[g] = "activate"
                         THEN racedSecrets \cup {lastSecret + 1} ELSE racedSecrets
    /\ Goto(h, "ok")
    /\ UNCHANGED <<policy, sessions, challenges, active, codes, request, locals, made, ended,
                   racedSessions, proven, stale, retired, lastSession, lastChallenge, lastBatch, clock>>

\* (mutation: a code of the secret in use confirms as well)
ConfirmReadAnyCode(h) ==
    /\ Serves(h, "confirm") /\ Authenticated(h)
    /\ LET valid == pending # NoSecret /\ given[h] \in {TOTP(pending), TOTP(active)}
       IN  /\ Goto(h, IF valid THEN "activate" ELSE "refused")
           /\ proven' = IF TOTP(pending) = given[h] THEN proven \cup {pending} ELSE proven
    /\ UNCHANGED <<policy, rows, request, locals, made, ended, raced, stale, retired, issued, clock>>

\* ConfirmTOTPEnrollment: the pending secret is read and the code compared, ...
ConfirmRead(h) ==
    /\ Serves(h, "confirm") /\ Authenticated(h)
    /\ LET valid == pending # NoSecret /\ TOTP(pending) = given[h]
       IN  /\ Goto(h, IF valid THEN "activate" ELSE "refused")
           /\ proven' = IF valid THEN proven \cup {pending} ELSE proven
    /\ UNCHANGED <<policy, rows, request, locals, made, ended, raced, stale, retired, issued, clock>>

\* ... then whatever is pending becomes active (ConfirmPendingTOTP).
ConfirmActivate(h) ==
    /\ pc[h] = "activate"
    /\ IF pending = NoSecret
         THEN UNCHANGED totp /\ Goto(h, "refused")
         ELSE active' = pending /\ pending' = NoSecret /\ Goto(h, "delete_codes")
    /\ retired' = retired \cup {TOTP(s) : s \in {active} \ {active', NoSecret}}
    /\ UNCHANGED <<policy, sessions, challenges, codes, request, locals, made, ended, proven, raced, stale, issued, clock>>

RotateStart(h) ==
    /\ Serves(h, "rotate") /\ Authenticated(h)
    /\ Goto(h, "delete_codes")
    /\ UNCHANGED <<policy, rows, request, locals, history, issued, clock>>

\* RevokeTOTP, which a role that requires MFA forbids.
Revoke(h) ==
    /\ Serves(h, "revoke") /\ Authenticated(h)
    /\ IF policy = "role"
         THEN UNCHANGED totp /\ Goto(h, "refused")
         ELSE active' = NoSecret /\ pending' = NoSecret /\ Goto(h, "delete_codes")
    /\ retired' = retired \cup {TOTP(s) : s \in {active} \ {active', NoSecret}}
    /\ UNCHANGED <<policy, sessions, challenges, codes, request, locals, made, ended, proven, raced, stale, issued, clock>>

DeleteRecoveryCodes(h) ==
    /\ pc[h] = "delete_codes"
    /\ codes' = [c \in Codes |-> "none"]
    /\ IF op[h] = "revoke"
         THEN Goto(h, "delete_sessions") /\ UNCHANGED <<left, batch, issued>>
         ELSE /\ Goto(h, "create_codes")
              /\ lastBatch + 1 \in Batches
              /\ batch' = [batch EXCEPT ![h] = lastBatch + 1]
              /\ left' = [left EXCEPT ![h] = CodeCount]
              /\ lastBatch' = lastBatch + 1
              /\ UNCHANGED <<lastSession, lastChallenge, lastSecret>>
    /\ retired' = retired \cup {c \in Codes : codes[c] # "none"}
    /\ UNCHANGED <<policy, sessions, challenges, totp, request, fresh, made, ended, proven, raced, stale, clock>>

CreateRecoveryCode(h) ==
    /\ pc[h] = "create_codes"
    /\ left[h] > 0
    /\ codes' = [codes EXCEPT ![Recovery(batch[h], left[h])] = "unused"]
    /\ left' = [left EXCEPT ![h] = @ - 1]
    /\ Goto(h, IF left[h] = 1 THEN "delete_sessions" ELSE "create_codes")
    /\ UNCHANGED <<policy, sessions, challenges, totp, request, fresh, batch, history, issued, clock>>

DeleteUserSessions(h) ==
    /\ pc[h] = "delete_sessions"
    /\ sessions' = [t \in Tokens |-> 0]
    /\ Ends({t \in Tokens : via[t] # "none"})
    /\ Goto(h, "ok")
    /\ UNCHANGED <<policy, challenges, totp, codes, request, locals, made, proven, stale, retired, issued, clock>>

-----------------------------------------------------------------------------
\* A statement fails and the handler returns its error.  Logout drops the
\* error and the handler answers as if the session were gone.
StatementFails(h) ==
    /\ pc[h] \notin {"idle", "ok", "refused", "failed", "drop_old"}
    /\ faults < MaxFaults /\ faults' = faults + 1
    /\ Goto(h, "failed")
    /\ UNCHANGED <<policy, rows, request, locals, history, issued, now>>

Tick ==
    /\ now < MaxTime
    /\ now' = now + 1
    /\ UNCHANGED <<policy, rows, request, pc, locals, history, issued, faults>>

Login(h) == LoginDirect(h) \/ LoginNeedsFactor(h) \/ CreateMFAChallenge(h)
CompleteMFA(h) ==
    \/ ClaimRead(h) \/ ClaimDelete(h) \/ Unbound(h) \/ VerifyTOTP(h)
    \/ UnusedRecoveryCodes(h) \/ MarkRecoveryCodeUsed(h) \/ CreateSession(h)
Renew(h) ==
    RenewRead(h) \/ RenewCreate(h) \/ RenewDropOld(h) \/ RenewDropOldFails(h) \/ RenewDropNew(h)
ManageMFA(h) ==
    \/ BeginTOTPEnrollment(h) \/ ConfirmRead(h) \/ ConfirmActivate(h)
    \/ RotateStart(h) \/ Revoke(h)
    \/ DeleteRecoveryCodes(h) \/ CreateRecoveryCode(h) \/ DeleteUserSessions(h)

Next ==
    \/ \E h \in Handlers :
          \/ \E o \in Ops : \E t \in Cookies(o), c \in ChallengesFor(o), g \in CodesFor(o) :
                Arrive(h, o, t, c, g)
          \/ Unauthenticated(h) \/ Login(h) \/ CompleteMFA(h) \/ Renew(h)
          \/ Logout(h) \/ ManageMFA(h) \/ StatementFails(h)
    \/ Tick

Spec == Init /\ [][Next]_vars

-----------------------------------------------------------------------------
(***************************************************************************)
(* Properties.                                                             *)
(***************************************************************************)
\* A challenge and a recovery code are worth one session each, whatever rotates
\* or fails beside them and however many handlers present them at the same time
\* (ClaimMFAChallenge, UnusedRecoveryCodes, MarkRecoveryCodeUsed).
SingleUse ==
    \A s, t \in Tokens : s # t =>
        /\ via[s] = "mfa" /\ via[t] = "mfa" => from[s] # from[t]
        /\ by[s] \in Codes => by[s] # by[t]

\* A code that was used, rotated away or revoked before the request arrived
\* opens no session, also when its challenge is older (verifyMFA,
\* RotateRecoveryCodes, RevokeTOTP).
RetiredFactorIsWorthless ==
    \A h \in Handlers : op[h] = "verify" /\ pc[h] = "ok" => ~stale[h]

\* A renewal that reports success has ended the session it replaces, one that
\* reports failure after a single failed statement leaves no new session behind,
\* and a session that logout, rotation or revocation ended does not live on in
\* a renewal of it (docs/mfa.md, item 5), unless it ended between the SELECT of
\* that renewal and the end of RotateSession, which the code leaves open, or the
\* renewal is being undone or failed twice.
RenewalReplaces ==
    /\ \A h \in Handlers : op[h] = "renew" =>
          /\ pc[h] = "ok" => sessions[cookie[h]] = 0
          /\ pc[h] = "refused" /\ fresh[h] # NoSession => sessions[fresh[h]] = 0
    /\ \A t \in Tokens :
          sessions[t] > 0 /\ via[t] = "renewal" /\ from[t] \in ended \ racedSessions =>
              \E h \in Handlers : fresh[h] = t /\ pc[h] \in {"drop_new", "failed"}

\* The active secret is one of which a confirmation saw a valid code
\* (docs/mfa.md, item 2), unless it was begun between the two statements of a
\* confirmation: ConfirmPendingTOTP activates what is pending by then.
ActiveSecretProven == active \in proven \cup racedSecrets \cup {NoSecret}
=============================================================================
