-------------------------- MODULE Sessions_proofs --------------------------
(***************************************************************************)
(* Proofs about Sessions, for any number of handlers, sessions,            *)
(* challenges, secrets and recovery codes.                                 *)
(***************************************************************************)
EXTENDS Sessions, TLAPS

\* What a handler's control point says about its request and its locals.
OpInv ==
    \A h \in Handlers :
        /\ pc[h] \in {"claim", "factor", "recovery", "mark", "create"} => op[h] = "verify"
        /\ pc[h] \in {"replace", "drop_old", "drop_new"} => op[h] = "renew"
        /\ pc[h] = "insert_challenge" => op[h] = "login"
        /\ pc[h] \in {"activate", "delete_codes", "create_codes", "delete_sessions"} =>
              op[h] \in {"confirm", "rotate", "revoke"}
        /\ op[h] = "verify" /\ pc[h] # "idle" => challenge[h] \in 1..lastChallenge
        /\ cookie[h] <= lastSession
        /\ fresh[h] <= lastSession
        /\ pc[h] \in {"idle", "start", "replace"} => fresh[h] = NoSession

\* A handler that won the DELETE of its challenge is behind it.
Claimed == {"factor", "recovery", "mark", "create"}

\* A challenge that was claimed has no row, and it belongs to one handler, then
\* to one session.
ClaimInv ==
    /\ \A h \in Handlers : pc[h] \in Claimed =>
          challenge[h] \in 1..lastChallenge /\ challenges[challenge[h]] = 0
    /\ \A g, h \in Handlers :
          g # h /\ pc[g] \in Claimed /\ pc[h] \in Claimed => challenge[g] # challenge[h]
    /\ \A t \in Tokens : via[t] = "mfa" =>
          /\ from[t] \in 1..lastChallenge /\ challenges[from[t]] = 0
          /\ \A h \in Handlers : pc[h] \in Claimed => challenge[h] # from[t]
    /\ \A s, t \in Tokens :
          s # t /\ via[s] = "mfa" /\ via[t] = "mfa" => from[s] # from[t]

\* A row for this recovery code exists or existed.
Born(c) == codes[c] # "none" \/ c \in retired

\* A recovery code is inserted once, by the handler that has its batch.
CodeInv ==
    /\ \A h \in Handlers : pc[h] = "create_codes" => left[h] >= 1 /\ batch[h] <= lastBatch
    /\ \A g, h \in Handlers :
          g # h /\ pc[g] = "create_codes" /\ pc[h] = "create_codes" => batch[g] # batch[h]
    /\ \A b \in Batches, n \in Places : Born(Recovery(b, n)) =>
          /\ b <= lastBatch
          /\ \A h \in Handlers : pc[h] = "create_codes" /\ batch[h] = b => n > left[h]
    /\ \A h \in Handlers : pc[h] = "mark" => given[h] \in Codes /\ Born(given[h])
    /\ \A c \in Codes : c \in retired => codes[c] # "unused"

\* A recovery code that was accepted is used up, and it belongs to one handler,
\* then to one session.
UseInv ==
    /\ \A h \in Handlers : pc[h] = "create" /\ given[h] \in Codes => given[h] \in retired
    /\ \A g, h \in Handlers :
          g # h /\ pc[g] = "create" /\ pc[h] = "create" /\ given[g] \in Codes =>
              given[g] # given[h]
    /\ \A t \in Tokens : by[t] \in Codes =>
          /\ by[t] \in retired
          /\ \A h \in Handlers : pc[h] = "create" => given[h] # by[t]
    /\ \A s, t \in Tokens : s # t /\ by[s] \in Codes => by[s] # by[t]

\* A secret that was active is not used again.
SecretInv ==
    /\ active <= lastSecret /\ pending <= lastSecret
    /\ pending # NoSecret => pending # active
    /\ \A s \in Secrets : TOTP(s) \in retired =>
          s <= lastSecret /\ s # active /\ s # pending

\* A code that was retired on arrival stays retired and is not accepted.
StaleInv ==
    \A h \in Handlers :
        /\ stale[h] => given[h] \in retired
        /\ pc[h] = "create" => ~stale[h]
        /\ op[h] = "verify" /\ pc[h] = "ok" => ~stale[h]

\* A session that was ended or replaced has no row, and one that ended under
\* its renewal is known to have done so.
EndInv ==
    /\ \A t \in Tokens : t > lastSession => sessions[t] = 0 /\ via[t] = "none"
    /\ \A t \in ended : t <= lastSession /\ sessions[t] = 0
    /\ \A h \in Handlers : op[h] = "renew" =>
          /\ pc[h] = "ok" => sessions[cookie[h]] = 0
          /\ pc[h] = "refused" /\ fresh[h] # NoSession => sessions[fresh[h]] = 0
    /\ \A h \in Handlers :
          pc[h] \in {"replace", "drop_old"} /\ cookie[h] \in ended => cookie[h] \in racedSessions

\* h has made session t in a renewal.
Renewed(h, t) ==
    /\ op[h] = "renew" /\ cookie[h] = from[t] /\ fresh[h] = t
    /\ pc[h] \in {"drop_old", "drop_new", "ok", "refused", "failed"}

\* Every session that replaces another has its handler, which finished, unless
\* the session it replaces may be alive as well.
RenewInv ==
    \A t \in Tokens : via[t] = "renewal" =>
        \E h \in Handlers :
            /\ Renewed(h, t)
            /\ sessions[t] > 0 /\ from[t] \in ended \ racedSessions =>
                  pc[h] \in {"drop_new", "failed"}

\* What is pending while a confirmation is about to activate it is proven.
ProvenInv ==
    /\ ActiveSecretProven
    /\ \A h \in Handlers : pc[h] = "activate" =>
          pending \in proven \cup racedSecrets \cup {NoSecret}

\* Codes of the two kinds are different, and a code determines what it is of.
LEMMA FactorFacts ==
    /\ \A s : TOTP(s) \notin Codes
    /\ \A s, t : TOTP(s) = TOTP(t) => s = t
    /\ \A b, c, m, n : Recovery(b, m) = Recovery(c, n) => b = c /\ m = n
    /\ \A b \in Batches, n \in Places : Recovery(b, n) \in Codes
    /\ \A c \in Codes : \E b \in Batches, n \in Places : c = Recovery(b, n)
    /\ \A c \in Codes : c \in Factors
    /\ \A s \in Secrets : TOTP(s) \in Factors
    /\ \A c \in Factors : c \in Codes \/ \E s \in Secrets : c = TOTP(s)
BY DEF TOTP, Recovery, Codes, Factors

\* Every step keeps the types.
LEMMA TypeStep ==
    TypeOK /\ [Next]_vars
        => TypeOK'
<1> SUFFICES ASSUME TypeOK, [Next]_vars PROVE TypeOK'
  OBVIOUS
<1> USE DEF TypeOK, Goto, rows, request, locals, clock, totp, made, raced,
        history, issued
<1>1. ASSUME NEW h \in Handlers, NEW o \in Ops, NEW t \in Cookies(o), NEW c
        \in ChallengesFor(o), NEW g \in CodesFor(o), Arrive(h, o, t, c, g)
      PROVE  TypeOK'
  <2> USE <1>1 DEF Arrive, Cookies, ChallengesFor, CodesFor
  <2>1. RowTypes'
    BY DEF RowTypes
  <2>2. HandlerTypes'
    <3>1. t \in Tokens
      BY SessionsConstants DEF CounterTypes, Tokens, First
    <3>2. c \in Challenges \cup {NoChallenge}
      BY SessionsConstants DEF CounterTypes, Challenges, NoChallenge
    <3>3. g \in Factors \cup {None}
      BY FactorFacts, SessionsConstants DEF HistoryTypes, CounterTypes, Secrets
    <3> QED
      BY <3>1, <3>2, <3>3 DEF HandlerTypes, ControlPoints
  <2>3. HistoryTypes'
    BY DEF HistoryTypes
  <2>4. CounterTypes'
    BY DEF CounterTypes
  <2> QED
    BY <2>1, <2>2, <2>3, <2>4 DEF TypeOK
<1>2. ASSUME NEW h \in Handlers, Unauthenticated(h)
      PROVE  TypeOK'
  BY <1>2 DEF TypeOK, RowTypes, HandlerTypes, HistoryTypes, CounterTypes,
      ControlPoints, Unauthenticated
<1>3. ASSUME NEW h \in Handlers, LoginDirect(h)
      PROVE  TypeOK'
  <2> USE <1>3 DEF LoginDirect, NewSession
  <2>1. RowTypes'
    BY SessionsConstants DEF RowTypes, CounterTypes
  <2>2. HandlerTypes'
    BY DEF HandlerTypes, ControlPoints, Ops
  <2>3. HistoryTypes'
    BY DEF HistoryTypes, NoSession
  <2>4. CounterTypes'
    BY DEF CounterTypes
  <2> QED
    BY <2>1, <2>2, <2>3, <2>4 DEF TypeOK
<1>4. ASSUME NEW h \in Handlers, LoginNeedsFactor(h)
      PROVE  TypeOK'
  BY <1>4 DEF TypeOK, RowTypes, HandlerTypes, HistoryTypes, CounterTypes,
      ControlPoints, LoginNeedsFactor, Serves
<1>5. ASSUME NEW h \in Handlers, CreateMFAChallenge(h)
      PROVE  TypeOK'
  <2> USE <1>5 DEF CreateMFAChallenge
  <2>1. RowTypes'
    BY SessionsConstants DEF RowTypes, CounterTypes
  <2>2. HandlerTypes'
    BY DEF HandlerTypes, ControlPoints, Ops
  <2>3. HistoryTypes'
    BY DEF HistoryTypes
  <2>4. CounterTypes'
    BY SessionsConstants DEF CounterTypes, Challenges
  <2> QED
    BY <2>1, <2>2, <2>3, <2>4 DEF TypeOK
<1>6. ASSUME NEW h \in Handlers, ClaimRead(h)
      PROVE  TypeOK'
  <2> USE <1>6 DEF ClaimRead
  <2>1. RowTypes'
    BY DEF RowTypes
  <2>2. HandlerTypes'
    BY DEF HandlerTypes, ControlPoints, Ops
  <2>3. HistoryTypes'
    BY DEF HistoryTypes
  <2>4. CounterTypes'
    BY DEF CounterTypes
  <2> QED
    BY <2>1, <2>2, <2>3, <2>4 DEF TypeOK
<1>7. ASSUME NEW h \in Handlers, ClaimDelete(h)
      PROVE  TypeOK'
  <2> USE <1>7 DEF ClaimDelete
  <2>1. RowTypes'
    BY DEF RowTypes
  <2>2. HandlerTypes'
    BY DEF HandlerTypes, ControlPoints, Ops
  <2>3. HistoryTypes'
    BY DEF HistoryTypes
  <2>4. CounterTypes'
    BY DEF CounterTypes
  <2> QED
    BY <2>1, <2>2, <2>3, <2>4 DEF TypeOK
<1>8. ASSUME NEW h \in Handlers, Unbound(h)
      PROVE  TypeOK'
  BY <1>8 DEF TypeOK, RowTypes, HandlerTypes, HistoryTypes, CounterTypes,
      ControlPoints, Unbound
<1>9. ASSUME NEW h \in Handlers, VerifyTOTP(h)
      PROVE  TypeOK'
  BY <1>9 DEF TypeOK, RowTypes, HandlerTypes, HistoryTypes, CounterTypes,
      ControlPoints, VerifyTOTP
<1>10. ASSUME NEW h \in Handlers, UnusedRecoveryCodes(h)
      PROVE  TypeOK'
  <2> USE <1>10 DEF UnusedRecoveryCodes
  <2>1. RowTypes'
    BY DEF RowTypes
  <2>2. HandlerTypes'
    BY DEF HandlerTypes, ControlPoints, Ops
  <2>3. HistoryTypes'
    BY DEF HistoryTypes
  <2>4. CounterTypes'
    BY DEF CounterTypes
  <2> QED
    BY <2>1, <2>2, <2>3, <2>4 DEF TypeOK
<1>11. ASSUME NEW h \in Handlers, MarkRecoveryCodeUsed(h)
      PROVE  TypeOK'
  <2> USE <1>11 DEF MarkRecoveryCodeUsed
  <2>1. RowTypes'
    BY DEF RowTypes, HandlerTypes
  <2>2. HandlerTypes'
    BY DEF HandlerTypes, ControlPoints, Ops
  <2>3. HistoryTypes'
    BY FactorFacts DEF HistoryTypes, HandlerTypes
  <2>4. CounterTypes'
    BY DEF CounterTypes
  <2> QED
    BY <2>1, <2>2, <2>3, <2>4 DEF TypeOK
<1>12. ASSUME NEW h \in Handlers, CreateSession(h)
      PROVE  TypeOK'
  <2> USE <1>12 DEF CreateSession, NewSession
  <2>1. RowTypes'
    BY SessionsConstants DEF RowTypes, CounterTypes
  <2>2. HandlerTypes'
    BY DEF HandlerTypes, ControlPoints, Ops
  <2>3. HistoryTypes'
    BY SessionsConstants DEF HistoryTypes, HandlerTypes, Challenges,
        NoChallenge
  <2>4. CounterTypes'
    BY DEF CounterTypes
  <2> QED
    BY <2>1, <2>2, <2>3, <2>4 DEF TypeOK
<1>13. ASSUME NEW h \in Handlers, RenewRead(h)
      PROVE  TypeOK'
  BY <1>13 DEF TypeOK, RowTypes, HandlerTypes, HistoryTypes, CounterTypes,
      ControlPoints, RenewRead, Serves, Authenticated
<1>14. ASSUME NEW h \in Handlers, RenewCreate(h)
      PROVE  TypeOK'
  <2> USE <1>14 DEF RenewCreate, NewSession
  <2>1. RowTypes'
    BY SessionsConstants DEF RowTypes, CounterTypes
  <2>2. HandlerTypes'
    BY DEF HandlerTypes, ControlPoints, Ops
  <2>3. HistoryTypes'
    BY SessionsConstants DEF HistoryTypes, HandlerTypes, Tokens
  <2>4. CounterTypes'
    BY DEF CounterTypes
  <2> QED
    BY <2>1, <2>2, <2>3, <2>4 DEF TypeOK
<1>15. ASSUME NEW h \in Handlers, RenewDropOld(h)
      PROVE  TypeOK'
  <2> USE <1>15 DEF RenewDropOld
  <2>1. RowTypes'
    BY DEF RowTypes
  <2>2. HandlerTypes'
    BY DEF HandlerTypes, ControlPoints, Ops
  <2>3. HistoryTypes'
    BY DEF HistoryTypes
  <2>4. CounterTypes'
    BY DEF CounterTypes
  <2> QED
    BY <2>1, <2>2, <2>3, <2>4 DEF TypeOK
<1>16. ASSUME NEW h \in Handlers, RenewDropOldFails(h)
      PROVE  TypeOK'
  <2> USE <1>16 DEF RenewDropOldFails
  <2>1. RowTypes'
    BY DEF RowTypes
  <2>2. HandlerTypes'
    BY DEF HandlerTypes, ControlPoints, Ops
  <2>3. HistoryTypes'
    BY DEF HistoryTypes
  <2>4. CounterTypes'
    BY SessionsConstants DEF CounterTypes
  <2> QED
    BY <2>1, <2>2, <2>3, <2>4 DEF TypeOK
<1>17. ASSUME NEW h \in Handlers, RenewDropNew(h)
      PROVE  TypeOK'
  <2> USE <1>17 DEF RenewDropNew
  <2>1. RowTypes'
    BY DEF RowTypes
  <2>2. HandlerTypes'
    BY DEF HandlerTypes, ControlPoints, Ops
  <2>3. HistoryTypes'
    BY DEF HistoryTypes
  <2>4. CounterTypes'
    BY DEF CounterTypes
  <2> QED
    BY <2>1, <2>2, <2>3, <2>4 DEF TypeOK
<1>18. ASSUME NEW h \in Handlers, Logout(h)
      PROVE  TypeOK'
  <2> USE <1>18 DEF Logout, Ends
  <2>1. RowTypes'
    BY DEF RowTypes
  <2>2. HandlerTypes'
    BY DEF HandlerTypes, ControlPoints, Ops
  <2>3. HistoryTypes'
    BY DEF HistoryTypes, HandlerTypes
  <2>4. CounterTypes'
    BY DEF CounterTypes
  <2> QED
    BY <2>1, <2>2, <2>3, <2>4 DEF TypeOK
<1>19. ASSUME NEW h \in Handlers, BeginTOTPEnrollment(h)
      PROVE  TypeOK'
  <2> USE <1>19 DEF BeginTOTPEnrollment
  <2>1. RowTypes'
    BY DEF RowTypes
  <2>2. HandlerTypes'
    BY DEF HandlerTypes, ControlPoints, Ops
  <2>3. HistoryTypes'
    BY DEF HistoryTypes
  <2>4. CounterTypes'
    BY SessionsConstants DEF CounterTypes, Secrets
  <2> QED
    BY <2>1, <2>2, <2>3, <2>4 DEF TypeOK
<1>20. ASSUME NEW h \in Handlers, ConfirmRead(h)
      PROVE  TypeOK'
  <2> USE <1>20 DEF ConfirmRead
  <2>1. RowTypes'
    BY DEF RowTypes
  <2>2. HandlerTypes'
    BY DEF HandlerTypes, ControlPoints, Ops
  <2>3. HistoryTypes'
    BY DEF HistoryTypes, RowTypes
  <2>4. CounterTypes'
    BY DEF CounterTypes
  <2> QED
    BY <2>1, <2>2, <2>3, <2>4 DEF TypeOK
<1>21. ASSUME NEW h \in Handlers, ConfirmActivate(h)
      PROVE  TypeOK'
  <2> USE <1>21 DEF ConfirmActivate
  <2>1. RowTypes'
    BY DEF RowTypes, NoSecret
  <2>2. HandlerTypes'
    BY DEF HandlerTypes, ControlPoints, Ops
  <2>3. HistoryTypes'
    BY FactorFacts DEF HistoryTypes, RowTypes
  <2>4. CounterTypes'
    BY DEF CounterTypes
  <2> QED
    BY <2>1, <2>2, <2>3, <2>4 DEF TypeOK
<1>22. ASSUME NEW h \in Handlers, RotateStart(h)
      PROVE  TypeOK'
  BY <1>22 DEF TypeOK, RowTypes, HandlerTypes, HistoryTypes, CounterTypes,
      ControlPoints, RotateStart, Serves
<1>23. ASSUME NEW h \in Handlers, Revoke(h)
      PROVE  TypeOK'
  <2> USE <1>23 DEF Revoke
  <2>1. RowTypes'
    BY DEF RowTypes
  <2>2. HandlerTypes'
    BY DEF HandlerTypes, ControlPoints, Ops
  <2>3. HistoryTypes'
    BY FactorFacts DEF HistoryTypes, RowTypes
  <2>4. CounterTypes'
    BY DEF CounterTypes
  <2> QED
    BY <2>1, <2>2, <2>3, <2>4 DEF TypeOK
<1>24. ASSUME NEW h \in Handlers, DeleteRecoveryCodes(h)
      PROVE  TypeOK'
  <2> USE <1>24 DEF DeleteRecoveryCodes
  <2>1. RowTypes'
    BY DEF RowTypes
  <2>2. HandlerTypes'
    BY SessionsConstants DEF HandlerTypes, ControlPoints, Ops
  <2>3. HistoryTypes'
    BY FactorFacts DEF HistoryTypes
  <2>4. CounterTypes'
    BY DEF CounterTypes
  <2> QED
    BY <2>1, <2>2, <2>3, <2>4 DEF TypeOK
<1>25. ASSUME NEW h \in Handlers, CreateRecoveryCode(h)
      PROVE  TypeOK'
  <2> USE <1>25 DEF CreateRecoveryCode
  <2>1. RowTypes'
    BY FactorFacts DEF RowTypes, HandlerTypes, Places, Batches
  <2>2. HandlerTypes'
    BY SessionsConstants DEF HandlerTypes, ControlPoints, Ops
  <2>3. HistoryTypes'
    BY DEF HistoryTypes
  <2>4. CounterTypes'
    BY DEF CounterTypes
  <2> QED
    BY <2>1, <2>2, <2>3, <2>4 DEF TypeOK
<1>26. ASSUME NEW h \in Handlers, DeleteUserSessions(h)
      PROVE  TypeOK'
  <2> USE <1>26 DEF DeleteUserSessions, Ends
  <2>1. RowTypes'
    BY DEF RowTypes
  <2>2. HandlerTypes'
    BY DEF HandlerTypes, ControlPoints, Ops
  <2>3. HistoryTypes'
    BY DEF HistoryTypes
  <2>4. CounterTypes'
    BY DEF CounterTypes
  <2> QED
    BY <2>1, <2>2, <2>3, <2>4 DEF TypeOK
<1>27. ASSUME NEW h \in Handlers, StatementFails(h)
      PROVE  TypeOK'
  <2> USE <1>27 DEF StatementFails
  <2>1. RowTypes'
    BY DEF RowTypes
  <2>2. HandlerTypes'
    BY DEF HandlerTypes, ControlPoints, Ops
  <2>3. HistoryTypes'
    BY DEF HistoryTypes
  <2>4. CounterTypes'
    BY SessionsConstants DEF CounterTypes
  <2> QED
    BY <2>1, <2>2, <2>3, <2>4 DEF TypeOK
<1>28. CASE Tick
  <2> USE <1>28 DEF Tick
  <2>1. RowTypes'
    BY DEF RowTypes
  <2>2. HandlerTypes'
    BY DEF HandlerTypes, ControlPoints, Ops
  <2>3. HistoryTypes'
    BY DEF HistoryTypes
  <2>4. CounterTypes'
    BY SessionsConstants DEF CounterTypes
  <2> QED
    BY <2>1, <2>2, <2>3, <2>4 DEF TypeOK
<1>29. CASE UNCHANGED vars
  BY <1>29 DEF vars, RowTypes, HandlerTypes, HistoryTypes, CounterTypes
<1> HIDE DEF TypeOK, Goto, rows, request, locals, clock, totp, made, raced,
        history, issued
<1> QED
  BY <1>1, <1>2, <1>3, <1>4, <1>5, <1>6, <1>7, <1>8, <1>9, <1>10, <1>11,
      <1>12, <1>13, <1>14, <1>15, <1>16, <1>17, <1>18, <1>19, <1>20, <1>21,
      <1>22, <1>23, <1>24, <1>25, <1>26, <1>27, <1>28, <1>29 DEF Next, Login,
      CompleteMFA, Renew, ManageMFA

\* The types of what sessions are made of.
LEMMA SessionTypes ==
    ASSUME TypeOK
    PROVE  /\ sessions \in [Tokens -> Nat] /\ fresh \in [Handlers -> Tokens \cup {NoSession}]
           /\ via \in [Tokens -> {"none", "earlier", "password", "mfa", "renewal"}]
           /\ from \in [Tokens -> Nat] /\ pc \in [Handlers -> ControlPoints]
           /\ lastSession \in Tokens /\ lastSession \in Nat /\ Tokens \subseteq Nat
           /\ ended \subseteq Tokens
<1>1. lastSession \in Tokens /\ lastSession \in Nat /\ Tokens \subseteq Nat
  BY SessionsConstants DEF TypeOK, CounterTypes, Tokens
<1> QED
  BY <1>1 DEF TypeOK, RowTypes, HandlerTypes, HistoryTypes

\* ClaimInv depends on challenges, on the sessions made from them and on the
\* handlers that have claimed one.
LEMMA ClaimFrame ==
    ASSUME ClaimInv, lastChallenge \in Nat, lastChallenge' \in Nat,
           lastChallenge <= lastChallenge',
           \A c \in 1..lastChallenge : challenges[c] = 0 => challenges'[c] = 0,
           \A t \in Tokens : via'[t] = "mfa" => via[t] = "mfa" /\ from'[t] = from[t],
           \A h \in Handlers : pc'[h] \in Claimed =>
               pc[h] \in Claimed /\ challenge'[h] = challenge[h]
    PROVE  ClaimInv'
<1>1. \A c \in 1..lastChallenge : c \in 1..lastChallenge'
  OBVIOUS
<1> QED
  BY <1>1 DEF ClaimInv

\* It survives a handler that moves on and leaves these alone.
LEMMA ClaimQuiet ==
    ASSUME ClaimInv, lastChallenge \in Nat, pc \in [Handlers -> ControlPoints],
           NEW h \in Handlers, NEW p, p \notin Claimed \/ pc[h] \in Claimed,
           pc' = [pc EXCEPT ![h] = p],
           UNCHANGED <<challenges, challenge, via, from, lastChallenge>>
    PROVE  ClaimInv'
<1>1. \A g \in Handlers : pc'[g] \in Claimed => pc[g] \in Claimed
  OBVIOUS
<1> HIDE DEF Claimed
<1> QED
  BY <1>1, ClaimFrame

\* CodeInv depends on the rows of recovery codes and on the handlers that insert
\* or mark one.
LEMMA CodeFrame ==
    ASSUME CodeInv, UNCHANGED <<codes, left, batch, lastBatch>>,
           \A c \in Codes : c \in retired' <=> c \in retired,
           \A h \in Handlers :
               /\ pc'[h] = "create_codes" => pc[h] = "create_codes"
               /\ pc'[h] = "mark" => pc[h] = "mark" /\ given'[h] = given[h]
    PROVE  CodeInv'
BY FactorFacts DEF CodeInv, Born

\* UseInv depends on the factors of sessions and of handlers that create one.
LEMMA UseFrame ==
    ASSUME UseInv, UNCHANGED by, \A c \in retired : c \in retired',
           \A h \in Handlers : pc'[h] = "create" =>
               pc[h] = "create" /\ given'[h] = given[h]
    PROVE  UseInv'
BY DEF UseInv

\* EndInv survives new sessions and handlers that do not finish a renewal.
LEMMA EndFrame ==
    ASSUME EndInv, UNCHANGED <<ended, racedSessions>>,
           lastSession \in Nat, lastSession' \in Nat, lastSession <= lastSession',
           Tokens \subseteq Nat, ended \subseteq Tokens,
           \A t \in Tokens : t > lastSession' => sessions'[t] = sessions[t] /\ via'[t] = via[t],
           \A t \in Tokens : t <= lastSession /\ sessions[t] = 0 => sessions'[t] = 0,
           \A h \in Handlers :
               /\ cookie[h] \in Tokens /\ cookie[h] <= lastSession
               /\ fresh[h] \in Tokens \cup {NoSession} /\ fresh[h] <= lastSession
               /\ op'[h] = "renew" /\ pc'[h] \in {"ok", "refused"} =>
                     /\ UNCHANGED <<cookie[h], fresh[h]>>
                     /\ \/ op[h] = "renew" /\ UNCHANGED pc[h]
                        \/ pc'[h] = "refused" /\ fresh[h] = NoSession
               /\ pc'[h] \in {"replace", "drop_old"} =>
                     /\ UNCHANGED cookie[h]
                     /\ pc[h] \in {"replace", "drop_old"} \/ cookie[h] \notin ended
    PROVE  EndInv'
<1>1. \A t \in Tokens : t > lastSession' => t > lastSession
  OBVIOUS
<1>2. \A t \in Tokens : t <= lastSession => t <= lastSession'
  OBVIOUS
<1>3. \A t \in Tokens : t > lastSession' => sessions'[t] = 0 /\ via'[t] = "none"
  BY <1>1, Zenon DEF EndInv
<1>4. \A t \in ended' : t <= lastSession' /\ sessions'[t] = 0
  BY <1>2, Zenon DEF EndInv
<1>5. ASSUME NEW h \in Handlers, op'[h] = "renew", pc'[h] = "ok"
      PROVE  sessions'[cookie'[h]] = 0
  <2>1. op[h] = "renew" /\ pc[h] = "ok" /\ cookie'[h] = cookie[h]
    BY <1>5
  <2>2. sessions[cookie[h]] = 0
    BY <2>1, Zenon DEF EndInv
  <2> QED
    BY <2>1, <2>2, Zenon
<1>6. ASSUME NEW h \in Handlers, op'[h] = "renew", pc'[h] = "refused",
             fresh'[h] # NoSession
      PROVE  sessions'[fresh'[h]] = 0
  <2>1. op[h] = "renew" /\ pc[h] = "refused" /\ fresh'[h] = fresh[h]
    BY <1>6
  <2>2. sessions[fresh[h]] = 0
    BY <1>6, <2>1, Zenon DEF EndInv
  <2>3. fresh[h] \in Tokens /\ fresh[h] <= lastSession
    BY <1>6, <2>1
  <2> QED
    BY <2>1, <2>2, <2>3, Zenon
<1>7. \A h \in Handlers :
        pc'[h] \in {"replace", "drop_old"} /\ cookie'[h] \in ended' =>
            cookie'[h] \in racedSessions'
  BY DEF EndInv
<1> QED
  BY <1>3, <1>4, <1>5, <1>6, <1>7 DEF EndInv

\* Control points of a renewal that has made its session.
Past == {"drop_old", "drop_new", "ok", "refused", "failed"}

\* RenewInv survives what makes no renewed session and ends none by another way
\* than its renewal.
LEMMA RenewFrame ==
    ASSUME RenewInv, UNCHANGED ended, \A t \in racedSessions : t \in racedSessions',
           \A t \in Tokens : via'[t] = "renewal" =>
               /\ via[t] = "renewal" /\ from'[t] = from[t]
               /\ sessions'[t] > 0 => sessions[t] > 0,
           \A h \in Handlers : op[h] = "renew" /\ pc[h] \in Past =>
               /\ UNCHANGED <<op[h], cookie[h], fresh[h]>>
               /\ \/ UNCHANGED pc[h]
                  \/ pc'[h] \in {"drop_new", "failed"}
                  \/ pc[h] = "drop_old" /\ pc'[h] = "ok"
                  \/ pc'[h] = "refused" /\ (fresh[h] \in Tokens => sessions'[fresh[h]] = 0)
    PROVE  RenewInv'
<1> SUFFICES ASSUME NEW t \in Tokens, via'[t] = "renewal"
             PROVE  \E h \in Handlers :
                       /\ Renewed(h, t)'
                       /\ sessions'[t] > 0 /\ from'[t] \in ended' \ racedSessions' =>
                             pc'[h] \in {"drop_new", "failed"}
  BY DEF RenewInv
<1>1. PICK h \in Handlers :
         /\ Renewed(h, t)
         /\ sessions[t] > 0 /\ from[t] \in ended \ racedSessions =>
               pc[h] \in {"drop_new", "failed"}
  BY DEF RenewInv
<1> QED
  BY <1>1 DEF Renewed, Past

\* A handler that serves no renewal and leaves the sessions alone.
Quiet(h, p) ==
    /\ op[h] # "renew" /\ p \notin {"replace", "drop_old"} /\ pc' = [pc EXCEPT ![h] = p]
    /\ UNCHANGED <<sessions, via, from, ended, op, cookie, fresh, lastSession>>
    /\ UNCHANGED racedSessions

\* It keeps EndInv and RenewInv.
LEMMA QuietEnd ==
    ASSUME pc \in [Handlers -> ControlPoints], EndInv, NEW h \in Handlers, NEW p, Quiet(h, p)
    PROVE  EndInv'
<1>1. /\ \A g \in Handlers : op[g] = "renew" => pc'[g] = pc[g]
      /\ \A g \in Handlers : pc'[g] \in {"replace", "drop_old"} => pc'[g] = pc[g]
  BY DEF Quiet
<1> QED
  BY <1>1 DEF Quiet, EndInv

LEMMA QuietRenew ==
    ASSUME pc \in [Handlers -> ControlPoints], RenewInv, NEW h \in Handlers, NEW p, Quiet(h, p)
    PROVE  RenewInv'
<1>1. \A g \in Handlers : op[g] = "renew" => pc'[g] = pc[g]
  BY DEF Quiet
<1> QED
  BY <1>1, RenewFrame DEF Quiet

\* Control points follow the requests.
LEMMA OpStep ==
    TypeOK /\ OpInv /\ [Next]_vars
        => OpInv'
<1> SUFFICES ASSUME TypeOK, OpInv, [Next]_vars PROVE OpInv'
  OBVIOUS
<1> USE SessionsConstants DEF TypeOK, HandlerTypes, CounterTypes, Tokens,
        Challenges, First, NoSession, NoChallenge, Goto, rows, request,
        locals, clock, totp, made, raced, history, issued, OpInv
<1>1. ASSUME NEW h \in Handlers, NEW o \in Ops, NEW t \in Cookies(o), NEW c
        \in ChallengesFor(o), NEW g \in CodesFor(o), Arrive(h, o, t, c, g)
      PROVE  OpInv'
  BY <1>1 DEF Arrive, Cookies, ChallengesFor, CodesFor
<1>2. ASSUME NEW h \in Handlers, Unauthenticated(h)
      PROVE  OpInv'
  BY <1>2 DEF Unauthenticated
<1>3. ASSUME NEW h \in Handlers, LoginDirect(h)
      PROVE  OpInv'
  BY <1>3 DEF LoginDirect, NewSession, Serves
<1>4. ASSUME NEW h \in Handlers, LoginNeedsFactor(h)
      PROVE  OpInv'
  BY <1>4 DEF LoginNeedsFactor, Serves
<1>5. ASSUME NEW h \in Handlers, CreateMFAChallenge(h)
      PROVE  OpInv'
  BY <1>5 DEF CreateMFAChallenge
<1>6. ASSUME NEW h \in Handlers, ClaimRead(h)
      PROVE  OpInv'
  BY <1>6 DEF ClaimRead, Serves
<1>7. ASSUME NEW h \in Handlers, ClaimDelete(h)
      PROVE  OpInv'
  BY <1>7 DEF ClaimDelete
<1>8. ASSUME NEW h \in Handlers, Unbound(h)
      PROVE  OpInv'
  BY <1>8 DEF Unbound
<1>9. ASSUME NEW h \in Handlers, VerifyTOTP(h)
      PROVE  OpInv'
  BY <1>9 DEF VerifyTOTP
<1>10. ASSUME NEW h \in Handlers, UnusedRecoveryCodes(h)
      PROVE  OpInv'
  BY <1>10 DEF UnusedRecoveryCodes
<1>11. ASSUME NEW h \in Handlers, MarkRecoveryCodeUsed(h)
      PROVE  OpInv'
  BY <1>11 DEF MarkRecoveryCodeUsed
<1>12. ASSUME NEW h \in Handlers, CreateSession(h)
      PROVE  OpInv'
  BY <1>12 DEF CreateSession, NewSession
<1>13. ASSUME NEW h \in Handlers, RenewRead(h)
      PROVE  OpInv'
  BY <1>13 DEF RenewRead, Serves, Authenticated
<1>14. ASSUME NEW h \in Handlers, RenewCreate(h)
      PROVE  OpInv'
  BY <1>14 DEF RenewCreate, NewSession
<1>15. ASSUME NEW h \in Handlers, RenewDropOld(h)
      PROVE  OpInv'
  BY <1>15 DEF RenewDropOld
<1>16. ASSUME NEW h \in Handlers, RenewDropOldFails(h)
      PROVE  OpInv'
  BY <1>16 DEF RenewDropOldFails
<1>17. ASSUME NEW h \in Handlers, RenewDropNew(h)
      PROVE  OpInv'
  BY <1>17 DEF RenewDropNew
<1>18. ASSUME NEW h \in Handlers, Logout(h)
      PROVE  OpInv'
  BY <1>18 DEF Logout, Serves, Authenticated, Ends
<1>19. ASSUME NEW h \in Handlers, BeginTOTPEnrollment(h)
      PROVE  OpInv'
  BY <1>19 DEF BeginTOTPEnrollment, Serves
<1>20. ASSUME NEW h \in Handlers, ConfirmRead(h)
      PROVE  OpInv'
  BY <1>20 DEF ConfirmRead, Serves
<1>21. ASSUME NEW h \in Handlers, ConfirmActivate(h)
      PROVE  OpInv'
  BY <1>21 DEF ConfirmActivate
<1>22. ASSUME NEW h \in Handlers, RotateStart(h)
      PROVE  OpInv'
  BY <1>22 DEF RotateStart, Serves
<1>23. ASSUME NEW h \in Handlers, Revoke(h)
      PROVE  OpInv'
  BY <1>23 DEF Revoke, Serves
<1>24. ASSUME NEW h \in Handlers, DeleteRecoveryCodes(h)
      PROVE  OpInv'
  BY <1>24 DEF DeleteRecoveryCodes
<1>25. ASSUME NEW h \in Handlers, CreateRecoveryCode(h)
      PROVE  OpInv'
  BY <1>25 DEF CreateRecoveryCode
<1>26. ASSUME NEW h \in Handlers, DeleteUserSessions(h)
      PROVE  OpInv'
  BY <1>26 DEF DeleteUserSessions, Ends
<1>27. ASSUME NEW h \in Handlers, StatementFails(h)
      PROVE  OpInv'
  BY <1>27 DEF StatementFails
<1>28. CASE Tick
  BY <1>28 DEF Tick
<1>29. CASE UNCHANGED vars
  BY <1>29 DEF vars
<1> HIDE SessionsConstants DEF TypeOK, HandlerTypes, CounterTypes, Tokens,
        Challenges, First, NoSession, NoChallenge, Goto, rows, request,
        locals, clock, totp, made, raced, history, issued, OpInv
<1> QED
  BY <1>1, <1>2, <1>3, <1>4, <1>5, <1>6, <1>7, <1>8, <1>9, <1>10, <1>11,
      <1>12, <1>13, <1>14, <1>15, <1>16, <1>17, <1>18, <1>19, <1>20, <1>21,
      <1>22, <1>23, <1>24, <1>25, <1>26, <1>27, <1>28, <1>29 DEF Next, Login,
      CompleteMFA, Renew, ManageMFA

\* Only one handler wins the DELETE of a challenge.
LEMMA ClaimStep ==
    TypeOK /\ OpInv /\ ClaimInv /\ [Next]_vars
        => ClaimInv'
<1> SUFFICES ASSUME TypeOK, OpInv, ClaimInv, [Next]_vars PROVE ClaimInv'
  OBVIOUS
<1> USE SessionsConstants DEF TypeOK, RowTypes, HandlerTypes, HistoryTypes,
        CounterTypes, Tokens, Challenges, Claimed, NoChallenge, Goto, rows,
        request, locals, clock, totp, made, raced, history, issued, OpInv,
        ClaimInv
<1>1. ASSUME NEW h \in Handlers, NEW o \in Ops, NEW k \in Cookies(o), NEW c
        \in ChallengesFor(o), NEW f \in CodesFor(o), Arrive(h, o, k, c, f)
      PROVE  ClaimInv'
  <2> HIDE DEF TypeOK, OpInv, ClaimInv
  <2>1. /\ pc' = [pc EXCEPT ![h] = "start"] /\ challenge' = [challenge EXCEPT ![h] = c]
        /\ UNCHANGED <<challenges, via, from, lastChallenge>>
    BY <1>1 DEF Arrive
  <2>2. /\ lastChallenge \in Nat /\ pc \in [Handlers -> ControlPoints]
        /\ challenge \in [Handlers -> Challenges \cup {NoChallenge}]
    BY DEF TypeOK
  <2>3. \A g \in Handlers : pc'[g] \in Claimed =>
          pc[g] \in Claimed /\ challenge'[g] = challenge[g]
    BY <2>1, <2>2
  <2> HIDE DEF Claimed
  <2> QED
    BY <2>1, <2>2, <2>3, ClaimFrame
<1>2. ASSUME NEW h \in Handlers, Unauthenticated(h)
      PROVE  ClaimInv'
  <2> HIDE DEF TypeOK, OpInv, ClaimInv
  <2>1. pc' = [pc EXCEPT ![h] = "refused"]
    BY <1>2 DEF Unauthenticated
  <2>2. UNCHANGED <<challenges, challenge, via, from, lastChallenge>>
    BY <1>2 DEF Unauthenticated
  <2>4. lastChallenge \in Nat /\ pc \in [Handlers -> ControlPoints]
    BY DEF TypeOK
  <2> QED
    BY <2>1, <2>2, <2>4, ClaimQuiet
<1>3. ASSUME NEW h \in Handlers, LoginDirect(h)
      PROVE  ClaimInv'
  <2>1. \A c \in 1..lastChallenge : challenges[c] = 0 => challenges'[c] = 0
    BY <1>3, SessionsConstants DEF LoginDirect, NewSession, RowTypes, CounterTypes, Challenges
  <2>2. \A t \in Tokens : via'[t] = "mfa" => via[t] = "mfa" /\ from'[t] = from[t]
    BY <1>3 DEF LoginDirect, NewSession, HistoryTypes
  <2>3. \A g \in Handlers : pc'[g] \in Claimed =>
          pc[g] \in Claimed /\ challenge'[g] = challenge[g]
    BY <1>3 DEF LoginDirect, NewSession, HandlerTypes, Claimed
  <2>4. lastChallenge \in Nat /\ lastChallenge' \in Nat /\ lastChallenge <= lastChallenge'
    BY <1>3, SessionsConstants DEF LoginDirect, NewSession, CounterTypes
  <2> QED
    BY <2>1, <2>2, <2>3, <2>4, ClaimFrame
<1>4. ASSUME NEW h \in Handlers, LoginNeedsFactor(h)
      PROVE  ClaimInv'
  <2> HIDE DEF TypeOK, OpInv, ClaimInv
  <2>1. \E p \in {"refused", "insert_challenge"} : pc' = [pc EXCEPT ![h] = p]
    BY <1>4 DEF LoginNeedsFactor
  <2>2. UNCHANGED <<challenges, challenge, via, from, lastChallenge>>
    BY <1>4 DEF LoginNeedsFactor
  <2>4. lastChallenge \in Nat /\ pc \in [Handlers -> ControlPoints]
    BY DEF TypeOK
  <2> QED
    BY <2>1, <2>2, <2>4, ClaimQuiet
<1>5. ASSUME NEW h \in Handlers, CreateMFAChallenge(h)
      PROVE  ClaimInv'
  <2>1. \A c \in 1..lastChallenge : challenges[c] = 0 => challenges'[c] = 0
    BY <1>5, SessionsConstants DEF CreateMFAChallenge, RowTypes, CounterTypes, Challenges
  <2>2. \A t \in Tokens : via'[t] = "mfa" => via[t] = "mfa" /\ from'[t] = from[t]
    BY <1>5 DEF CreateMFAChallenge, HistoryTypes
  <2>3. \A g \in Handlers : pc'[g] \in Claimed =>
          pc[g] \in Claimed /\ challenge'[g] = challenge[g]
    BY <1>5 DEF CreateMFAChallenge, HandlerTypes, Claimed
  <2>4. lastChallenge \in Nat /\ lastChallenge' \in Nat /\ lastChallenge <= lastChallenge'
    BY <1>5, SessionsConstants DEF CreateMFAChallenge, CounterTypes
  <2> QED
    BY <2>1, <2>2, <2>3, <2>4, ClaimFrame
<1>6. ASSUME NEW h \in Handlers, ClaimRead(h)
      PROVE  ClaimInv'
  <2>1. \A c \in 1..lastChallenge : challenges[c] = 0 => challenges'[c] = 0
    BY <1>6, SessionsConstants DEF ClaimRead, RowTypes, CounterTypes, Challenges
  <2>2. \A t \in Tokens : via'[t] = "mfa" => via[t] = "mfa" /\ from'[t] = from[t]
    BY <1>6 DEF ClaimRead, HistoryTypes
  <2>3. \A g \in Handlers : pc'[g] \in Claimed =>
          pc[g] \in Claimed /\ challenge'[g] = challenge[g]
    BY <1>6 DEF ClaimRead, HandlerTypes, Claimed
  <2>4. lastChallenge \in Nat /\ lastChallenge' \in Nat /\ lastChallenge <= lastChallenge'
    BY <1>6, SessionsConstants DEF ClaimRead, CounterTypes
  <2> QED
    BY <2>1, <2>2, <2>3, <2>4, ClaimFrame
<1>7. ASSUME NEW h \in Handlers, ClaimDelete(h)
      PROVE  ClaimInv'
  <2>1. challenge[h] \in 1..lastChallenge
    BY <1>7 DEF ClaimDelete
  <2>2. /\ challenges'[challenge[h]] = 0
        /\ \A c \in 1..lastChallenge : challenges[c] = 0 => challenges'[c] = 0
        /\ UNCHANGED <<challenge, via, from, lastChallenge>>
    <3>1. /\ challenges' = [challenges EXCEPT ![challenge[h]] = 0]
          /\ UNCHANGED <<challenge, via, from, lastChallenge>>
      BY <1>7 DEF ClaimDelete
    <3>2. \A c \in 1..lastChallenge : c \in DOMAIN challenges
      OBVIOUS
    <3> HIDE DEF TypeOK, ClaimInv, OpInv
    <3> QED
      BY <2>1, <3>1, <3>2
  <2>3. CASE challenges[challenge[h]] = 0
    <3>1. pc' = [pc EXCEPT ![h] = "refused"]
      BY <1>7, <2>3 DEF ClaimDelete
    <3>2. \A g \in Handlers : pc'[g] \in Claimed => pc[g] \in Claimed
      BY <3>1
    <3> QED
      BY <2>2, <3>2, ClaimFrame
  <2>4. CASE challenges[challenge[h]] # 0
    <3>1. \A g \in Handlers : pc'[g] \in Claimed => pc[g] \in Claimed \/ g = h
      BY <1>7 DEF ClaimDelete
    <3> HIDE DEF TypeOK, OpInv, Claimed
    <3>2. \A g \in Handlers : pc[g] \in Claimed => challenge[g] # challenge[h]
      BY <2>4
    <3>3. \A t \in Tokens : via[t] = "mfa" => from[t] # challenge[h]
      BY <2>4
    <3> QED
      BY <2>1, <2>2, <3>1, <3>2, <3>3
  <2> QED
    BY <2>3, <2>4
<1>8. ASSUME NEW h \in Handlers, Unbound(h)
      PROVE  ClaimInv'
  <2> HIDE DEF TypeOK, OpInv, ClaimInv
  <2>1. pc' = [pc EXCEPT ![h] = "refused"]
    BY <1>8 DEF Unbound
  <2>2. UNCHANGED <<challenges, challenge, via, from, lastChallenge>>
    BY <1>8 DEF Unbound
  <2>4. lastChallenge \in Nat /\ pc \in [Handlers -> ControlPoints]
    BY DEF TypeOK
  <2> QED
    BY <2>1, <2>2, <2>4, ClaimQuiet
<1>9. ASSUME NEW h \in Handlers, VerifyTOTP(h)
      PROVE  ClaimInv'
  <2> HIDE DEF TypeOK, OpInv, ClaimInv
  <2>1. \E p \in {"create", "recovery"} : pc' = [pc EXCEPT ![h] = p]
    BY <1>9 DEF VerifyTOTP
  <2>2. UNCHANGED <<challenges, challenge, via, from, lastChallenge>>
    BY <1>9 DEF VerifyTOTP
  <2>3. pc[h] \in Claimed
    BY <1>9 DEF VerifyTOTP
  <2>4. lastChallenge \in Nat /\ pc \in [Handlers -> ControlPoints]
    BY DEF TypeOK
  <2> QED
    BY <2>1, <2>2, <2>3, <2>4, ClaimQuiet
<1>10. ASSUME NEW h \in Handlers, UnusedRecoveryCodes(h)
      PROVE  ClaimInv'
  <2> HIDE DEF TypeOK, OpInv, ClaimInv
  <2>1. \E p \in {"mark", "refused"} : pc' = [pc EXCEPT ![h] = p]
    BY <1>10 DEF UnusedRecoveryCodes
  <2>2. UNCHANGED <<challenges, challenge, via, from, lastChallenge>>
    BY <1>10 DEF UnusedRecoveryCodes
  <2>3. pc[h] \in Claimed
    BY <1>10 DEF UnusedRecoveryCodes
  <2>4. lastChallenge \in Nat /\ pc \in [Handlers -> ControlPoints]
    BY DEF TypeOK
  <2> QED
    BY <2>1, <2>2, <2>3, <2>4, ClaimQuiet
<1>11. ASSUME NEW h \in Handlers, MarkRecoveryCodeUsed(h)
      PROVE  ClaimInv'
  <2> HIDE DEF TypeOK, OpInv, ClaimInv
  <2>1. \E p \in {"create", "refused"} : pc' = [pc EXCEPT ![h] = p]
    BY <1>11 DEF MarkRecoveryCodeUsed
  <2>2. UNCHANGED <<challenges, challenge, via, from, lastChallenge>>
    BY <1>11 DEF MarkRecoveryCodeUsed
  <2>3. pc[h] \in Claimed
    BY <1>11 DEF MarkRecoveryCodeUsed
  <2>4. lastChallenge \in Nat /\ pc \in [Handlers -> ControlPoints]
    BY DEF TypeOK
  <2> QED
    BY <2>1, <2>2, <2>3, <2>4, ClaimQuiet
<1>12. ASSUME NEW h \in Handlers, CreateSession(h)
      PROVE  ClaimInv'
  <2> DEFINE t == lastSession + 1
  <2>1. \A g \in Handlers : pc'[g] \in Claimed => g # h /\ pc[g] \in Claimed
    BY <1>12 DEF CreateSession
  <2>2. \A s \in Tokens : via'[s] = "mfa" =>
          \/ s = t /\ from'[s] = challenge[h]
          \/ s # t /\ via[s] = "mfa" /\ from'[s] = from[s]
    BY <1>12 DEF CreateSession, NewSession
  <2>3. UNCHANGED <<challenges, challenge, lastChallenge>>
    BY <1>12 DEF CreateSession, NewSession
  <2>4. pc[h] \in Claimed
    BY <1>12 DEF CreateSession
  <2> HIDE DEF t, TypeOK, OpInv, Claimed
  <2> QED
    BY <2>1, <2>2, <2>3, <2>4
<1>13. ASSUME NEW h \in Handlers, RenewRead(h)
      PROVE  ClaimInv'
  <2> HIDE DEF TypeOK, OpInv, ClaimInv
  <2>1. \E p \in {"replace", "refused"} : pc' = [pc EXCEPT ![h] = p]
    BY <1>13 DEF RenewRead
  <2>2. UNCHANGED <<challenges, challenge, via, from, lastChallenge>>
    BY <1>13 DEF RenewRead
  <2>4. lastChallenge \in Nat /\ pc \in [Handlers -> ControlPoints]
    BY DEF TypeOK
  <2> QED
    BY <2>1, <2>2, <2>4, ClaimQuiet
<1>14. ASSUME NEW h \in Handlers, RenewCreate(h)
      PROVE  ClaimInv'
  <2>1. \A c \in 1..lastChallenge : challenges[c] = 0 => challenges'[c] = 0
    BY <1>14, SessionsConstants DEF RenewCreate, NewSession, RowTypes, CounterTypes, Challenges
  <2>2. \A t \in Tokens : via'[t] = "mfa" => via[t] = "mfa" /\ from'[t] = from[t]
    BY <1>14 DEF RenewCreate, NewSession, HistoryTypes
  <2>3. \A g \in Handlers : pc'[g] \in Claimed =>
          pc[g] \in Claimed /\ challenge'[g] = challenge[g]
    BY <1>14 DEF RenewCreate, NewSession, HandlerTypes, Claimed
  <2>4. lastChallenge \in Nat /\ lastChallenge' \in Nat /\ lastChallenge <= lastChallenge'
    BY <1>14, SessionsConstants DEF RenewCreate, NewSession, CounterTypes
  <2> QED
    BY <2>1, <2>2, <2>3, <2>4, ClaimFrame
<1>15. ASSUME NEW h \in Handlers, RenewDropOld(h)
      PROVE  ClaimInv'
  <2> HIDE DEF TypeOK, OpInv, ClaimInv
  <2>1. pc' = [pc EXCEPT ![h] = "ok"]
    BY <1>15 DEF RenewDropOld
  <2>2. UNCHANGED <<challenges, challenge, via, from, lastChallenge>>
    BY <1>15 DEF RenewDropOld
  <2>4. lastChallenge \in Nat /\ pc \in [Handlers -> ControlPoints]
    BY DEF TypeOK
  <2> QED
    BY <2>1, <2>2, <2>4, ClaimQuiet
<1>16. ASSUME NEW h \in Handlers, RenewDropOldFails(h)
      PROVE  ClaimInv'
  <2> HIDE DEF TypeOK, OpInv, ClaimInv
  <2>1. pc' = [pc EXCEPT ![h] = "drop_new"]
    BY <1>16 DEF RenewDropOldFails
  <2>2. UNCHANGED <<challenges, challenge, via, from, lastChallenge>>
    BY <1>16 DEF RenewDropOldFails
  <2>4. lastChallenge \in Nat /\ pc \in [Handlers -> ControlPoints]
    BY DEF TypeOK
  <2> QED
    BY <2>1, <2>2, <2>4, ClaimQuiet
<1>17. ASSUME NEW h \in Handlers, RenewDropNew(h)
      PROVE  ClaimInv'
  <2> HIDE DEF TypeOK, OpInv, ClaimInv
  <2>1. pc' = [pc EXCEPT ![h] = "refused"]
    BY <1>17 DEF RenewDropNew
  <2>2. UNCHANGED <<challenges, challenge, via, from, lastChallenge>>
    BY <1>17 DEF RenewDropNew
  <2>4. lastChallenge \in Nat /\ pc \in [Handlers -> ControlPoints]
    BY DEF TypeOK
  <2> QED
    BY <2>1, <2>2, <2>4, ClaimQuiet
<1>18. ASSUME NEW h \in Handlers, Logout(h)
      PROVE  ClaimInv'
  <2> HIDE DEF TypeOK, OpInv, ClaimInv
  <2>1. pc' = [pc EXCEPT ![h] = "ok"]
    BY <1>18 DEF Logout, Ends
  <2>2. UNCHANGED <<challenges, challenge, via, from, lastChallenge>>
    BY <1>18 DEF Logout, Ends
  <2>4. lastChallenge \in Nat /\ pc \in [Handlers -> ControlPoints]
    BY DEF TypeOK
  <2> QED
    BY <2>1, <2>2, <2>4, ClaimQuiet
<1>19. ASSUME NEW h \in Handlers, BeginTOTPEnrollment(h)
      PROVE  ClaimInv'
  <2> HIDE DEF TypeOK, OpInv, ClaimInv
  <2>1. pc' = [pc EXCEPT ![h] = "ok"]
    BY <1>19 DEF BeginTOTPEnrollment
  <2>2. UNCHANGED <<challenges, challenge, via, from, lastChallenge>>
    BY <1>19 DEF BeginTOTPEnrollment
  <2>4. lastChallenge \in Nat /\ pc \in [Handlers -> ControlPoints]
    BY DEF TypeOK
  <2> QED
    BY <2>1, <2>2, <2>4, ClaimQuiet
<1>20. ASSUME NEW h \in Handlers, ConfirmRead(h)
      PROVE  ClaimInv'
  <2> HIDE DEF TypeOK, OpInv, ClaimInv
  <2>1. \E p \in {"activate", "refused"} : pc' = [pc EXCEPT ![h] = p]
    BY <1>20 DEF ConfirmRead
  <2>2. UNCHANGED <<challenges, challenge, via, from, lastChallenge>>
    BY <1>20 DEF ConfirmRead
  <2>4. lastChallenge \in Nat /\ pc \in [Handlers -> ControlPoints]
    BY DEF TypeOK
  <2> QED
    BY <2>1, <2>2, <2>4, ClaimQuiet
<1>21. ASSUME NEW h \in Handlers, ConfirmActivate(h)
      PROVE  ClaimInv'
  <2> HIDE DEF TypeOK, OpInv, ClaimInv
  <2>1. \E p \in {"refused", "delete_codes"} : pc' = [pc EXCEPT ![h] = p]
    BY <1>21 DEF ConfirmActivate
  <2>2. UNCHANGED <<challenges, challenge, via, from, lastChallenge>>
    BY <1>21 DEF ConfirmActivate
  <2>4. lastChallenge \in Nat /\ pc \in [Handlers -> ControlPoints]
    BY DEF TypeOK
  <2> QED
    BY <2>1, <2>2, <2>4, ClaimQuiet
<1>22. ASSUME NEW h \in Handlers, RotateStart(h)
      PROVE  ClaimInv'
  <2> HIDE DEF TypeOK, OpInv, ClaimInv
  <2>1. pc' = [pc EXCEPT ![h] = "delete_codes"]
    BY <1>22 DEF RotateStart
  <2>2. UNCHANGED <<challenges, challenge, via, from, lastChallenge>>
    BY <1>22 DEF RotateStart
  <2>4. lastChallenge \in Nat /\ pc \in [Handlers -> ControlPoints]
    BY DEF TypeOK
  <2> QED
    BY <2>1, <2>2, <2>4, ClaimQuiet
<1>23. ASSUME NEW h \in Handlers, Revoke(h)
      PROVE  ClaimInv'
  <2> HIDE DEF TypeOK, OpInv, ClaimInv
  <2>1. \E p \in {"refused", "delete_codes"} : pc' = [pc EXCEPT ![h] = p]
    BY <1>23 DEF Revoke
  <2>2. UNCHANGED <<challenges, challenge, via, from, lastChallenge>>
    BY <1>23 DEF Revoke
  <2>4. lastChallenge \in Nat /\ pc \in [Handlers -> ControlPoints]
    BY DEF TypeOK
  <2> QED
    BY <2>1, <2>2, <2>4, ClaimQuiet
<1>24. ASSUME NEW h \in Handlers, DeleteRecoveryCodes(h)
      PROVE  ClaimInv'
  <2> HIDE DEF TypeOK, OpInv, ClaimInv
  <2>1. \E p \in {"delete_sessions", "create_codes"} : pc' = [pc EXCEPT ![h] = p]
    BY <1>24 DEF DeleteRecoveryCodes
  <2>2. UNCHANGED <<challenges, challenge, via, from, lastChallenge>>
    BY <1>24 DEF DeleteRecoveryCodes
  <2>4. lastChallenge \in Nat /\ pc \in [Handlers -> ControlPoints]
    BY DEF TypeOK
  <2> QED
    BY <2>1, <2>2, <2>4, ClaimQuiet
<1>25. ASSUME NEW h \in Handlers, CreateRecoveryCode(h)
      PROVE  ClaimInv'
  <2> HIDE DEF TypeOK, OpInv, ClaimInv
  <2>1. \E p \in {"delete_sessions", "create_codes"} : pc' = [pc EXCEPT ![h] = p]
    BY <1>25 DEF CreateRecoveryCode
  <2>2. UNCHANGED <<challenges, challenge, via, from, lastChallenge>>
    BY <1>25 DEF CreateRecoveryCode
  <2>4. lastChallenge \in Nat /\ pc \in [Handlers -> ControlPoints]
    BY DEF TypeOK
  <2> QED
    BY <2>1, <2>2, <2>4, ClaimQuiet
<1>26. ASSUME NEW h \in Handlers, DeleteUserSessions(h)
      PROVE  ClaimInv'
  <2> HIDE DEF TypeOK, OpInv, ClaimInv
  <2>1. pc' = [pc EXCEPT ![h] = "ok"]
    BY <1>26 DEF DeleteUserSessions, Ends
  <2>2. UNCHANGED <<challenges, challenge, via, from, lastChallenge>>
    BY <1>26 DEF DeleteUserSessions, Ends
  <2>4. lastChallenge \in Nat /\ pc \in [Handlers -> ControlPoints]
    BY DEF TypeOK
  <2> QED
    BY <2>1, <2>2, <2>4, ClaimQuiet
<1>27. ASSUME NEW h \in Handlers, StatementFails(h)
      PROVE  ClaimInv'
  <2> HIDE DEF TypeOK, OpInv, ClaimInv
  <2>1. pc' = [pc EXCEPT ![h] = "failed"]
    BY <1>27 DEF StatementFails
  <2>2. UNCHANGED <<challenges, challenge, via, from, lastChallenge>>
    BY <1>27 DEF StatementFails
  <2>4. lastChallenge \in Nat /\ pc \in [Handlers -> ControlPoints]
    BY DEF TypeOK
  <2> QED
    BY <2>1, <2>2, <2>4, ClaimQuiet
<1>28. CASE Tick
  BY <1>28 DEF Tick
<1>29. CASE UNCHANGED vars
  BY <1>29 DEF vars
<1> HIDE SessionsConstants DEF TypeOK, RowTypes, HandlerTypes, HistoryTypes,
        CounterTypes, Tokens, Challenges, Claimed, NoChallenge, Goto, rows,
        request, locals, clock, totp, made, raced, history, issued, OpInv,
        ClaimInv
<1> QED
  BY <1>1, <1>2, <1>3, <1>4, <1>5, <1>6, <1>7, <1>8, <1>9, <1>10, <1>11,
      <1>12, <1>13, <1>14, <1>15, <1>16, <1>17, <1>18, <1>19, <1>20, <1>21,
      <1>22, <1>23, <1>24, <1>25, <1>26, <1>27, <1>28, <1>29 DEF Next, Login,
      CompleteMFA, Renew, ManageMFA

\* No recovery code is inserted twice.
LEMMA CodeStep ==
    TypeOK /\ OpInv /\ CodeInv /\ [Next]_vars
        => CodeInv'
<1> SUFFICES ASSUME TypeOK, OpInv, CodeInv, [Next]_vars PROVE CodeInv'
  OBVIOUS
<1> USE SessionsConstants, FactorFacts DEF TypeOK, RowTypes, HandlerTypes,
        CounterTypes, Batches, Places, Born, Goto, rows, request, locals,
        clock, totp, made, raced, history, issued, OpInv, CodeInv
<1>1. ASSUME NEW h \in Handlers, NEW o \in Ops, NEW t \in Cookies(o), NEW c
        \in ChallengesFor(o), NEW g \in CodesFor(o), Arrive(h, o, t, c, g)
      PROVE  CodeInv'
  BY <1>1 DEF Arrive, Cookies, ChallengesFor, CodesFor
<1>2. ASSUME NEW h \in Handlers, Unauthenticated(h)
      PROVE  CodeInv'
  BY <1>2 DEF Unauthenticated
<1>3. ASSUME NEW h \in Handlers, LoginDirect(h)
      PROVE  CodeInv'
  BY <1>3 DEF LoginDirect, NewSession, Serves
<1>4. ASSUME NEW h \in Handlers, LoginNeedsFactor(h)
      PROVE  CodeInv'
  BY <1>4 DEF LoginNeedsFactor, Serves
<1>5. ASSUME NEW h \in Handlers, CreateMFAChallenge(h)
      PROVE  CodeInv'
  BY <1>5 DEF CreateMFAChallenge
<1>6. ASSUME NEW h \in Handlers, ClaimRead(h)
      PROVE  CodeInv'
  BY <1>6 DEF ClaimRead, Serves
<1>7. ASSUME NEW h \in Handlers, ClaimDelete(h)
      PROVE  CodeInv'
  BY <1>7 DEF ClaimDelete
<1>8. ASSUME NEW h \in Handlers, Unbound(h)
      PROVE  CodeInv'
  BY <1>8 DEF Unbound
<1>9. ASSUME NEW h \in Handlers, VerifyTOTP(h)
      PROVE  CodeInv'
  BY <1>9 DEF VerifyTOTP
<1>10. ASSUME NEW h \in Handlers, UnusedRecoveryCodes(h)
      PROVE  CodeInv'
  BY <1>10 DEF UnusedRecoveryCodes
<1>11. ASSUME NEW h \in Handlers, MarkRecoveryCodeUsed(h)
      PROVE  CodeInv'
  BY <1>11 DEF MarkRecoveryCodeUsed
<1>12. ASSUME NEW h \in Handlers, CreateSession(h)
      PROVE  CodeInv'
  BY <1>12 DEF CreateSession, NewSession
<1>13. ASSUME NEW h \in Handlers, RenewRead(h)
      PROVE  CodeInv'
  BY <1>13 DEF RenewRead, Serves, Authenticated
<1>14. ASSUME NEW h \in Handlers, RenewCreate(h)
      PROVE  CodeInv'
  BY <1>14 DEF RenewCreate, NewSession
<1>15. ASSUME NEW h \in Handlers, RenewDropOld(h)
      PROVE  CodeInv'
  BY <1>15 DEF RenewDropOld
<1>16. ASSUME NEW h \in Handlers, RenewDropOldFails(h)
      PROVE  CodeInv'
  BY <1>16 DEF RenewDropOldFails
<1>17. ASSUME NEW h \in Handlers, RenewDropNew(h)
      PROVE  CodeInv'
  BY <1>17 DEF RenewDropNew
<1>18. ASSUME NEW h \in Handlers, Logout(h)
      PROVE  CodeInv'
  BY <1>18 DEF Logout, Serves, Authenticated, Ends
<1>19. ASSUME NEW h \in Handlers, BeginTOTPEnrollment(h)
      PROVE  CodeInv'
  BY <1>19 DEF BeginTOTPEnrollment, Serves
<1>20. ASSUME NEW h \in Handlers, ConfirmRead(h)
      PROVE  CodeInv'
  BY <1>20 DEF ConfirmRead, Serves
<1>21. ASSUME NEW h \in Handlers, ConfirmActivate(h)
      PROVE  CodeInv'
  <2>1. \A c \in Codes : c \in retired' <=> c \in retired
    BY <1>21 DEF ConfirmActivate
  <2>2. /\ \E p \in {"refused", "delete_codes"} : pc' = [pc EXCEPT ![h] = p]
        /\ UNCHANGED <<codes, left, batch, lastBatch, given>>
    BY <1>21 DEF ConfirmActivate
  <2>3. \A g \in Handlers :
          /\ pc'[g] = "create_codes" => pc[g] = "create_codes"
          /\ pc'[g] = "mark" => pc[g] = "mark"
    BY <2>2
  <2> QED
    BY <2>1, <2>2, <2>3, CodeFrame
<1>22. ASSUME NEW h \in Handlers, RotateStart(h)
      PROVE  CodeInv'
  BY <1>22 DEF RotateStart, Serves
<1>23. ASSUME NEW h \in Handlers, Revoke(h)
      PROVE  CodeInv'
  <2>1. \A c \in Codes : c \in retired' <=> c \in retired
    BY <1>23 DEF Revoke
  <2>2. /\ \E p \in {"refused", "delete_codes"} : pc' = [pc EXCEPT ![h] = p]
        /\ UNCHANGED <<codes, left, batch, lastBatch, given>>
    BY <1>23 DEF Revoke
  <2>3. \A g \in Handlers :
          /\ pc'[g] = "create_codes" => pc[g] = "create_codes"
          /\ pc'[g] = "mark" => pc[g] = "mark"
    BY <2>2
  <2> QED
    BY <2>1, <2>2, <2>3, CodeFrame
<1>24. ASSUME NEW h \in Handlers, DeleteRecoveryCodes(h)
      PROVE  CodeInv'
  <2>1. \A c \in Codes : (codes'[c] = "none") /\ (c \in retired' <=> Born(c))
    BY <1>24 DEF DeleteRecoveryCodes
  <2>2. UNCHANGED given
    BY <1>24 DEF DeleteRecoveryCodes
  <2>3. CASE op[h] = "revoke"
    <3>1. pc' = [pc EXCEPT ![h] = "delete_sessions"] /\ UNCHANGED <<left, batch, lastBatch>>
      BY <1>24, <2>3 DEF DeleteRecoveryCodes
    <3> QED
      BY <2>1, <2>2, <3>1
  <2>4. CASE op[h] # "revoke"
    <3>1. /\ pc' = [pc EXCEPT ![h] = "create_codes"]
          /\ lastBatch + 1 \in Batches /\ lastBatch' = lastBatch + 1
          /\ batch' = [batch EXCEPT ![h] = lastBatch + 1]
          /\ left' = [left EXCEPT ![h] = CodeCount]
          /\ pc[h] = "delete_codes"
      BY <1>24, <2>4 DEF DeleteRecoveryCodes
    <3>2. /\ batch'[h] = lastBatch + 1 /\ left'[h] = CodeCount
          /\ \A g \in Handlers : g # h =>
                pc'[g] = pc[g] /\ batch'[g] = batch[g] /\ left'[g] = left[g]
      BY <3>1
    <3>3. pc'[h] = "create_codes"
      BY <3>1
    <3>4. \A b \in Batches : b <= lastBatch => b <= lastBatch' /\ b # lastBatch + 1
      BY <3>1
    <3>5. \A b \in Batches, n \in Places : Born(Recovery(b, n))' <=> Born(Recovery(b, n))
      BY <2>1
    <3>6. \A g \in Handlers : pc'[g] = "mark" => given'[g] \in Codes /\ Born(given[g])'
      BY <2>1, <2>2, <3>2, <3>3
    <3>7. \A c \in Codes : c \in retired' => codes'[c] # "unused"
      BY <2>1
    <3>8. lastBatch' = lastBatch + 1
      BY <3>1
    <3>9. \A g \in Handlers : pc'[g] = "create_codes" =>
             left'[g] >= 1 /\ batch'[g] <= lastBatch'
      <4>1. CodeCount >= 1 /\ lastBatch \in Int /\ \A g \in Handlers : batch[g] \in Int
        OBVIOUS
      <4> HIDE DEF TypeOK
      <4> QED
        BY <4>1, <3>2, <3>3, <3>8
    <3>10. \A f, g \in Handlers :
             f # g /\ pc'[f] = "create_codes" /\ pc'[g] = "create_codes" =>
                 batch'[f] # batch'[g]
      <4>1. \A g \in Handlers : pc[g] = "create_codes" => batch[g] # lastBatch + 1
        BY <3>4
      <4>2. \A f, g \in Handlers :
              f # g /\ pc[f] = "create_codes" /\ pc[g] = "create_codes" => batch[f] # batch[g]
        BY Zenon
      <4> HIDE DEF TypeOK, OpInv, CodeInv
      <4> QED
        BY <4>1, <4>2, <3>2
    <3>11. ASSUME NEW b \in Batches, NEW n \in Places, Born(Recovery(b, n))
           PROVE  /\ b <= lastBatch'
                  /\ \A g \in Handlers :
                        pc'[g] = "create_codes" /\ batch'[g] = b => n > left'[g]
      <4>1. b <= lastBatch /\ \A g \in Handlers :
               pc[g] = "create_codes" /\ batch[g] = b => n > left[g]
        BY <3>11
      <4> QED
        BY <4>1, <3>2, <3>3, <3>4
    <3> HIDE DEF Born, TypeOK
    <3> QED
      BY <3>5, <3>6, <3>7, <3>9, <3>10, <3>11
  <2> QED
    BY <2>3, <2>4
<1>25. ASSUME NEW h \in Handlers, CreateRecoveryCode(h)
      PROVE  CodeInv'
  BY <1>25 DEF CreateRecoveryCode
<1>26. ASSUME NEW h \in Handlers, DeleteUserSessions(h)
      PROVE  CodeInv'
  BY <1>26 DEF DeleteUserSessions, Ends
<1>27. ASSUME NEW h \in Handlers, StatementFails(h)
      PROVE  CodeInv'
  BY <1>27 DEF StatementFails
<1>28. CASE Tick
  BY <1>28 DEF Tick
<1>29. CASE UNCHANGED vars
  BY <1>29 DEF vars
<1> HIDE SessionsConstants, FactorFacts DEF TypeOK, RowTypes, HandlerTypes,
        CounterTypes, Batches, Places, Born, Goto, rows, request, locals,
        clock, totp, made, raced, history, issued, OpInv, CodeInv
<1> QED
  BY <1>1, <1>2, <1>3, <1>4, <1>5, <1>6, <1>7, <1>8, <1>9, <1>10, <1>11,
      <1>12, <1>13, <1>14, <1>15, <1>16, <1>17, <1>18, <1>19, <1>20, <1>21,
      <1>22, <1>23, <1>24, <1>25, <1>26, <1>27, <1>28, <1>29 DEF Next, Login,
      CompleteMFA, Renew, ManageMFA

\* Only one handler wins the UPDATE of a recovery code.
LEMMA UseStep ==
    TypeOK /\ CodeInv /\ UseInv /\ [Next]_vars
        => UseInv'
<1> SUFFICES ASSUME TypeOK, CodeInv, UseInv, [Next]_vars PROVE UseInv'
  OBVIOUS
<1> USE NoneAssumption, FactorFacts DEF TypeOK, RowTypes, HandlerTypes,
        HistoryTypes, Goto, rows, request, locals, clock, totp, made, raced,
        history, issued, CodeInv, UseInv
<1>1. ASSUME NEW h \in Handlers, NEW o \in Ops, NEW t \in Cookies(o), NEW c
        \in ChallengesFor(o), NEW g \in CodesFor(o), Arrive(h, o, t, c, g)
      PROVE  UseInv'
  BY <1>1 DEF Arrive, Cookies, ChallengesFor, CodesFor
<1>2. ASSUME NEW h \in Handlers, Unauthenticated(h)
      PROVE  UseInv'
  BY <1>2 DEF Unauthenticated
<1>3. ASSUME NEW h \in Handlers, LoginDirect(h)
      PROVE  UseInv'
  BY <1>3 DEF LoginDirect, NewSession, Serves
<1>4. ASSUME NEW h \in Handlers, LoginNeedsFactor(h)
      PROVE  UseInv'
  BY <1>4 DEF LoginNeedsFactor, Serves
<1>5. ASSUME NEW h \in Handlers, CreateMFAChallenge(h)
      PROVE  UseInv'
  BY <1>5 DEF CreateMFAChallenge
<1>6. ASSUME NEW h \in Handlers, ClaimRead(h)
      PROVE  UseInv'
  BY <1>6 DEF ClaimRead, Serves
<1>7. ASSUME NEW h \in Handlers, ClaimDelete(h)
      PROVE  UseInv'
  BY <1>7 DEF ClaimDelete
<1>8. ASSUME NEW h \in Handlers, Unbound(h)
      PROVE  UseInv'
  BY <1>8 DEF Unbound
<1>9. ASSUME NEW h \in Handlers, VerifyTOTP(h)
      PROVE  UseInv'
  BY <1>9 DEF VerifyTOTP
<1>10. ASSUME NEW h \in Handlers, UnusedRecoveryCodes(h)
      PROVE  UseInv'
  BY <1>10 DEF UnusedRecoveryCodes
<1>11. ASSUME NEW h \in Handlers, MarkRecoveryCodeUsed(h)
      PROVE  UseInv'
  BY <1>11 DEF MarkRecoveryCodeUsed
<1>12. ASSUME NEW h \in Handlers, CreateSession(h)
      PROVE  UseInv'
  BY <1>12 DEF CreateSession, NewSession
<1>13. ASSUME NEW h \in Handlers, RenewRead(h)
      PROVE  UseInv'
  BY <1>13 DEF RenewRead, Serves, Authenticated
<1>14. ASSUME NEW h \in Handlers, RenewCreate(h)
      PROVE  UseInv'
  BY <1>14 DEF RenewCreate, NewSession
<1>15. ASSUME NEW h \in Handlers, RenewDropOld(h)
      PROVE  UseInv'
  BY <1>15 DEF RenewDropOld
<1>16. ASSUME NEW h \in Handlers, RenewDropOldFails(h)
      PROVE  UseInv'
  BY <1>16 DEF RenewDropOldFails
<1>17. ASSUME NEW h \in Handlers, RenewDropNew(h)
      PROVE  UseInv'
  BY <1>17 DEF RenewDropNew
<1>18. ASSUME NEW h \in Handlers, Logout(h)
      PROVE  UseInv'
  BY <1>18 DEF Logout, Serves, Authenticated, Ends
<1>19. ASSUME NEW h \in Handlers, BeginTOTPEnrollment(h)
      PROVE  UseInv'
  BY <1>19 DEF BeginTOTPEnrollment, Serves
<1>20. ASSUME NEW h \in Handlers, ConfirmRead(h)
      PROVE  UseInv'
  BY <1>20 DEF ConfirmRead, Serves
<1>21. ASSUME NEW h \in Handlers, ConfirmActivate(h)
      PROVE  UseInv'
  <2>1. /\ \A c \in retired : c \in retired'
        /\ UNCHANGED <<by, given>>
        /\ \A g \in Handlers : pc'[g] = "create" => pc[g] = "create"
    BY <1>21 DEF ConfirmActivate
  <2> QED
    BY <2>1, UseFrame
<1>22. ASSUME NEW h \in Handlers, RotateStart(h)
      PROVE  UseInv'
  BY <1>22 DEF RotateStart, Serves
<1>23. ASSUME NEW h \in Handlers, Revoke(h)
      PROVE  UseInv'
  <2>1. /\ \A c \in retired : c \in retired'
        /\ UNCHANGED <<by, given>>
        /\ \A g \in Handlers : pc'[g] = "create" => pc[g] = "create"
    BY <1>23 DEF Revoke
  <2> QED
    BY <2>1, UseFrame
<1>24. ASSUME NEW h \in Handlers, DeleteRecoveryCodes(h)
      PROVE  UseInv'
  <2>1. /\ \A c \in retired : c \in retired'
        /\ UNCHANGED <<by, given>>
        /\ \A g \in Handlers : pc'[g] = "create" => pc[g] = "create"
    BY <1>24 DEF DeleteRecoveryCodes
  <2> QED
    BY <2>1, UseFrame
<1>25. ASSUME NEW h \in Handlers, CreateRecoveryCode(h)
      PROVE  UseInv'
  BY <1>25 DEF CreateRecoveryCode
<1>26. ASSUME NEW h \in Handlers, DeleteUserSessions(h)
      PROVE  UseInv'
  BY <1>26 DEF DeleteUserSessions, Ends
<1>27. ASSUME NEW h \in Handlers, StatementFails(h)
      PROVE  UseInv'
  BY <1>27 DEF StatementFails
<1>28. CASE Tick
  BY <1>28 DEF Tick
<1>29. CASE UNCHANGED vars
  BY <1>29 DEF vars
<1> HIDE NoneAssumption, FactorFacts DEF TypeOK, RowTypes, HandlerTypes,
        HistoryTypes, Goto, rows, request, locals, clock, totp, made, raced,
        history, issued, CodeInv, UseInv
<1> QED
  BY <1>1, <1>2, <1>3, <1>4, <1>5, <1>6, <1>7, <1>8, <1>9, <1>10, <1>11,
      <1>12, <1>13, <1>14, <1>15, <1>16, <1>17, <1>18, <1>19, <1>20, <1>21,
      <1>22, <1>23, <1>24, <1>25, <1>26, <1>27, <1>28, <1>29 DEF Next, Login,
      CompleteMFA, Renew, ManageMFA

\* Secrets are new when they become pending.
LEMMA SecretStep ==
    TypeOK /\ SecretInv /\ [Next]_vars
        => SecretInv'
<1> SUFFICES ASSUME TypeOK, SecretInv, [Next]_vars PROVE SecretInv'
  OBVIOUS
<1> USE SessionsConstants, FactorFacts DEF TypeOK, RowTypes, HandlerTypes,
        HistoryTypes, CounterTypes, Secrets, NoSecret, Goto, rows, request,
        locals, clock, totp, made, raced, history, issued, SecretInv
<1>1. ASSUME NEW h \in Handlers, NEW o \in Ops, NEW t \in Cookies(o), NEW c
        \in ChallengesFor(o), NEW g \in CodesFor(o), Arrive(h, o, t, c, g)
      PROVE  SecretInv'
  BY <1>1 DEF Arrive, Cookies, ChallengesFor, CodesFor
<1>2. ASSUME NEW h \in Handlers, Unauthenticated(h)
      PROVE  SecretInv'
  BY <1>2 DEF Unauthenticated
<1>3. ASSUME NEW h \in Handlers, LoginDirect(h)
      PROVE  SecretInv'
  BY <1>3 DEF LoginDirect, NewSession, Serves
<1>4. ASSUME NEW h \in Handlers, LoginNeedsFactor(h)
      PROVE  SecretInv'
  BY <1>4 DEF LoginNeedsFactor, Serves
<1>5. ASSUME NEW h \in Handlers, CreateMFAChallenge(h)
      PROVE  SecretInv'
  BY <1>5 DEF CreateMFAChallenge
<1>6. ASSUME NEW h \in Handlers, ClaimRead(h)
      PROVE  SecretInv'
  BY <1>6 DEF ClaimRead, Serves
<1>7. ASSUME NEW h \in Handlers, ClaimDelete(h)
      PROVE  SecretInv'
  BY <1>7 DEF ClaimDelete
<1>8. ASSUME NEW h \in Handlers, Unbound(h)
      PROVE  SecretInv'
  BY <1>8 DEF Unbound
<1>9. ASSUME NEW h \in Handlers, VerifyTOTP(h)
      PROVE  SecretInv'
  BY <1>9 DEF VerifyTOTP
<1>10. ASSUME NEW h \in Handlers, UnusedRecoveryCodes(h)
      PROVE  SecretInv'
  BY <1>10 DEF UnusedRecoveryCodes
<1>11. ASSUME NEW h \in Handlers, MarkRecoveryCodeUsed(h)
      PROVE  SecretInv'
  BY <1>11 DEF MarkRecoveryCodeUsed
<1>12. ASSUME NEW h \in Handlers, CreateSession(h)
      PROVE  SecretInv'
  BY <1>12 DEF CreateSession, NewSession
<1>13. ASSUME NEW h \in Handlers, RenewRead(h)
      PROVE  SecretInv'
  BY <1>13 DEF RenewRead, Serves, Authenticated
<1>14. ASSUME NEW h \in Handlers, RenewCreate(h)
      PROVE  SecretInv'
  BY <1>14 DEF RenewCreate, NewSession
<1>15. ASSUME NEW h \in Handlers, RenewDropOld(h)
      PROVE  SecretInv'
  BY <1>15 DEF RenewDropOld
<1>16. ASSUME NEW h \in Handlers, RenewDropOldFails(h)
      PROVE  SecretInv'
  BY <1>16 DEF RenewDropOldFails
<1>17. ASSUME NEW h \in Handlers, RenewDropNew(h)
      PROVE  SecretInv'
  BY <1>17 DEF RenewDropNew
<1>18. ASSUME NEW h \in Handlers, Logout(h)
      PROVE  SecretInv'
  BY <1>18 DEF Logout, Serves, Authenticated, Ends
<1>19. ASSUME NEW h \in Handlers, BeginTOTPEnrollment(h)
      PROVE  SecretInv'
  BY <1>19 DEF BeginTOTPEnrollment, Serves
<1>20. ASSUME NEW h \in Handlers, ConfirmRead(h)
      PROVE  SecretInv'
  BY <1>20 DEF ConfirmRead, Serves
<1>21. ASSUME NEW h \in Handlers, ConfirmActivate(h)
      PROVE  SecretInv'
  BY <1>21 DEF ConfirmActivate
<1>22. ASSUME NEW h \in Handlers, RotateStart(h)
      PROVE  SecretInv'
  BY <1>22 DEF RotateStart, Serves
<1>23. ASSUME NEW h \in Handlers, Revoke(h)
      PROVE  SecretInv'
  BY <1>23 DEF Revoke, Serves
<1>24. ASSUME NEW h \in Handlers, DeleteRecoveryCodes(h)
      PROVE  SecretInv'
  BY <1>24 DEF DeleteRecoveryCodes
<1>25. ASSUME NEW h \in Handlers, CreateRecoveryCode(h)
      PROVE  SecretInv'
  BY <1>25 DEF CreateRecoveryCode
<1>26. ASSUME NEW h \in Handlers, DeleteUserSessions(h)
      PROVE  SecretInv'
  BY <1>26 DEF DeleteUserSessions, Ends
<1>27. ASSUME NEW h \in Handlers, StatementFails(h)
      PROVE  SecretInv'
  BY <1>27 DEF StatementFails
<1>28. CASE Tick
  BY <1>28 DEF Tick
<1>29. CASE UNCHANGED vars
  BY <1>29 DEF vars
<1> HIDE SessionsConstants, FactorFacts DEF TypeOK, RowTypes, HandlerTypes,
        HistoryTypes, CounterTypes, Secrets, NoSecret, Goto, rows, request,
        locals, clock, totp, made, raced, history, issued, SecretInv
<1> QED
  BY <1>1, <1>2, <1>3, <1>4, <1>5, <1>6, <1>7, <1>8, <1>9, <1>10, <1>11,
      <1>12, <1>13, <1>14, <1>15, <1>16, <1>17, <1>18, <1>19, <1>20, <1>21,
      <1>22, <1>23, <1>24, <1>25, <1>26, <1>27, <1>28, <1>29 DEF Next, Login,
      CompleteMFA, Renew, ManageMFA

\* A retired code is never accepted.
LEMMA StaleStep ==
    TypeOK /\ OpInv /\ CodeInv /\ SecretInv /\ StaleInv /\ [Next]_vars
        => StaleInv'
<1> SUFFICES ASSUME TypeOK, OpInv, CodeInv, SecretInv, StaleInv, [Next]_vars
        PROVE StaleInv'
  OBVIOUS
<1> USE FactorFacts DEF TypeOK, RowTypes, HandlerTypes, HistoryTypes,
        NoSecret, Goto, rows, request, locals, clock, totp, made, raced,
        history, issued, OpInv, CodeInv, SecretInv, StaleInv
<1>1. ASSUME NEW h \in Handlers, NEW o \in Ops, NEW t \in Cookies(o), NEW c
        \in ChallengesFor(o), NEW g \in CodesFor(o), Arrive(h, o, t, c, g)
      PROVE  StaleInv'
  BY <1>1 DEF Arrive, Cookies, ChallengesFor, CodesFor
<1>2. ASSUME NEW h \in Handlers, Unauthenticated(h)
      PROVE  StaleInv'
  BY <1>2 DEF Unauthenticated
<1>3. ASSUME NEW h \in Handlers, LoginDirect(h)
      PROVE  StaleInv'
  BY <1>3 DEF LoginDirect, NewSession, Serves
<1>4. ASSUME NEW h \in Handlers, LoginNeedsFactor(h)
      PROVE  StaleInv'
  BY <1>4 DEF LoginNeedsFactor, Serves
<1>5. ASSUME NEW h \in Handlers, CreateMFAChallenge(h)
      PROVE  StaleInv'
  BY <1>5 DEF CreateMFAChallenge
<1>6. ASSUME NEW h \in Handlers, ClaimRead(h)
      PROVE  StaleInv'
  BY <1>6 DEF ClaimRead, Serves
<1>7. ASSUME NEW h \in Handlers, ClaimDelete(h)
      PROVE  StaleInv'
  BY <1>7 DEF ClaimDelete
<1>8. ASSUME NEW h \in Handlers, Unbound(h)
      PROVE  StaleInv'
  BY <1>8 DEF Unbound
<1>9. ASSUME NEW h \in Handlers, VerifyTOTP(h)
      PROVE  StaleInv'
  BY <1>9 DEF VerifyTOTP
<1>10. ASSUME NEW h \in Handlers, UnusedRecoveryCodes(h)
      PROVE  StaleInv'
  BY <1>10 DEF UnusedRecoveryCodes
<1>11. ASSUME NEW h \in Handlers, MarkRecoveryCodeUsed(h)
      PROVE  StaleInv'
  BY <1>11 DEF MarkRecoveryCodeUsed
<1>12. ASSUME NEW h \in Handlers, CreateSession(h)
      PROVE  StaleInv'
  BY <1>12 DEF CreateSession, NewSession
<1>13. ASSUME NEW h \in Handlers, RenewRead(h)
      PROVE  StaleInv'
  BY <1>13 DEF RenewRead, Serves, Authenticated
<1>14. ASSUME NEW h \in Handlers, RenewCreate(h)
      PROVE  StaleInv'
  BY <1>14 DEF RenewCreate, NewSession
<1>15. ASSUME NEW h \in Handlers, RenewDropOld(h)
      PROVE  StaleInv'
  BY <1>15 DEF RenewDropOld
<1>16. ASSUME NEW h \in Handlers, RenewDropOldFails(h)
      PROVE  StaleInv'
  BY <1>16 DEF RenewDropOldFails
<1>17. ASSUME NEW h \in Handlers, RenewDropNew(h)
      PROVE  StaleInv'
  BY <1>17 DEF RenewDropNew
<1>18. ASSUME NEW h \in Handlers, Logout(h)
      PROVE  StaleInv'
  BY <1>18 DEF Logout, Serves, Authenticated, Ends
<1>19. ASSUME NEW h \in Handlers, BeginTOTPEnrollment(h)
      PROVE  StaleInv'
  BY <1>19 DEF BeginTOTPEnrollment, Serves
<1>20. ASSUME NEW h \in Handlers, ConfirmRead(h)
      PROVE  StaleInv'
  BY <1>20 DEF ConfirmRead, Serves
<1>21. ASSUME NEW h \in Handlers, ConfirmActivate(h)
      PROVE  StaleInv'
  BY <1>21 DEF ConfirmActivate
<1>22. ASSUME NEW h \in Handlers, RotateStart(h)
      PROVE  StaleInv'
  BY <1>22 DEF RotateStart, Serves
<1>23. ASSUME NEW h \in Handlers, Revoke(h)
      PROVE  StaleInv'
  BY <1>23 DEF Revoke, Serves
<1>24. ASSUME NEW h \in Handlers, DeleteRecoveryCodes(h)
      PROVE  StaleInv'
  BY <1>24 DEF DeleteRecoveryCodes
<1>25. ASSUME NEW h \in Handlers, CreateRecoveryCode(h)
      PROVE  StaleInv'
  BY <1>25 DEF CreateRecoveryCode
<1>26. ASSUME NEW h \in Handlers, DeleteUserSessions(h)
      PROVE  StaleInv'
  BY <1>26 DEF DeleteUserSessions, Ends
<1>27. ASSUME NEW h \in Handlers, StatementFails(h)
      PROVE  StaleInv'
  BY <1>27 DEF StatementFails
<1>28. CASE Tick
  BY <1>28 DEF Tick
<1>29. CASE UNCHANGED vars
  BY <1>29 DEF vars
<1> HIDE FactorFacts DEF TypeOK, RowTypes, HandlerTypes, HistoryTypes,
        NoSecret, Goto, rows, request, locals, clock, totp, made, raced,
        history, issued, OpInv, CodeInv, SecretInv, StaleInv
<1> QED
  BY <1>1, <1>2, <1>3, <1>4, <1>5, <1>6, <1>7, <1>8, <1>9, <1>10, <1>11,
      <1>12, <1>13, <1>14, <1>15, <1>16, <1>17, <1>18, <1>19, <1>20, <1>21,
      <1>22, <1>23, <1>24, <1>25, <1>26, <1>27, <1>28, <1>29 DEF Next, Login,
      CompleteMFA, Renew, ManageMFA

\* Sessions are not inserted again.
LEMMA EndStep ==
    TypeOK /\ OpInv /\ EndInv /\ [Next]_vars
        => EndInv'
<1> SUFFICES ASSUME TypeOK, OpInv, EndInv, [Next]_vars PROVE EndInv'
  OBVIOUS
<1> USE SessionsConstants DEF TypeOK, RowTypes, HandlerTypes, HistoryTypes,
        CounterTypes, Tokens, NoSession, Goto, rows, request, locals, clock,
        totp, made, raced, history, issued, OpInv, EndInv
<1>1. ASSUME NEW h \in Handlers, NEW o \in Ops, NEW t \in Cookies(o), NEW c
        \in ChallengesFor(o), NEW g \in CodesFor(o), Arrive(h, o, t, c, g)
      PROVE  EndInv'
  BY <1>1 DEF Arrive, Cookies, ChallengesFor, CodesFor
<1>2. ASSUME NEW h \in Handlers, Unauthenticated(h)
      PROVE  EndInv'
  BY <1>2 DEF Unauthenticated
<1>3. ASSUME NEW h \in Handlers, LoginDirect(h)
      PROVE  EndInv'
  <2>0. /\ lastSession + 1 \in Tokens
        /\ sessions' = [sessions EXCEPT ![lastSession + 1] = now + TTL]
        /\ via' = [via EXCEPT ![lastSession + 1] = "password"]
        /\ from' = [from EXCEPT ![lastSession + 1] = NoSession]
        /\ fresh' = [fresh EXCEPT ![h] = lastSession + 1]
        /\ lastSession' = lastSession + 1
        /\ pc' = [pc EXCEPT ![h] = "ok"]
        /\ UNCHANGED <<op, cookie, ended, racedSessions>>
    BY <1>3 DEF LoginDirect, NewSession
  <2>6. op[h] = "login"
    BY <1>3 DEF LoginDirect, Serves
  <2> HIDE DEF TypeOK
  <2>5. /\ sessions \in [Tokens -> Nat] /\ fresh \in [Handlers -> Tokens \cup {NoSession}]
        /\ via \in [Tokens -> {"none", "earlier", "password", "mfa", "renewal"}]
        /\ from \in [Tokens -> Nat] /\ pc \in [Handlers -> ControlPoints]
        /\ lastSession \in Tokens /\ lastSession \in Nat /\ Tokens \subseteq Nat
        /\ ended \subseteq Tokens
    BY SessionTypes
  <2> USE DEF TypeOK
  <2>3. \A g \in Handlers :
          /\ cookie[g] \in Tokens /\ cookie[g] <= lastSession
          /\ fresh[g] \in Tokens \cup {NoSession} /\ fresh[g] <= lastSession
    OBVIOUS
  <2> HIDE DEF EndInv, TypeOK, OpInv
  <2>1. UNCHANGED <<ended, racedSessions>> /\ lastSession' \in Nat /\ lastSession <= lastSession'
    BY <2>0, <2>5
  <2>2. /\ \A t \in Tokens : t > lastSession' => sessions'[t] = sessions[t] /\ via'[t] = via[t]
        /\ \A t \in Tokens : t <= lastSession /\ sessions[t] = 0 => sessions'[t] = 0
    BY <2>0, <2>5
  <2>7. \A g \in Handlers : g # h => pc'[g] = pc[g] /\ fresh'[g] = fresh[g]
    BY <2>0, <2>5
  <2>8. pc'[h] \notin {"replace", "refused"} /\ (op[h] = "renew" => pc'[h] = "drop_old" /\ pc[h] = "replace")
          /\ (pc'[h] = "drop_old" => pc[h] = "replace")
    BY <2>0, <2>5, <2>6
  <2>4. \A g \in Handlers :
          /\ op'[g] = "renew" /\ pc'[g] \in {"ok", "refused"} =>
                /\ UNCHANGED <<cookie[g], fresh[g]>>
                /\ \/ op[g] = "renew" /\ UNCHANGED pc[g]
                   \/ pc'[g] = "refused" /\ fresh[g] = NoSession
          /\ pc'[g] \in {"replace", "drop_old"} =>
                /\ UNCHANGED cookie[g]
                /\ pc[g] \in {"replace", "drop_old"} \/ cookie[g] \notin ended
    BY <2>0, <2>7, <2>8
  <2> HIDE DEF Tokens
  <2> QED
    BY <2>1, <2>2, <2>3, <2>4, <2>5, EndFrame
<1>4. ASSUME NEW h \in Handlers, LoginNeedsFactor(h)
      PROVE  EndInv'
  <2>1. op[h] # "renew"
    BY <1>4 DEF LoginNeedsFactor, Serves
  <2>2. \E p \in {"refused", "insert_challenge"} : Quiet(h, p)
    <3>1. /\ \E p \in {"refused", "insert_challenge"} : pc' = [pc EXCEPT ![h] = p]
          /\ UNCHANGED <<sessions, via, from, ended, op, cookie, fresh, lastSession, racedSessions>>
      BY <1>4 DEF LoginNeedsFactor, Serves
    <3> QED
      BY <2>1, <3>1 DEF Quiet
  <2> HIDE DEF EndInv, RenewInv
  <2> QED
    BY <2>2, QuietEnd
<1>5. ASSUME NEW h \in Handlers, CreateMFAChallenge(h)
      PROVE  EndInv'
  BY <1>5 DEF CreateMFAChallenge
<1>6. ASSUME NEW h \in Handlers, ClaimRead(h)
      PROVE  EndInv'
  BY <1>6 DEF ClaimRead, Serves
<1>7. ASSUME NEW h \in Handlers, ClaimDelete(h)
      PROVE  EndInv'
  BY <1>7 DEF ClaimDelete
<1>8. ASSUME NEW h \in Handlers, Unbound(h)
      PROVE  EndInv'
  <2>1. op[h] # "renew"
    BY <1>8 DEF Unbound
  <2>2. \E p \in {"refused"} : Quiet(h, p)
    <3>1. /\ \E p \in {"refused"} : pc' = [pc EXCEPT ![h] = p]
          /\ UNCHANGED <<sessions, via, from, ended, op, cookie, fresh, lastSession, racedSessions>>
      BY <1>8 DEF Unbound
    <3> QED
      BY <2>1, <3>1 DEF Quiet
  <2> HIDE DEF EndInv, RenewInv
  <2> QED
    BY <2>2, QuietEnd
<1>9. ASSUME NEW h \in Handlers, VerifyTOTP(h)
      PROVE  EndInv'
  <2>1. op[h] # "renew"
    BY <1>9 DEF VerifyTOTP
  <2>2. \E p \in {"create", "recovery"} : Quiet(h, p)
    <3>1. /\ \E p \in {"create", "recovery"} : pc' = [pc EXCEPT ![h] = p]
          /\ UNCHANGED <<sessions, via, from, ended, op, cookie, fresh, lastSession, racedSessions>>
      BY <1>9 DEF VerifyTOTP
    <3> QED
      BY <2>1, <3>1 DEF Quiet
  <2> HIDE DEF EndInv, RenewInv
  <2> QED
    BY <2>2, QuietEnd
<1>10. ASSUME NEW h \in Handlers, UnusedRecoveryCodes(h)
      PROVE  EndInv'
  <2>1. op[h] # "renew"
    BY <1>10 DEF UnusedRecoveryCodes
  <2>2. \E p \in {"mark", "refused"} : Quiet(h, p)
    <3>1. /\ \E p \in {"mark", "refused"} : pc' = [pc EXCEPT ![h] = p]
          /\ UNCHANGED <<sessions, via, from, ended, op, cookie, fresh, lastSession, racedSessions>>
      BY <1>10 DEF UnusedRecoveryCodes
    <3> QED
      BY <2>1, <3>1 DEF Quiet
  <2> HIDE DEF EndInv, RenewInv
  <2> QED
    BY <2>2, QuietEnd
<1>11. ASSUME NEW h \in Handlers, MarkRecoveryCodeUsed(h)
      PROVE  EndInv'
  <2>1. op[h] # "renew"
    BY <1>11 DEF MarkRecoveryCodeUsed
  <2>2. \E p \in {"create", "refused"} : Quiet(h, p)
    <3>1. /\ \E p \in {"create", "refused"} : pc' = [pc EXCEPT ![h] = p]
          /\ UNCHANGED <<sessions, via, from, ended, op, cookie, fresh, lastSession, racedSessions>>
      BY <1>11 DEF MarkRecoveryCodeUsed
    <3> QED
      BY <2>1, <3>1 DEF Quiet
  <2> HIDE DEF EndInv, RenewInv
  <2> QED
    BY <2>2, QuietEnd
<1>12. ASSUME NEW h \in Handlers, CreateSession(h)
      PROVE  EndInv'
  <2>0. /\ lastSession + 1 \in Tokens
        /\ sessions' = [sessions EXCEPT ![lastSession + 1] = now + TTL]
        /\ via' = [via EXCEPT ![lastSession + 1] = "mfa"]
        /\ from' = [from EXCEPT ![lastSession + 1] = challenge[h]]
        /\ fresh' = [fresh EXCEPT ![h] = lastSession + 1]
        /\ lastSession' = lastSession + 1
        /\ pc' = [pc EXCEPT ![h] = "ok"]
        /\ UNCHANGED <<op, cookie, ended, racedSessions>>
    BY <1>12 DEF CreateSession, NewSession
  <2>6. op[h] = "verify"
    BY <1>12 DEF CreateSession
  <2> HIDE DEF TypeOK
  <2>5. /\ sessions \in [Tokens -> Nat] /\ fresh \in [Handlers -> Tokens \cup {NoSession}]
        /\ via \in [Tokens -> {"none", "earlier", "password", "mfa", "renewal"}]
        /\ from \in [Tokens -> Nat] /\ pc \in [Handlers -> ControlPoints]
        /\ lastSession \in Tokens /\ lastSession \in Nat /\ Tokens \subseteq Nat
        /\ ended \subseteq Tokens
    BY SessionTypes
  <2> USE DEF TypeOK
  <2>3. \A g \in Handlers :
          /\ cookie[g] \in Tokens /\ cookie[g] <= lastSession
          /\ fresh[g] \in Tokens \cup {NoSession} /\ fresh[g] <= lastSession
    OBVIOUS
  <2> HIDE DEF EndInv, TypeOK, OpInv
  <2>1. UNCHANGED <<ended, racedSessions>> /\ lastSession' \in Nat /\ lastSession <= lastSession'
    BY <2>0, <2>5
  <2>2. /\ \A t \in Tokens : t > lastSession' => sessions'[t] = sessions[t] /\ via'[t] = via[t]
        /\ \A t \in Tokens : t <= lastSession /\ sessions[t] = 0 => sessions'[t] = 0
    BY <2>0, <2>5
  <2>7. \A g \in Handlers : g # h => pc'[g] = pc[g] /\ fresh'[g] = fresh[g]
    BY <2>0, <2>5
  <2>8. pc'[h] \notin {"replace", "refused"} /\ (op[h] = "renew" => pc'[h] = "drop_old" /\ pc[h] = "replace")
          /\ (pc'[h] = "drop_old" => pc[h] = "replace")
    BY <2>0, <2>5, <2>6
  <2>4. \A g \in Handlers :
          /\ op'[g] = "renew" /\ pc'[g] \in {"ok", "refused"} =>
                /\ UNCHANGED <<cookie[g], fresh[g]>>
                /\ \/ op[g] = "renew" /\ UNCHANGED pc[g]
                   \/ pc'[g] = "refused" /\ fresh[g] = NoSession
          /\ pc'[g] \in {"replace", "drop_old"} =>
                /\ UNCHANGED cookie[g]
                /\ pc[g] \in {"replace", "drop_old"} \/ cookie[g] \notin ended
    BY <2>0, <2>7, <2>8
  <2> HIDE DEF Tokens
  <2> QED
    BY <2>1, <2>2, <2>3, <2>4, <2>5, EndFrame
<1>13. ASSUME NEW h \in Handlers, RenewRead(h)
      PROVE  EndInv'
  <2>0. /\ \E p \in {"replace", "refused"} : pc' = [pc EXCEPT ![h] = p]
        /\ UNCHANGED <<op, cookie, fresh, sessions, via, ended, racedSessions, lastSession>>
    BY <1>13 DEF RenewRead
  <2>1. pc[h] = "start" /\ fresh[h] = NoSession /\ sessions[cookie[h]] > 0
    BY <1>13 DEF RenewRead, Serves, Authenticated
  <2>2. cookie[h] \notin ended
    BY <2>1
  <2> HIDE DEF TypeOK
  <2>5. /\ sessions \in [Tokens -> Nat] /\ fresh \in [Handlers -> Tokens \cup {NoSession}]
        /\ via \in [Tokens -> {"none", "earlier", "password", "mfa", "renewal"}]
        /\ from \in [Tokens -> Nat] /\ pc \in [Handlers -> ControlPoints]
        /\ lastSession \in Tokens /\ lastSession \in Nat /\ Tokens \subseteq Nat
        /\ ended \subseteq Tokens
    BY SessionTypes
  <2> USE DEF TypeOK
  <2>3. \A g \in Handlers :
          /\ cookie[g] \in Tokens /\ cookie[g] <= lastSession
          /\ fresh[g] \in Tokens \cup {NoSession} /\ fresh[g] <= lastSession
    OBVIOUS
  <2> HIDE DEF EndInv, TypeOK, OpInv
  <2>4. \A g \in Handlers : g # h => pc'[g] = pc[g]
    BY <2>0, <2>5
  <2>6. pc'[h] \in {"replace", "refused"}
    BY <2>0, <2>5
  <2>7. \A g \in Handlers :
          /\ op'[g] = "renew" /\ pc'[g] \in {"ok", "refused"} =>
                /\ UNCHANGED <<cookie[g], fresh[g]>>
                /\ \/ op[g] = "renew" /\ UNCHANGED pc[g]
                   \/ pc'[g] = "refused" /\ fresh[g] = NoSession
          /\ pc'[g] \in {"replace", "drop_old"} =>
                /\ UNCHANGED cookie[g]
                /\ pc[g] \in {"replace", "drop_old"} \/ cookie[g] \notin ended
    BY <2>0, <2>1, <2>2, <2>4, <2>6
  <2> HIDE DEF Tokens
  <2> QED
    BY <2>0, <2>3, <2>5, <2>7, EndFrame
<1>14. ASSUME NEW h \in Handlers, RenewCreate(h)
      PROVE  EndInv'
  <2>0. /\ lastSession + 1 \in Tokens
        /\ sessions' = [sessions EXCEPT ![lastSession + 1] = now + TTL]
        /\ via' = [via EXCEPT ![lastSession + 1] = "renewal"]
        /\ from' = [from EXCEPT ![lastSession + 1] = cookie[h]]
        /\ fresh' = [fresh EXCEPT ![h] = lastSession + 1]
        /\ lastSession' = lastSession + 1
        /\ pc' = [pc EXCEPT ![h] = "drop_old"]
        /\ UNCHANGED <<op, cookie, ended, racedSessions>>
    BY <1>14 DEF RenewCreate, NewSession
  <2>6. pc[h] = "replace"
    BY <1>14 DEF RenewCreate
  <2> HIDE DEF TypeOK
  <2>5. /\ sessions \in [Tokens -> Nat] /\ fresh \in [Handlers -> Tokens \cup {NoSession}]
        /\ via \in [Tokens -> {"none", "earlier", "password", "mfa", "renewal"}]
        /\ from \in [Tokens -> Nat] /\ pc \in [Handlers -> ControlPoints]
        /\ lastSession \in Tokens /\ lastSession \in Nat /\ Tokens \subseteq Nat
        /\ ended \subseteq Tokens
    BY SessionTypes
  <2> USE DEF TypeOK
  <2>3. \A g \in Handlers :
          /\ cookie[g] \in Tokens /\ cookie[g] <= lastSession
          /\ fresh[g] \in Tokens \cup {NoSession} /\ fresh[g] <= lastSession
    OBVIOUS
  <2> HIDE DEF EndInv, TypeOK, OpInv
  <2>1. UNCHANGED <<ended, racedSessions>> /\ lastSession' \in Nat /\ lastSession <= lastSession'
    BY <2>0, <2>5
  <2>2. /\ \A t \in Tokens : t > lastSession' => sessions'[t] = sessions[t] /\ via'[t] = via[t]
        /\ \A t \in Tokens : t <= lastSession /\ sessions[t] = 0 => sessions'[t] = 0
    BY <2>0, <2>5
  <2>7. \A g \in Handlers : g # h => pc'[g] = pc[g] /\ fresh'[g] = fresh[g]
    BY <2>0, <2>5
  <2>8. pc'[h] \notin {"replace", "refused"} /\ (op[h] = "renew" => pc'[h] = "drop_old" /\ pc[h] = "replace")
          /\ (pc'[h] = "drop_old" => pc[h] = "replace")
    BY <2>0, <2>5, <2>6
  <2>4. \A g \in Handlers :
          /\ op'[g] = "renew" /\ pc'[g] \in {"ok", "refused"} =>
                /\ UNCHANGED <<cookie[g], fresh[g]>>
                /\ \/ op[g] = "renew" /\ UNCHANGED pc[g]
                   \/ pc'[g] = "refused" /\ fresh[g] = NoSession
          /\ pc'[g] \in {"replace", "drop_old"} =>
                /\ UNCHANGED cookie[g]
                /\ pc[g] \in {"replace", "drop_old"} \/ cookie[g] \notin ended
    BY <2>0, <2>7, <2>8
  <2> HIDE DEF Tokens
  <2> QED
    BY <2>1, <2>2, <2>3, <2>4, <2>5, EndFrame
<1>15. ASSUME NEW h \in Handlers, RenewDropOld(h)
      PROVE  EndInv'
  <2>0. /\ sessions' = [sessions EXCEPT ![cookie[h]] = 0] /\ pc' = [pc EXCEPT ![h] = "ok"]
        /\ UNCHANGED <<op, cookie, fresh, via, ended, racedSessions, lastSession>>
    BY <1>15 DEF RenewDropOld
  <2> HIDE DEF TypeOK
  <2>5. /\ sessions \in [Tokens -> Nat] /\ fresh \in [Handlers -> Tokens \cup {NoSession}]
        /\ via \in [Tokens -> {"none", "earlier", "password", "mfa", "renewal"}]
        /\ from \in [Tokens -> Nat] /\ pc \in [Handlers -> ControlPoints]
        /\ lastSession \in Tokens /\ lastSession \in Nat /\ Tokens \subseteq Nat
        /\ ended \subseteq Tokens
    BY SessionTypes
  <2> USE DEF TypeOK
  <2>3. \A g \in Handlers :
          /\ cookie[g] \in Tokens /\ cookie[g] <= lastSession
          /\ fresh[g] \in Tokens \cup {NoSession} /\ fresh[g] <= lastSession
    OBVIOUS
  <2> HIDE DEF TypeOK, OpInv
  <2>1. \A t \in Tokens : sessions[t] = 0 \/ t = cookie[h] => sessions'[t] = 0
    BY <2>0, <2>5
  <2>2. pc'[h] = "ok" /\ \A g \in Handlers : g # h => pc'[g] = pc[g]
    BY <2>0, <2>5
  <2> HIDE DEF Tokens
  <2>4. \A t \in Tokens : t > lastSession' => sessions'[t] = 0 /\ via'[t] = "none"
    BY <2>0, <2>1, <2>5
  <2>6. \A t \in ended' : t <= lastSession' /\ sessions'[t] = 0
    BY <2>0, <2>1, <2>5
  <2>7. \A g \in Handlers : op'[g] = "renew" =>
          /\ pc'[g] = "ok" => sessions'[cookie'[g]] = 0
          /\ pc'[g] = "refused" /\ fresh'[g] # NoSession => sessions'[fresh'[g]] = 0
    BY <2>0, <2>1, <2>2, <2>3
  <2>8. \A g \in Handlers :
          pc'[g] \in {"replace", "drop_old"} /\ cookie'[g] \in ended' =>
              cookie'[g] \in racedSessions'
    BY <2>0, <2>2
  <2> QED
    BY <2>4, <2>6, <2>7, <2>8
<1>16. ASSUME NEW h \in Handlers, RenewDropOldFails(h)
      PROVE  EndInv'
  BY <1>16 DEF RenewDropOldFails
<1>17. ASSUME NEW h \in Handlers, RenewDropNew(h)
      PROVE  EndInv'
  <2>0. /\ sessions' = [sessions EXCEPT ![fresh[h]] = 0] /\ pc' = [pc EXCEPT ![h] = "refused"]
        /\ UNCHANGED <<op, cookie, fresh, via, ended, racedSessions, lastSession>>
    BY <1>17 DEF RenewDropNew
  <2> HIDE DEF TypeOK
  <2>5. /\ sessions \in [Tokens -> Nat] /\ fresh \in [Handlers -> Tokens \cup {NoSession}]
        /\ via \in [Tokens -> {"none", "earlier", "password", "mfa", "renewal"}]
        /\ from \in [Tokens -> Nat] /\ pc \in [Handlers -> ControlPoints]
        /\ lastSession \in Tokens /\ lastSession \in Nat /\ Tokens \subseteq Nat
        /\ ended \subseteq Tokens
    BY SessionTypes
  <2> USE DEF TypeOK
  <2>3. \A g \in Handlers :
          /\ cookie[g] \in Tokens /\ cookie[g] <= lastSession
          /\ fresh[g] \in Tokens \cup {NoSession} /\ fresh[g] <= lastSession
    OBVIOUS
  <2> HIDE DEF TypeOK, OpInv
  <2>1. \A t \in Tokens : sessions[t] = 0 \/ t = fresh[h] => sessions'[t] = 0
    BY <2>0, <2>5
  <2>2. pc'[h] = "refused" /\ \A g \in Handlers : g # h => pc'[g] = pc[g]
    BY <2>0, <2>5
  <2> HIDE DEF Tokens
  <2>4. \A t \in Tokens : t > lastSession' => sessions'[t] = 0 /\ via'[t] = "none"
    BY <2>0, <2>1, <2>5
  <2>6. \A t \in ended' : t <= lastSession' /\ sessions'[t] = 0
    BY <2>0, <2>1, <2>5
  <2>7. \A g \in Handlers : op'[g] = "renew" =>
          /\ pc'[g] = "ok" => sessions'[cookie'[g]] = 0
          /\ pc'[g] = "refused" /\ fresh'[g] # NoSession => sessions'[fresh'[g]] = 0
    BY <2>0, <2>1, <2>2, <2>3
  <2>8. \A g \in Handlers :
          pc'[g] \in {"replace", "drop_old"} /\ cookie'[g] \in ended' =>
              cookie'[g] \in racedSessions'
    BY <2>0, <2>2
  <2> QED
    BY <2>4, <2>6, <2>7, <2>8
<1>18. ASSUME NEW h \in Handlers, Logout(h)
      PROVE  EndInv'
  <2>1. /\ sessions' = [sessions EXCEPT ![cookie[h]] = 0]
        /\ ended' = ended \cup {cookie[h]}
        /\ racedSessions' = racedSessions \cup
             {t \in {cookie[h]} : \E g \in Handlers :
                pc[g] \in {"replace", "drop_old"} /\ cookie[g] = t}
        /\ pc' = [pc EXCEPT ![h] = "ok"] /\ op[h] = "logout"
        /\ UNCHANGED <<op, cookie, fresh, via, lastSession>>
    BY <1>18 DEF Logout, Ends, Serves
  <2>2. \A t \in Tokens : sessions[t] = 0 => sessions'[t] = 0
    BY <2>1
  <2>3. sessions'[cookie[h]] = 0
    BY <2>1
  <2>4. \A g \in Handlers : pc'[g] \in {"replace", "drop_old"} =>
          pc[g] \in {"replace", "drop_old"}
    BY <2>1
  <2>5. \A g \in Handlers : op'[g] = "renew" => op[g] = "renew" /\ pc'[g] = pc[g]
    BY <2>1
  <2>6. \A g \in Handlers : cookie[g] \in Tokens /\ cookie[g] <= lastSession
          /\ fresh[g] \in Tokens \cup {0}
    OBVIOUS
  <2>7. ended \subseteq Tokens
    OBVIOUS
  <2>8. \A t \in Tokens : t > lastSession' => sessions'[t] = 0 /\ via'[t] = "none"
    BY <2>1, <2>2
  <2> HIDE DEF TypeOK, OpInv, Tokens
  <2>9. \A t \in ended' : t <= lastSession' /\ sessions'[t] = 0
    BY <2>1, <2>2, <2>3, <2>6, <2>7
  <2>10. \A g \in Handlers : op'[g] = "renew" =>
           /\ pc'[g] = "ok" => sessions'[cookie'[g]] = 0
           /\ pc'[g] = "refused" /\ fresh'[g] # NoSession => sessions'[fresh'[g]] = 0
    BY <2>1, <2>2, <2>5, <2>6
  <2>11. \A g \in Handlers :
           pc'[g] \in {"replace", "drop_old"} /\ cookie'[g] \in ended' =>
               cookie'[g] \in racedSessions'
    BY <2>1, <2>4
  <2> QED
    BY <2>8, <2>9, <2>10, <2>11
<1>19. ASSUME NEW h \in Handlers, BeginTOTPEnrollment(h)
      PROVE  EndInv'
  <2>1. op[h] # "renew"
    BY <1>19 DEF BeginTOTPEnrollment, Serves
  <2>2. \E p \in {"ok"} : Quiet(h, p)
    <3>1. /\ \E p \in {"ok"} : pc' = [pc EXCEPT ![h] = p]
          /\ UNCHANGED <<sessions, via, from, ended, op, cookie, fresh, lastSession, racedSessions>>
      BY <1>19 DEF BeginTOTPEnrollment, Serves
    <3> QED
      BY <2>1, <3>1 DEF Quiet
  <2> HIDE DEF EndInv, RenewInv
  <2> QED
    BY <2>2, QuietEnd
<1>20. ASSUME NEW h \in Handlers, ConfirmRead(h)
      PROVE  EndInv'
  <2>1. op[h] # "renew"
    BY <1>20 DEF ConfirmRead, Serves
  <2>2. \E p \in {"activate", "refused"} : Quiet(h, p)
    <3>1. /\ \E p \in {"activate", "refused"} : pc' = [pc EXCEPT ![h] = p]
          /\ UNCHANGED <<sessions, via, from, ended, op, cookie, fresh, lastSession, racedSessions>>
      BY <1>20 DEF ConfirmRead, Serves
    <3> QED
      BY <2>1, <3>1 DEF Quiet
  <2> HIDE DEF EndInv, RenewInv
  <2> QED
    BY <2>2, QuietEnd
<1>21. ASSUME NEW h \in Handlers, ConfirmActivate(h)
      PROVE  EndInv'
  <2>1. op[h] # "renew"
    BY <1>21 DEF ConfirmActivate
  <2>2. \E p \in {"refused", "delete_codes"} : Quiet(h, p)
    <3>1. /\ \E p \in {"refused", "delete_codes"} : pc' = [pc EXCEPT ![h] = p]
          /\ UNCHANGED <<sessions, via, from, ended, op, cookie, fresh, lastSession, racedSessions>>
      BY <1>21 DEF ConfirmActivate
    <3> QED
      BY <2>1, <3>1 DEF Quiet
  <2> HIDE DEF EndInv, RenewInv
  <2> QED
    BY <2>2, QuietEnd
<1>22. ASSUME NEW h \in Handlers, RotateStart(h)
      PROVE  EndInv'
  <2>1. op[h] # "renew"
    BY <1>22 DEF RotateStart, Serves
  <2>2. \E p \in {"delete_codes"} : Quiet(h, p)
    <3>1. /\ \E p \in {"delete_codes"} : pc' = [pc EXCEPT ![h] = p]
          /\ UNCHANGED <<sessions, via, from, ended, op, cookie, fresh, lastSession, racedSessions>>
      BY <1>22 DEF RotateStart, Serves
    <3> QED
      BY <2>1, <3>1 DEF Quiet
  <2> HIDE DEF EndInv, RenewInv
  <2> QED
    BY <2>2, QuietEnd
<1>23. ASSUME NEW h \in Handlers, Revoke(h)
      PROVE  EndInv'
  <2>1. op[h] # "renew"
    BY <1>23 DEF Revoke, Serves
  <2>2. \E p \in {"refused", "delete_codes"} : Quiet(h, p)
    <3>1. /\ \E p \in {"refused", "delete_codes"} : pc' = [pc EXCEPT ![h] = p]
          /\ UNCHANGED <<sessions, via, from, ended, op, cookie, fresh, lastSession, racedSessions>>
      BY <1>23 DEF Revoke, Serves
    <3> QED
      BY <2>1, <3>1 DEF Quiet
  <2> HIDE DEF EndInv, RenewInv
  <2> QED
    BY <2>2, QuietEnd
<1>24. ASSUME NEW h \in Handlers, DeleteRecoveryCodes(h)
      PROVE  EndInv'
  <2>1. op[h] # "renew"
    BY <1>24 DEF DeleteRecoveryCodes
  <2>2. \E p \in {"delete_sessions", "create_codes"} : Quiet(h, p)
    <3>1. /\ \E p \in {"delete_sessions", "create_codes"} : pc' = [pc EXCEPT ![h] = p]
          /\ UNCHANGED <<sessions, via, from, ended, op, cookie, fresh, lastSession, racedSessions>>
      BY <1>24 DEF DeleteRecoveryCodes
    <3> QED
      BY <2>1, <3>1 DEF Quiet
  <2> HIDE DEF EndInv, RenewInv
  <2> QED
    BY <2>2, QuietEnd
<1>25. ASSUME NEW h \in Handlers, CreateRecoveryCode(h)
      PROVE  EndInv'
  <2>1. op[h] # "renew"
    BY <1>25 DEF CreateRecoveryCode
  <2>2. \E p \in {"delete_sessions", "create_codes"} : Quiet(h, p)
    <3>1. /\ \E p \in {"delete_sessions", "create_codes"} : pc' = [pc EXCEPT ![h] = p]
          /\ UNCHANGED <<sessions, via, from, ended, op, cookie, fresh, lastSession, racedSessions>>
      BY <1>25 DEF CreateRecoveryCode
    <3> QED
      BY <2>1, <3>1 DEF Quiet
  <2> HIDE DEF EndInv, RenewInv
  <2> QED
    BY <2>2, QuietEnd
<1>26. ASSUME NEW h \in Handlers, DeleteUserSessions(h)
      PROVE  EndInv'
  BY <1>26 DEF DeleteUserSessions, Ends
<1>27. ASSUME NEW h \in Handlers, StatementFails(h)
      PROVE  EndInv'
  BY <1>27 DEF StatementFails
<1>28. CASE Tick
  BY <1>28 DEF Tick
<1>29. CASE UNCHANGED vars
  BY <1>29 DEF vars
<1> HIDE SessionsConstants DEF TypeOK, RowTypes, HandlerTypes, HistoryTypes,
        CounterTypes, Tokens, NoSession, Goto, rows, request, locals, clock,
        totp, made, raced, history, issued, OpInv, EndInv
<1> QED
  BY <1>1, <1>2, <1>3, <1>4, <1>5, <1>6, <1>7, <1>8, <1>9, <1>10, <1>11,
      <1>12, <1>13, <1>14, <1>15, <1>16, <1>17, <1>18, <1>19, <1>20, <1>21,
      <1>22, <1>23, <1>24, <1>25, <1>26, <1>27, <1>28, <1>29 DEF Next, Login,
      CompleteMFA, Renew, ManageMFA

\* A renewed session outlives the end of the old one only in a race or a failed
\* renewal.
LEMMA RenewStep ==
    TypeOK /\ OpInv /\ EndInv /\ RenewInv /\ [Next]_vars
        => RenewInv'
<1> SUFFICES ASSUME TypeOK, OpInv, EndInv, RenewInv, [Next]_vars PROVE
        RenewInv'
  OBVIOUS
<1> USE SessionsConstants DEF TypeOK, RowTypes, HandlerTypes, HistoryTypes,
        CounterTypes, Tokens, NoSession, Renewed, Past, Goto, rows, request,
        locals, clock, totp, made, raced, history, issued, OpInv, EndInv,
        RenewInv
<1>1. ASSUME NEW h \in Handlers, NEW o \in Ops, NEW k \in Cookies(o), NEW c
        \in ChallengesFor(o), NEW f \in CodesFor(o), Arrive(h, o, k, c, f)
      PROVE  RenewInv'
  <2>1. UNCHANGED ended /\ \A t \in racedSessions : t \in racedSessions'
    BY <1>1 DEF Arrive, Cookies, ChallengesFor, CodesFor
  <2>2. \A t \in Tokens : via'[t] = "renewal" =>
          /\ via[t] = "renewal" /\ from'[t] = from[t]
          /\ sessions'[t] > 0 => sessions[t] > 0
    BY <1>1 DEF Arrive, Cookies, ChallengesFor, CodesFor
  <2>3. \A g \in Handlers : op[g] = "renew" /\ pc[g] \in Past =>
          /\ UNCHANGED <<op[g], cookie[g], fresh[g]>>
          /\ \/ UNCHANGED pc[g]
             \/ pc'[g] \in {"drop_new", "failed"}
             \/ pc[g] = "drop_old" /\ pc'[g] = "ok"
             \/ pc'[g] = "refused" /\ (fresh[g] \in Tokens => sessions'[fresh[g]] = 0)
    <3>1. /\ op' = [op EXCEPT ![h] = o] /\ cookie' = [cookie EXCEPT ![h] = k]
          /\ pc' = [pc EXCEPT ![h] = "start"] /\ pc[h] = "idle" /\ UNCHANGED fresh
      BY <1>1 DEF Arrive
    <3> HIDE DEF TypeOK, OpInv, EndInv, RenewInv
    <3>2. \A g \in Handlers : g # h => UNCHANGED <<op[g], cookie[g], pc[g]>>
      BY <3>1
    <3> QED
      BY <3>1, <3>2
  <2> HIDE DEF TypeOK, OpInv, EndInv, RenewInv, Tokens, Past
  <2> QED
    BY <2>1, <2>2, <2>3, RenewFrame
<1>2. ASSUME NEW h \in Handlers, Unauthenticated(h)
      PROVE  RenewInv'
  <2>1. UNCHANGED ended /\ \A t \in racedSessions : t \in racedSessions'
    BY <1>2 DEF Unauthenticated
  <2>2. \A t \in Tokens : via'[t] = "renewal" =>
          /\ via[t] = "renewal" /\ from'[t] = from[t]
          /\ sessions'[t] > 0 => sessions[t] > 0
    BY <1>2 DEF Unauthenticated
  <2>3. \A g \in Handlers : op[g] = "renew" /\ pc[g] \in Past =>
          /\ UNCHANGED <<op[g], cookie[g], fresh[g]>>
          /\ \/ UNCHANGED pc[g]
             \/ pc'[g] \in {"drop_new", "failed"}
             \/ pc[g] = "drop_old" /\ pc'[g] = "ok"
             \/ pc'[g] = "refused" /\ (fresh[g] \in Tokens => sessions'[fresh[g]] = 0)
    BY <1>2 DEF Unauthenticated
  <2> HIDE DEF TypeOK, OpInv, EndInv, RenewInv, Tokens, Past
  <2> QED
    BY <2>1, <2>2, <2>3, RenewFrame
<1>3. ASSUME NEW h \in Handlers, LoginDirect(h)
      PROVE  RenewInv'
  <2>0. /\ lastSession + 1 \in Tokens
        /\ sessions' = [sessions EXCEPT ![lastSession + 1] = now + TTL]
        /\ via' = [via EXCEPT ![lastSession + 1] = "password"]
        /\ from' = [from EXCEPT ![lastSession + 1] = NoSession]
        /\ fresh' = [fresh EXCEPT ![h] = lastSession + 1]
        /\ lastSession' = lastSession + 1
        /\ pc' = [pc EXCEPT ![h] = "ok"]
        /\ UNCHANGED <<op, cookie, ended, racedSessions>>
    BY <1>3 DEF LoginDirect, NewSession
  <2>6. op[h] = "login"
    BY <1>3 DEF LoginDirect, Serves
  <2> HIDE DEF TypeOK
  <2>5. /\ sessions \in [Tokens -> Nat] /\ fresh \in [Handlers -> Tokens \cup {NoSession}]
        /\ via \in [Tokens -> {"none", "earlier", "password", "mfa", "renewal"}]
        /\ from \in [Tokens -> Nat] /\ pc \in [Handlers -> ControlPoints]
        /\ lastSession \in Tokens /\ lastSession \in Nat /\ Tokens \subseteq Nat
        /\ ended \subseteq Tokens
    BY SessionTypes
  <2> USE DEF TypeOK
  <2> HIDE DEF EndInv, TypeOK, OpInv, RenewInv
  <2>1. UNCHANGED <<ended, racedSessions>>
    BY <2>0
  <2>2. \A t \in Tokens : via'[t] = "renewal" =>
          /\ via[t] = "renewal" /\ from'[t] = from[t]
          /\ sessions'[t] > 0 => sessions[t] > 0
    BY <2>0, <2>5
  <2>3. \A g \in Handlers : op[g] = "renew" => UNCHANGED <<op[g], cookie[g], fresh[g], pc[g]>>
    BY <2>0, <2>5, <2>6
  <2> HIDE DEF Tokens, Past
  <2> QED
    BY <2>1, <2>2, <2>3, RenewFrame
<1>4. ASSUME NEW h \in Handlers, LoginNeedsFactor(h)
      PROVE  RenewInv'
  <2>1. UNCHANGED ended /\ \A t \in racedSessions : t \in racedSessions'
    BY <1>4 DEF LoginNeedsFactor, Serves
  <2>2. \A t \in Tokens : via'[t] = "renewal" =>
          /\ via[t] = "renewal" /\ from'[t] = from[t]
          /\ sessions'[t] > 0 => sessions[t] > 0
    BY <1>4 DEF LoginNeedsFactor, Serves
  <2>3. \A g \in Handlers : op[g] = "renew" /\ pc[g] \in Past =>
          /\ UNCHANGED <<op[g], cookie[g], fresh[g]>>
          /\ \/ UNCHANGED pc[g]
             \/ pc'[g] \in {"drop_new", "failed"}
             \/ pc[g] = "drop_old" /\ pc'[g] = "ok"
             \/ pc'[g] = "refused" /\ (fresh[g] \in Tokens => sessions'[fresh[g]] = 0)
    BY <1>4 DEF LoginNeedsFactor, Serves
  <2> HIDE DEF TypeOK, OpInv, EndInv, RenewInv, Tokens, Past
  <2> QED
    BY <2>1, <2>2, <2>3, RenewFrame
<1>5. ASSUME NEW h \in Handlers, CreateMFAChallenge(h)
      PROVE  RenewInv'
  <2>1. UNCHANGED ended /\ \A t \in racedSessions : t \in racedSessions'
    BY <1>5 DEF CreateMFAChallenge
  <2>2. \A t \in Tokens : via'[t] = "renewal" =>
          /\ via[t] = "renewal" /\ from'[t] = from[t]
          /\ sessions'[t] > 0 => sessions[t] > 0
    BY <1>5 DEF CreateMFAChallenge
  <2>3. \A g \in Handlers : op[g] = "renew" /\ pc[g] \in Past =>
          /\ UNCHANGED <<op[g], cookie[g], fresh[g]>>
          /\ \/ UNCHANGED pc[g]
             \/ pc'[g] \in {"drop_new", "failed"}
             \/ pc[g] = "drop_old" /\ pc'[g] = "ok"
             \/ pc'[g] = "refused" /\ (fresh[g] \in Tokens => sessions'[fresh[g]] = 0)
    BY <1>5 DEF CreateMFAChallenge
  <2> HIDE DEF TypeOK, OpInv, EndInv, RenewInv, Tokens, Past
  <2> QED
    BY <2>1, <2>2, <2>3, RenewFrame
<1>6. ASSUME NEW h \in Handlers, ClaimRead(h)
      PROVE  RenewInv'
  <2>1. UNCHANGED ended /\ \A t \in racedSessions : t \in racedSessions'
    BY <1>6 DEF ClaimRead, Serves
  <2>2. \A t \in Tokens : via'[t] = "renewal" =>
          /\ via[t] = "renewal" /\ from'[t] = from[t]
          /\ sessions'[t] > 0 => sessions[t] > 0
    BY <1>6 DEF ClaimRead, Serves
  <2>3. \A g \in Handlers : op[g] = "renew" /\ pc[g] \in Past =>
          /\ UNCHANGED <<op[g], cookie[g], fresh[g]>>
          /\ \/ UNCHANGED pc[g]
             \/ pc'[g] \in {"drop_new", "failed"}
             \/ pc[g] = "drop_old" /\ pc'[g] = "ok"
             \/ pc'[g] = "refused" /\ (fresh[g] \in Tokens => sessions'[fresh[g]] = 0)
    BY <1>6 DEF ClaimRead, Serves
  <2> HIDE DEF TypeOK, OpInv, EndInv, RenewInv, Tokens, Past
  <2> QED
    BY <2>1, <2>2, <2>3, RenewFrame
<1>7. ASSUME NEW h \in Handlers, ClaimDelete(h)
      PROVE  RenewInv'
  <2>1. UNCHANGED ended /\ \A t \in racedSessions : t \in racedSessions'
    BY <1>7 DEF ClaimDelete
  <2>2. \A t \in Tokens : via'[t] = "renewal" =>
          /\ via[t] = "renewal" /\ from'[t] = from[t]
          /\ sessions'[t] > 0 => sessions[t] > 0
    BY <1>7 DEF ClaimDelete
  <2>3. \A g \in Handlers : op[g] = "renew" /\ pc[g] \in Past =>
          /\ UNCHANGED <<op[g], cookie[g], fresh[g]>>
          /\ \/ UNCHANGED pc[g]
             \/ pc'[g] \in {"drop_new", "failed"}
             \/ pc[g] = "drop_old" /\ pc'[g] = "ok"
             \/ pc'[g] = "refused" /\ (fresh[g] \in Tokens => sessions'[fresh[g]] = 0)
    BY <1>7 DEF ClaimDelete
  <2> HIDE DEF TypeOK, OpInv, EndInv, RenewInv, Tokens, Past
  <2> QED
    BY <2>1, <2>2, <2>3, RenewFrame
<1>8. ASSUME NEW h \in Handlers, Unbound(h)
      PROVE  RenewInv'
  <2>1. UNCHANGED ended /\ \A t \in racedSessions : t \in racedSessions'
    BY <1>8 DEF Unbound
  <2>2. \A t \in Tokens : via'[t] = "renewal" =>
          /\ via[t] = "renewal" /\ from'[t] = from[t]
          /\ sessions'[t] > 0 => sessions[t] > 0
    BY <1>8 DEF Unbound
  <2>3. \A g \in Handlers : op[g] = "renew" /\ pc[g] \in Past =>
          /\ UNCHANGED <<op[g], cookie[g], fresh[g]>>
          /\ \/ UNCHANGED pc[g]
             \/ pc'[g] \in {"drop_new", "failed"}
             \/ pc[g] = "drop_old" /\ pc'[g] = "ok"
             \/ pc'[g] = "refused" /\ (fresh[g] \in Tokens => sessions'[fresh[g]] = 0)
    BY <1>8 DEF Unbound
  <2> HIDE DEF TypeOK, OpInv, EndInv, RenewInv, Tokens, Past
  <2> QED
    BY <2>1, <2>2, <2>3, RenewFrame
<1>9. ASSUME NEW h \in Handlers, VerifyTOTP(h)
      PROVE  RenewInv'
  <2>1. UNCHANGED ended /\ \A t \in racedSessions : t \in racedSessions'
    BY <1>9 DEF VerifyTOTP
  <2>2. \A t \in Tokens : via'[t] = "renewal" =>
          /\ via[t] = "renewal" /\ from'[t] = from[t]
          /\ sessions'[t] > 0 => sessions[t] > 0
    BY <1>9 DEF VerifyTOTP
  <2>3. \A g \in Handlers : op[g] = "renew" /\ pc[g] \in Past =>
          /\ UNCHANGED <<op[g], cookie[g], fresh[g]>>
          /\ \/ UNCHANGED pc[g]
             \/ pc'[g] \in {"drop_new", "failed"}
             \/ pc[g] = "drop_old" /\ pc'[g] = "ok"
             \/ pc'[g] = "refused" /\ (fresh[g] \in Tokens => sessions'[fresh[g]] = 0)
    BY <1>9 DEF VerifyTOTP
  <2> HIDE DEF TypeOK, OpInv, EndInv, RenewInv, Tokens, Past
  <2> QED
    BY <2>1, <2>2, <2>3, RenewFrame
<1>10. ASSUME NEW h \in Handlers, UnusedRecoveryCodes(h)
      PROVE  RenewInv'
  <2>1. UNCHANGED ended /\ \A t \in racedSessions : t \in racedSessions'
    BY <1>10 DEF UnusedRecoveryCodes
  <2>2. \A t \in Tokens : via'[t] = "renewal" =>
          /\ via[t] = "renewal" /\ from'[t] = from[t]
          /\ sessions'[t] > 0 => sessions[t] > 0
    BY <1>10 DEF UnusedRecoveryCodes
  <2>3. \A g \in Handlers : op[g] = "renew" /\ pc[g] \in Past =>
          /\ UNCHANGED <<op[g], cookie[g], fresh[g]>>
          /\ \/ UNCHANGED pc[g]
             \/ pc'[g] \in {"drop_new", "failed"}
             \/ pc[g] = "drop_old" /\ pc'[g] = "ok"
             \/ pc'[g] = "refused" /\ (fresh[g] \in Tokens => sessions'[fresh[g]] = 0)
    BY <1>10 DEF UnusedRecoveryCodes
  <2> HIDE DEF TypeOK, OpInv, EndInv, RenewInv, Tokens, Past
  <2> QED
    BY <2>1, <2>2, <2>3, RenewFrame
<1>11. ASSUME NEW h \in Handlers, MarkRecoveryCodeUsed(h)
      PROVE  RenewInv'
  <2>1. UNCHANGED ended /\ \A t \in racedSessions : t \in racedSessions'
    BY <1>11 DEF MarkRecoveryCodeUsed
  <2>2. \A t \in Tokens : via'[t] = "renewal" =>
          /\ via[t] = "renewal" /\ from'[t] = from[t]
          /\ sessions'[t] > 0 => sessions[t] > 0
    BY <1>11 DEF MarkRecoveryCodeUsed
  <2>3. \A g \in Handlers : op[g] = "renew" /\ pc[g] \in Past =>
          /\ UNCHANGED <<op[g], cookie[g], fresh[g]>>
          /\ \/ UNCHANGED pc[g]
             \/ pc'[g] \in {"drop_new", "failed"}
             \/ pc[g] = "drop_old" /\ pc'[g] = "ok"
             \/ pc'[g] = "refused" /\ (fresh[g] \in Tokens => sessions'[fresh[g]] = 0)
    BY <1>11 DEF MarkRecoveryCodeUsed
  <2> HIDE DEF TypeOK, OpInv, EndInv, RenewInv, Tokens, Past
  <2> QED
    BY <2>1, <2>2, <2>3, RenewFrame
<1>12. ASSUME NEW h \in Handlers, CreateSession(h)
      PROVE  RenewInv'
  <2>0. /\ lastSession + 1 \in Tokens
        /\ sessions' = [sessions EXCEPT ![lastSession + 1] = now + TTL]
        /\ via' = [via EXCEPT ![lastSession + 1] = "mfa"]
        /\ from' = [from EXCEPT ![lastSession + 1] = challenge[h]]
        /\ fresh' = [fresh EXCEPT ![h] = lastSession + 1]
        /\ lastSession' = lastSession + 1
        /\ pc' = [pc EXCEPT ![h] = "ok"]
        /\ UNCHANGED <<op, cookie, ended, racedSessions>>
    BY <1>12 DEF CreateSession, NewSession
  <2>6. op[h] = "verify"
    BY <1>12 DEF CreateSession
  <2> HIDE DEF TypeOK
  <2>5. /\ sessions \in [Tokens -> Nat] /\ fresh \in [Handlers -> Tokens \cup {NoSession}]
        /\ via \in [Tokens -> {"none", "earlier", "password", "mfa", "renewal"}]
        /\ from \in [Tokens -> Nat] /\ pc \in [Handlers -> ControlPoints]
        /\ lastSession \in Tokens /\ lastSession \in Nat /\ Tokens \subseteq Nat
        /\ ended \subseteq Tokens
    BY SessionTypes
  <2> USE DEF TypeOK
  <2> HIDE DEF EndInv, TypeOK, OpInv, RenewInv
  <2>1. UNCHANGED <<ended, racedSessions>>
    BY <2>0
  <2>2. \A t \in Tokens : via'[t] = "renewal" =>
          /\ via[t] = "renewal" /\ from'[t] = from[t]
          /\ sessions'[t] > 0 => sessions[t] > 0
    BY <2>0, <2>5
  <2>3. \A g \in Handlers : op[g] = "renew" => UNCHANGED <<op[g], cookie[g], fresh[g], pc[g]>>
    BY <2>0, <2>5, <2>6
  <2> HIDE DEF Tokens, Past
  <2> QED
    BY <2>1, <2>2, <2>3, RenewFrame
<1>13. ASSUME NEW h \in Handlers, RenewRead(h)
      PROVE  RenewInv'
  <2>1. UNCHANGED ended /\ \A t \in racedSessions : t \in racedSessions'
    BY <1>13 DEF RenewRead, Serves, Authenticated
  <2>2. \A t \in Tokens : via'[t] = "renewal" =>
          /\ via[t] = "renewal" /\ from'[t] = from[t]
          /\ sessions'[t] > 0 => sessions[t] > 0
    BY <1>13 DEF RenewRead, Serves, Authenticated
  <2>3. \A g \in Handlers : op[g] = "renew" /\ pc[g] \in Past =>
          /\ UNCHANGED <<op[g], cookie[g], fresh[g]>>
          /\ \/ UNCHANGED pc[g]
             \/ pc'[g] \in {"drop_new", "failed"}
             \/ pc[g] = "drop_old" /\ pc'[g] = "ok"
             \/ pc'[g] = "refused" /\ (fresh[g] \in Tokens => sessions'[fresh[g]] = 0)
    BY <1>13 DEF RenewRead, Serves, Authenticated
  <2> HIDE DEF TypeOK, OpInv, EndInv, RenewInv, Tokens, Past
  <2> QED
    BY <2>1, <2>2, <2>3, RenewFrame
<1>14. ASSUME NEW h \in Handlers, RenewCreate(h)
      PROVE  RenewInv'
  <2> DEFINE n == lastSession + 1
  <2>1. /\ n \in Tokens
        /\ via' = [via EXCEPT ![n] = "renewal"]
        /\ from' = [from EXCEPT ![n] = cookie[h]]
        /\ sessions' = [sessions EXCEPT ![n] = now + TTL]
        /\ fresh' = [fresh EXCEPT ![h] = n]
        /\ pc' = [pc EXCEPT ![h] = "drop_old"] /\ pc[h] = "replace"
        /\ UNCHANGED <<op, cookie, ended, racedSessions>>
    BY <1>14 DEF RenewCreate, NewSession
  <2>2. from'[n] = cookie[h] /\ fresh'[h] = n /\ pc'[h] = "drop_old" /\ op[h] = "renew"
    BY <2>1
  <2>3. \A t \in Tokens : t # n =>
          via'[t] = via[t] /\ from'[t] = from[t] /\ sessions'[t] = sessions[t]
    BY <2>1
  <2>4. \A g \in Handlers : g # h => fresh'[g] = fresh[g] /\ pc'[g] = pc[g]
    BY <2>1
  <2>5. cookie[h] \in ended => cookie[h] \in racedSessions
    BY <2>1
  <2> HIDE DEF TypeOK, OpInv, EndInv, Tokens, n, RenewInv
  <2>6. ASSUME NEW t \in Tokens, via'[t] = "renewal"
        PROVE  \E g \in Handlers :
                  /\ Renewed(g, t)'
                  /\ sessions'[t] > 0 /\ from'[t] \in ended' \ racedSessions' =>
                        pc'[g] \in {"drop_new", "failed"}
    <3>1. CASE t = n
      BY <3>1, <2>1, <2>2, <2>5
    <3>2. CASE t # n
      <4>1. via[t] = "renewal"
        BY <3>2, <2>3, <2>6
      <4>2. PICK g \in Handlers :
               /\ Renewed(g, t)
               /\ sessions[t] > 0 /\ from[t] \in ended \ racedSessions =>
                     pc[g] \in {"drop_new", "failed"}
        BY <4>1 DEF RenewInv
      <4>3. g # h
        BY <4>2, <2>1
      <4> QED
        BY <4>2, <4>3, <3>2, <2>1, <2>3, <2>4
    <3> QED
      BY <3>1, <3>2
  <2> QED
    BY <2>6 DEF RenewInv
<1>15. ASSUME NEW h \in Handlers, RenewDropOld(h)
      PROVE  RenewInv'
  <2>1. UNCHANGED ended /\ \A t \in racedSessions : t \in racedSessions'
    BY <1>15 DEF RenewDropOld
  <2>2. \A t \in Tokens : via'[t] = "renewal" =>
          /\ via[t] = "renewal" /\ from'[t] = from[t]
          /\ sessions'[t] > 0 => sessions[t] > 0
    BY <1>15 DEF RenewDropOld
  <2>3. \A g \in Handlers : op[g] = "renew" /\ pc[g] \in Past =>
          /\ UNCHANGED <<op[g], cookie[g], fresh[g]>>
          /\ \/ UNCHANGED pc[g]
             \/ pc'[g] \in {"drop_new", "failed"}
             \/ pc[g] = "drop_old" /\ pc'[g] = "ok"
             \/ pc'[g] = "refused" /\ (fresh[g] \in Tokens => sessions'[fresh[g]] = 0)
    BY <1>15 DEF RenewDropOld
  <2> HIDE DEF TypeOK, OpInv, EndInv, RenewInv, Tokens, Past
  <2> QED
    BY <2>1, <2>2, <2>3, RenewFrame
<1>16. ASSUME NEW h \in Handlers, RenewDropOldFails(h)
      PROVE  RenewInv'
  <2>1. UNCHANGED ended /\ \A t \in racedSessions : t \in racedSessions'
    BY <1>16 DEF RenewDropOldFails
  <2>2. \A t \in Tokens : via'[t] = "renewal" =>
          /\ via[t] = "renewal" /\ from'[t] = from[t]
          /\ sessions'[t] > 0 => sessions[t] > 0
    BY <1>16 DEF RenewDropOldFails
  <2>3. \A g \in Handlers : op[g] = "renew" /\ pc[g] \in Past =>
          /\ UNCHANGED <<op[g], cookie[g], fresh[g]>>
          /\ \/ UNCHANGED pc[g]
             \/ pc'[g] \in {"drop_new", "failed"}
             \/ pc[g] = "drop_old" /\ pc'[g] = "ok"
             \/ pc'[g] = "refused" /\ (fresh[g] \in Tokens => sessions'[fresh[g]] = 0)
    BY <1>16 DEF RenewDropOldFails
  <2> HIDE DEF TypeOK, OpInv, EndInv, RenewInv, Tokens, Past
  <2> QED
    BY <2>1, <2>2, <2>3, RenewFrame
<1>17. ASSUME NEW h \in Handlers, RenewDropNew(h)
      PROVE  RenewInv'
  <2>1. UNCHANGED ended /\ \A t \in racedSessions : t \in racedSessions'
    BY <1>17 DEF RenewDropNew
  <2>2. \A t \in Tokens : via'[t] = "renewal" =>
          /\ via[t] = "renewal" /\ from'[t] = from[t]
          /\ sessions'[t] > 0 => sessions[t] > 0
    BY <1>17 DEF RenewDropNew
  <2>3. \A g \in Handlers : op[g] = "renew" /\ pc[g] \in Past =>
          /\ UNCHANGED <<op[g], cookie[g], fresh[g]>>
          /\ \/ UNCHANGED pc[g]
             \/ pc'[g] \in {"drop_new", "failed"}
             \/ pc[g] = "drop_old" /\ pc'[g] = "ok"
             \/ pc'[g] = "refused" /\ (fresh[g] \in Tokens => sessions'[fresh[g]] = 0)
    <3>1. /\ sessions' = [sessions EXCEPT ![fresh[h]] = 0]
          /\ pc' = [pc EXCEPT ![h] = "refused"] /\ UNCHANGED <<op, cookie, fresh>>
      BY <1>17 DEF RenewDropNew
    <3>2. fresh[h] \in Tokens => sessions'[fresh[h]] = 0
      BY <3>1
    <3>3. pc'[h] = "refused" /\ \A g \in Handlers : g # h => UNCHANGED pc[g]
      BY <3>1
    <3> HIDE DEF TypeOK, OpInv, EndInv, RenewInv
    <3> QED
      BY <3>1, <3>2, <3>3
  <2> HIDE DEF TypeOK, OpInv, EndInv, RenewInv, Tokens, Past
  <2> QED
    BY <2>1, <2>2, <2>3, RenewFrame
<1>18. ASSUME NEW h \in Handlers, Logout(h)
      PROVE  RenewInv'
  <2>1. /\ sessions' = [sessions EXCEPT ![cookie[h]] = 0]
        /\ ended' = ended \cup {cookie[h]}
        /\ racedSessions' = racedSessions \cup
             {t \in {cookie[h]} : \E g \in Handlers :
                pc[g] \in {"replace", "drop_old"} /\ cookie[g] = t}
        /\ pc' = [pc EXCEPT ![h] = "ok"] /\ op[h] = "logout"
        /\ UNCHANGED <<op, cookie, fresh, via, from>>
        /\ sessions[cookie[h]] > 0
    BY <1>18 DEF Logout, Ends, Serves, Authenticated
  <2>2. \A t \in Tokens : sessions'[t] > 0 => sessions[t] > 0
    BY <2>1
  <2>3. \A g \in Handlers : g # h => pc'[g] = pc[g]
    BY <2>1
  <2>4. \A g \in Handlers : op[g] = "renew" =>
          /\ pc[g] = "ok" => sessions[cookie[g]] = 0
          /\ pc[g] = "refused" /\ fresh[g] # NoSession => sessions[fresh[g]] = 0
    <3> HIDE DEF TypeOK, OpInv, NoSession, RenewInv, Tokens
    <3> QED
      OBVIOUS
  <2>5. 0 \notin Tokens
    OBVIOUS
  <2> HIDE DEF TypeOK, OpInv, EndInv, Tokens, RenewInv
  <2>6. ASSUME NEW t \in Tokens, via'[t] = "renewal"
        PROVE  \E g \in Handlers :
                  /\ Renewed(g, t)'
                  /\ sessions'[t] > 0 /\ from'[t] \in ended' \ racedSessions' =>
                        pc'[g] \in {"drop_new", "failed"}
    <3>1. PICK g \in Handlers :
             /\ Renewed(g, t)
             /\ sessions[t] > 0 /\ from[t] \in ended \ racedSessions =>
                   pc[g] \in {"drop_new", "failed"}
      BY <2>1, <2>6 DEF RenewInv
    <3>2. g # h
      BY <3>1, <2>1
    <3>3. Renewed(g, t)'
      BY <3>1, <3>2, <2>1, <2>3
    <3>4. ASSUME sessions'[t] > 0, from'[t] \in ended' \ racedSessions'
          PROVE  pc'[g] \in {"drop_new", "failed"}
      <4>1. CASE from[t] = cookie[h]
        <5>1. pc[g] # "drop_old"
          BY <3>1, <3>4, <4>1, <2>1
        <5>2. pc[g] # "ok"
          BY <3>1, <4>1, <2>1, <2>4
        <5>3. pc[g] # "refused"
          BY <3>1, <3>4, <2>2, <2>4, <2>5
        <5> QED
          BY <3>1, <3>2, <2>3, <5>1, <5>2, <5>3
      <4>2. CASE from[t] # cookie[h]
        BY <3>1, <3>2, <3>4, <4>2, <2>1, <2>2, <2>3
      <4> QED
        BY <4>1, <4>2
    <3> QED
      BY <3>3, <3>4
  <2> QED
    BY <2>6 DEF RenewInv
<1>19. ASSUME NEW h \in Handlers, BeginTOTPEnrollment(h)
      PROVE  RenewInv'
  <2>1. UNCHANGED ended /\ \A t \in racedSessions : t \in racedSessions'
    BY <1>19 DEF BeginTOTPEnrollment, Serves
  <2>2. \A t \in Tokens : via'[t] = "renewal" =>
          /\ via[t] = "renewal" /\ from'[t] = from[t]
          /\ sessions'[t] > 0 => sessions[t] > 0
    BY <1>19 DEF BeginTOTPEnrollment, Serves
  <2>3. \A g \in Handlers : op[g] = "renew" /\ pc[g] \in Past =>
          /\ UNCHANGED <<op[g], cookie[g], fresh[g]>>
          /\ \/ UNCHANGED pc[g]
             \/ pc'[g] \in {"drop_new", "failed"}
             \/ pc[g] = "drop_old" /\ pc'[g] = "ok"
             \/ pc'[g] = "refused" /\ (fresh[g] \in Tokens => sessions'[fresh[g]] = 0)
    BY <1>19 DEF BeginTOTPEnrollment, Serves
  <2> HIDE DEF TypeOK, OpInv, EndInv, RenewInv, Tokens, Past
  <2> QED
    BY <2>1, <2>2, <2>3, RenewFrame
<1>20. ASSUME NEW h \in Handlers, ConfirmRead(h)
      PROVE  RenewInv'
  <2>1. UNCHANGED ended /\ \A t \in racedSessions : t \in racedSessions'
    BY <1>20 DEF ConfirmRead, Serves
  <2>2. \A t \in Tokens : via'[t] = "renewal" =>
          /\ via[t] = "renewal" /\ from'[t] = from[t]
          /\ sessions'[t] > 0 => sessions[t] > 0
    BY <1>20 DEF ConfirmRead, Serves
  <2>3. \A g \in Handlers : op[g] = "renew" /\ pc[g] \in Past =>
          /\ UNCHANGED <<op[g], cookie[g], fresh[g]>>
          /\ \/ UNCHANGED pc[g]
             \/ pc'[g] \in {"drop_new", "failed"}
             \/ pc[g] = "drop_old" /\ pc'[g] = "ok"
             \/ pc'[g] = "refused" /\ (fresh[g] \in Tokens => sessions'[fresh[g]] = 0)
    BY <1>20 DEF ConfirmRead, Serves
  <2> HIDE DEF TypeOK, OpInv, EndInv, RenewInv, Tokens, Past
  <2> QED
    BY <2>1, <2>2, <2>3, RenewFrame
<1>21. ASSUME NEW h \in Handlers, ConfirmActivate(h)
      PROVE  RenewInv'
  <2>1. op[h] # "renew"
    BY <1>21 DEF ConfirmActivate
  <2>2. \E p \in {"refused", "delete_codes"} : Quiet(h, p)
    <3>1. /\ \E p \in {"refused", "delete_codes"} : pc' = [pc EXCEPT ![h] = p]
          /\ UNCHANGED <<sessions, via, from, ended, op, cookie, fresh, lastSession, racedSessions>>
      BY <1>21 DEF ConfirmActivate
    <3> QED
      BY <2>1, <3>1 DEF Quiet
  <2> HIDE DEF EndInv, RenewInv
  <2> QED
    BY <2>2, QuietRenew
<1>22. ASSUME NEW h \in Handlers, RotateStart(h)
      PROVE  RenewInv'
  <2>1. UNCHANGED ended /\ \A t \in racedSessions : t \in racedSessions'
    BY <1>22 DEF RotateStart, Serves
  <2>2. \A t \in Tokens : via'[t] = "renewal" =>
          /\ via[t] = "renewal" /\ from'[t] = from[t]
          /\ sessions'[t] > 0 => sessions[t] > 0
    BY <1>22 DEF RotateStart, Serves
  <2>3. \A g \in Handlers : op[g] = "renew" /\ pc[g] \in Past =>
          /\ UNCHANGED <<op[g], cookie[g], fresh[g]>>
          /\ \/ UNCHANGED pc[g]
             \/ pc'[g] \in {"drop_new", "failed"}
             \/ pc[g] = "drop_old" /\ pc'[g] = "ok"
             \/ pc'[g] = "refused" /\ (fresh[g] \in Tokens => sessions'[fresh[g]] = 0)
    BY <1>22 DEF RotateStart, Serves
  <2> HIDE DEF TypeOK, OpInv, EndInv, RenewInv, Tokens, Past
  <2> QED
    BY <2>1, <2>2, <2>3, RenewFrame
<1>23. ASSUME NEW h \in Handlers, Revoke(h)
      PROVE  RenewInv'
  <2>1. op[h] # "renew"
    BY <1>23 DEF Revoke, Serves
  <2>2. \E p \in {"refused", "delete_codes"} : Quiet(h, p)
    <3>1. /\ \E p \in {"refused", "delete_codes"} : pc' = [pc EXCEPT ![h] = p]
          /\ UNCHANGED <<sessions, via, from, ended, op, cookie, fresh, lastSession, racedSessions>>
      BY <1>23 DEF Revoke, Serves
    <3> QED
      BY <2>1, <3>1 DEF Quiet
  <2> HIDE DEF EndInv, RenewInv
  <2> QED
    BY <2>2, QuietRenew
<1>24. ASSUME NEW h \in Handlers, DeleteRecoveryCodes(h)
      PROVE  RenewInv'
  <2>1. op[h] # "renew"
    BY <1>24 DEF DeleteRecoveryCodes
  <2>2. \E p \in {"delete_sessions", "create_codes"} : Quiet(h, p)
    <3>1. /\ \E p \in {"delete_sessions", "create_codes"} : pc' = [pc EXCEPT ![h] = p]
          /\ UNCHANGED <<sessions, via, from, ended, op, cookie, fresh, lastSession, racedSessions>>
      BY <1>24 DEF DeleteRecoveryCodes
    <3> QED
      BY <2>1, <3>1 DEF Quiet
  <2> HIDE DEF EndInv, RenewInv
  <2> QED
    BY <2>2, QuietRenew
<1>25. ASSUME NEW h \in Handlers, CreateRecoveryCode(h)
      PROVE  RenewInv'
  <2>1. UNCHANGED ended /\ \A t \in racedSessions : t \in racedSessions'
    BY <1>25 DEF CreateRecoveryCode
  <2>2. \A t \in Tokens : via'[t] = "renewal" =>
          /\ via[t] = "renewal" /\ from'[t] = from[t]
          /\ sessions'[t] > 0 => sessions[t] > 0
    BY <1>25 DEF CreateRecoveryCode
  <2>3. \A g \in Handlers : op[g] = "renew" /\ pc[g] \in Past =>
          /\ UNCHANGED <<op[g], cookie[g], fresh[g]>>
          /\ \/ UNCHANGED pc[g]
             \/ pc'[g] \in {"drop_new", "failed"}
             \/ pc[g] = "drop_old" /\ pc'[g] = "ok"
             \/ pc'[g] = "refused" /\ (fresh[g] \in Tokens => sessions'[fresh[g]] = 0)
    BY <1>25 DEF CreateRecoveryCode
  <2> HIDE DEF TypeOK, OpInv, EndInv, RenewInv, Tokens, Past
  <2> QED
    BY <2>1, <2>2, <2>3, RenewFrame
<1>26. ASSUME NEW h \in Handlers, DeleteUserSessions(h)
      PROVE  RenewInv'
  <2>1. /\ sessions' = [t \in Tokens |-> 0]
        /\ UNCHANGED <<op, cookie, fresh, via, from>>
        /\ pc' = [pc EXCEPT ![h] = "ok"] /\ op[h] # "renew"
    BY <1>26 DEF DeleteUserSessions
  <2>2. \A g \in Handlers : op[g] = "renew" => UNCHANGED pc[g]
    BY <2>1
  <2>3. \A t \in Tokens : sessions'[t] = 0
    BY <2>1
  <2> HIDE DEF TypeOK, OpInv, EndInv, RenewInv, Tokens
  <2>4. ASSUME NEW t \in Tokens, via'[t] = "renewal"
        PROVE  \E g \in Handlers :
                  /\ Renewed(g, t)'
                  /\ sessions'[t] > 0 /\ from'[t] \in ended' \ racedSessions' =>
                        pc'[g] \in {"drop_new", "failed"}
    <3>1. PICK g \in Handlers : Renewed(g, t)
      BY <2>1, <2>4 DEF RenewInv
    <3>2. Renewed(g, t)'
      BY <3>1, <2>1, <2>2
    <3> QED
      BY <3>2, <2>3
  <2> QED
    BY <2>4 DEF RenewInv
<1>27. ASSUME NEW h \in Handlers, StatementFails(h)
      PROVE  RenewInv'
  <2>1. UNCHANGED ended /\ \A t \in racedSessions : t \in racedSessions'
    BY <1>27 DEF StatementFails
  <2>2. \A t \in Tokens : via'[t] = "renewal" =>
          /\ via[t] = "renewal" /\ from'[t] = from[t]
          /\ sessions'[t] > 0 => sessions[t] > 0
    BY <1>27 DEF StatementFails
  <2>3. \A g \in Handlers : op[g] = "renew" /\ pc[g] \in Past =>
          /\ UNCHANGED <<op[g], cookie[g], fresh[g]>>
          /\ \/ UNCHANGED pc[g]
             \/ pc'[g] \in {"drop_new", "failed"}
             \/ pc[g] = "drop_old" /\ pc'[g] = "ok"
             \/ pc'[g] = "refused" /\ (fresh[g] \in Tokens => sessions'[fresh[g]] = 0)
    BY <1>27 DEF StatementFails
  <2> HIDE DEF TypeOK, OpInv, EndInv, RenewInv, Tokens, Past
  <2> QED
    BY <2>1, <2>2, <2>3, RenewFrame
<1>28. CASE Tick
  <2>1. UNCHANGED ended /\ \A t \in racedSessions : t \in racedSessions'
    BY <1>28 DEF Tick
  <2>2. \A t \in Tokens : via'[t] = "renewal" =>
          /\ via[t] = "renewal" /\ from'[t] = from[t]
          /\ sessions'[t] > 0 => sessions[t] > 0
    BY <1>28 DEF Tick
  <2>3. \A g \in Handlers : op[g] = "renew" /\ pc[g] \in Past =>
          /\ UNCHANGED <<op[g], cookie[g], fresh[g]>>
          /\ \/ UNCHANGED pc[g]
             \/ pc'[g] \in {"drop_new", "failed"}
             \/ pc[g] = "drop_old" /\ pc'[g] = "ok"
             \/ pc'[g] = "refused" /\ (fresh[g] \in Tokens => sessions'[fresh[g]] = 0)
    BY <1>28 DEF Tick
  <2> HIDE DEF TypeOK, OpInv, EndInv, RenewInv, Tokens, Past
  <2> QED
    BY <2>1, <2>2, <2>3, RenewFrame
<1>29. CASE UNCHANGED vars
  <2>1. UNCHANGED ended /\ \A t \in racedSessions : t \in racedSessions'
    BY <1>29 DEF vars
  <2>2. \A t \in Tokens : via'[t] = "renewal" =>
          /\ via[t] = "renewal" /\ from'[t] = from[t]
          /\ sessions'[t] > 0 => sessions[t] > 0
    BY <1>29 DEF vars
  <2>3. \A g \in Handlers : op[g] = "renew" /\ pc[g] \in Past =>
          /\ UNCHANGED <<op[g], cookie[g], fresh[g]>>
          /\ \/ UNCHANGED pc[g]
             \/ pc'[g] \in {"drop_new", "failed"}
             \/ pc[g] = "drop_old" /\ pc'[g] = "ok"
             \/ pc'[g] = "refused" /\ (fresh[g] \in Tokens => sessions'[fresh[g]] = 0)
    BY <1>29 DEF vars
  <2> HIDE DEF TypeOK, OpInv, EndInv, RenewInv, Tokens, Past
  <2> QED
    BY <2>1, <2>2, <2>3, RenewFrame
<1> HIDE SessionsConstants DEF TypeOK, RowTypes, HandlerTypes, HistoryTypes,
        CounterTypes, Tokens, NoSession, Renewed, Past, Goto, rows, request,
        locals, clock, totp, made, raced, history, issued, OpInv, EndInv,
        RenewInv
<1> QED
  BY <1>1, <1>2, <1>3, <1>4, <1>5, <1>6, <1>7, <1>8, <1>9, <1>10, <1>11,
      <1>12, <1>13, <1>14, <1>15, <1>16, <1>17, <1>18, <1>19, <1>20, <1>21,
      <1>22, <1>23, <1>24, <1>25, <1>26, <1>27, <1>28, <1>29 DEF Next, Login,
      CompleteMFA, Renew, ManageMFA

\* What becomes active was proven or raced.
LEMMA ProvenStep ==
    TypeOK /\ ProvenInv /\ [Next]_vars
        => ProvenInv'
<1> SUFFICES ASSUME TypeOK, ProvenInv, [Next]_vars PROVE ProvenInv'
  OBVIOUS
<1> USE DEF TypeOK, RowTypes, HandlerTypes, NoSecret, ActiveSecretProven,
        Goto, rows, request, locals, clock, totp, made, raced, history,
        issued, ProvenInv
<1>1. ASSUME NEW h \in Handlers, NEW o \in Ops, NEW t \in Cookies(o), NEW c
        \in ChallengesFor(o), NEW g \in CodesFor(o), Arrive(h, o, t, c, g)
      PROVE  ProvenInv'
  BY <1>1 DEF Arrive, Cookies, ChallengesFor, CodesFor
<1>2. ASSUME NEW h \in Handlers, Unauthenticated(h)
      PROVE  ProvenInv'
  BY <1>2 DEF Unauthenticated
<1>3. ASSUME NEW h \in Handlers, LoginDirect(h)
      PROVE  ProvenInv'
  BY <1>3 DEF LoginDirect, NewSession, Serves
<1>4. ASSUME NEW h \in Handlers, LoginNeedsFactor(h)
      PROVE  ProvenInv'
  BY <1>4 DEF LoginNeedsFactor, Serves
<1>5. ASSUME NEW h \in Handlers, CreateMFAChallenge(h)
      PROVE  ProvenInv'
  BY <1>5 DEF CreateMFAChallenge
<1>6. ASSUME NEW h \in Handlers, ClaimRead(h)
      PROVE  ProvenInv'
  BY <1>6 DEF ClaimRead, Serves
<1>7. ASSUME NEW h \in Handlers, ClaimDelete(h)
      PROVE  ProvenInv'
  BY <1>7 DEF ClaimDelete
<1>8. ASSUME NEW h \in Handlers, Unbound(h)
      PROVE  ProvenInv'
  BY <1>8 DEF Unbound
<1>9. ASSUME NEW h \in Handlers, VerifyTOTP(h)
      PROVE  ProvenInv'
  BY <1>9 DEF VerifyTOTP
<1>10. ASSUME NEW h \in Handlers, UnusedRecoveryCodes(h)
      PROVE  ProvenInv'
  BY <1>10 DEF UnusedRecoveryCodes
<1>11. ASSUME NEW h \in Handlers, MarkRecoveryCodeUsed(h)
      PROVE  ProvenInv'
  BY <1>11 DEF MarkRecoveryCodeUsed
<1>12. ASSUME NEW h \in Handlers, CreateSession(h)
      PROVE  ProvenInv'
  BY <1>12 DEF CreateSession, NewSession
<1>13. ASSUME NEW h \in Handlers, RenewRead(h)
      PROVE  ProvenInv'
  BY <1>13 DEF RenewRead, Serves, Authenticated
<1>14. ASSUME NEW h \in Handlers, RenewCreate(h)
      PROVE  ProvenInv'
  BY <1>14 DEF RenewCreate, NewSession
<1>15. ASSUME NEW h \in Handlers, RenewDropOld(h)
      PROVE  ProvenInv'
  BY <1>15 DEF RenewDropOld
<1>16. ASSUME NEW h \in Handlers, RenewDropOldFails(h)
      PROVE  ProvenInv'
  BY <1>16 DEF RenewDropOldFails
<1>17. ASSUME NEW h \in Handlers, RenewDropNew(h)
      PROVE  ProvenInv'
  BY <1>17 DEF RenewDropNew
<1>18. ASSUME NEW h \in Handlers, Logout(h)
      PROVE  ProvenInv'
  BY <1>18 DEF Logout, Serves, Authenticated, Ends
<1>19. ASSUME NEW h \in Handlers, BeginTOTPEnrollment(h)
      PROVE  ProvenInv'
  BY <1>19 DEF BeginTOTPEnrollment, Serves
<1>20. ASSUME NEW h \in Handlers, ConfirmRead(h)
      PROVE  ProvenInv'
  BY <1>20 DEF ConfirmRead, Serves
<1>21. ASSUME NEW h \in Handlers, ConfirmActivate(h)
      PROVE  ProvenInv'
  BY <1>21 DEF ConfirmActivate
<1>22. ASSUME NEW h \in Handlers, RotateStart(h)
      PROVE  ProvenInv'
  BY <1>22 DEF RotateStart, Serves
<1>23. ASSUME NEW h \in Handlers, Revoke(h)
      PROVE  ProvenInv'
  BY <1>23 DEF Revoke, Serves
<1>24. ASSUME NEW h \in Handlers, DeleteRecoveryCodes(h)
      PROVE  ProvenInv'
  BY <1>24 DEF DeleteRecoveryCodes
<1>25. ASSUME NEW h \in Handlers, CreateRecoveryCode(h)
      PROVE  ProvenInv'
  BY <1>25 DEF CreateRecoveryCode
<1>26. ASSUME NEW h \in Handlers, DeleteUserSessions(h)
      PROVE  ProvenInv'
  BY <1>26 DEF DeleteUserSessions, Ends
<1>27. ASSUME NEW h \in Handlers, StatementFails(h)
      PROVE  ProvenInv'
  BY <1>27 DEF StatementFails
<1>28. CASE Tick
  BY <1>28 DEF Tick
<1>29. CASE UNCHANGED vars
  BY <1>29 DEF vars
<1> HIDE DEF TypeOK, RowTypes, HandlerTypes, NoSecret, ActiveSecretProven,
        Goto, rows, request, locals, clock, totp, made, raced, history,
        issued, ProvenInv
<1> QED
  BY <1>1, <1>2, <1>3, <1>4, <1>5, <1>6, <1>7, <1>8, <1>9, <1>10, <1>11,
      <1>12, <1>13, <1>14, <1>15, <1>16, <1>17, <1>18, <1>19, <1>20, <1>21,
      <1>22, <1>23, <1>24, <1>25, <1>26, <1>27, <1>28, <1>29 DEF Next, Login,
      CompleteMFA, Renew, ManageMFA

\* The inductive invariant.
IInv ==
    /\ TypeOK /\ OpInv /\ ClaimInv /\ CodeInv /\ UseInv
    /\ SecretInv /\ StaleInv /\ EndInv /\ RenewInv /\ ProvenInv

LEMMA Invariance == Spec => []IInv
<1>1. Init => IInv
  <2> SUFFICES ASSUME Init PROVE IInv
    OBVIOUS
  <2> USE SessionsConstants, FactorFacts
  <2>1. RowTypes
    BY DEF Init, RowTypes, Tokens, Challenges, Secrets, NoSecret
  <2>2. HandlerTypes
    BY DEF Init, HandlerTypes, Ops, ControlPoints, Tokens, First, Batches, NoSession, NoChallenge
  <2>3. HistoryTypes
    BY DEF Init, HistoryTypes, Tokens, NoSession, Secrets, NoSecret
  <2>4. CounterTypes
    BY DEF Init, CounterTypes, Tokens, First, Batches, NoSecret
  <2>5. OpInv
    <3>1. \A h \in Handlers :
            pc[h] = "idle" /\ op[h] = "login" /\ fresh[h] = 0
      BY DEF Init, First, NoSession
    <3>2. \A h \in Handlers : cookie[h] <= lastSession /\ fresh[h] <= lastSession
      <4>1. \A h \in Handlers : cookie[h] = lastSession /\ fresh[h] = 0
        BY DEF Init, NoSession
      <4>2. lastSession \in Nat
        BY DEF Init, First
      <4>3. lastSession <= lastSession /\ 0 <= lastSession
        BY <4>2
      <4> QED
        BY <4>1, <4>3, Zenon
    <3> QED
      BY <3>1, <3>2, Zenon DEF OpInv, NoSession
  <2>6. ClaimInv
    <3>1. /\ \A h \in Handlers : pc[h] = "idle"
          /\ \A t \in Tokens : via[t] # "mfa"
      BY DEF Init
    <3> QED
      BY <3>1 DEF ClaimInv, Claimed
  <2>7. CodeInv
    <3>1. /\ \A h \in Handlers : pc[h] = "idle"
          /\ retired = {} /\ lastBatch = 1
      BY DEF Init
    <3>2. \A b \in Batches, n \in Places : codes[Recovery(b, n)] # "none" => b = 1
      BY DEF Init
    <3> QED
      BY <3>1, <3>2 DEF CodeInv, Born
  <2>8. UseInv
    BY NoneAssumption DEF Init, UseInv
  <2>9. SecretInv
    BY DEF Init, SecretInv, NoSecret
  <2>10. StaleInv
    BY DEF Init, StaleInv
  <2>11. EndInv
    BY DEF Init, EndInv, Tokens, First
  <2>12. RenewInv
    BY DEF Init, RenewInv
  <2>13. ProvenInv
    BY DEF Init, ProvenInv, ActiveSecretProven
  <2> QED
    BY <2>1, <2>2, <2>3, <2>4, <2>5, <2>6, <2>7, <2>8, <2>9, <2>10, <2>11,
       <2>12, <2>13 DEF IInv, TypeOK
<1>2. IInv /\ [Next]_vars => IInv'
  BY TypeStep, OpStep, ClaimStep, CodeStep, UseStep, SecretStep, StaleStep,
     EndStep, RenewStep, ProvenStep DEF IInv
<1> QED
  BY <1>1, <1>2, PTL DEF Spec

\* The rows of sessions, challenges, secrets and recovery codes and the state of
\* the handlers keep their types.
THEOREM SessionsTypeCorrect == Spec => []TypeOK
<1>1. IInv => TypeOK
  BY DEF IInv
<1> QED
  BY <1>1, Invariance, PTL

\* No two sessions come from one challenge or from one recovery code, however
\* many handlers race for them (ClaimMFAChallenge, MarkRecoveryCodeUsed).
THEOREM SingleUseTheorem == Spec => []SingleUse
<1>1. IInv => SingleUse
  <2> SUFFICES ASSUME ClaimInv, UseInv PROVE SingleUse
    BY DEF IInv
  <2>1. \A s, t \in Tokens :
          s # t /\ via[s] = "mfa" /\ via[t] = "mfa" => from[s] # from[t]
    BY DEF ClaimInv
  <2>2. \A s, t \in Tokens : s # t /\ by[s] \in Codes => by[s] # by[t]
    BY DEF UseInv
  <2> QED
    BY <2>1, <2>2 DEF SingleUse
<1> QED
  BY <1>1, Invariance, PTL

\* A code that was used, rotated away or revoked when the request arrived opens
\* no session (verifyMFA).
THEOREM RetiredFactorTheorem == Spec => []RetiredFactorIsWorthless
<1>1. IInv => RetiredFactorIsWorthless
  BY DEF IInv, StaleInv, RetiredFactorIsWorthless
<1> QED
  BY <1>1, Invariance, PTL

\* RotateSession leaves one of the two sessions, and a session that was ended
\* lives on in a renewal of it only when the two overlap or the renewal fails.
THEOREM RenewalTheorem == Spec => []RenewalReplaces
<1>1. IInv => RenewalReplaces
  <2> SUFFICES ASSUME EndInv, RenewInv PROVE RenewalReplaces
    BY DEF IInv
  <2>1. \A h \in Handlers : op[h] = "renew" =>
          /\ pc[h] = "ok" => sessions[cookie[h]] = 0
          /\ pc[h] = "refused" /\ fresh[h] # NoSession => sessions[fresh[h]] = 0
    BY DEF EndInv
  <2>2. \A t \in Tokens :
          sessions[t] > 0 /\ via[t] = "renewal" /\ from[t] \in ended \ racedSessions =>
              \E h \in Handlers : fresh[h] = t /\ pc[h] \in {"drop_new", "failed"}
    BY DEF RenewInv, Renewed
  <2> QED
    BY <2>1, <2>2 DEF RenewalReplaces
<1> QED
  BY <1>1, Invariance, PTL

\* What ConfirmPendingTOTP makes active was proven by a code, or begun between
\* the two statements of a confirmation.
THEOREM ActiveSecretTheorem == Spec => []ActiveSecretProven
<1>1. IInv => ActiveSecretProven
  BY DEF IInv, ProvenInv
<1> QED
  BY <1>1, Invariance, PTL
=============================================================================
