------------------------------ MODULE Requests ------------------------------
(***************************************************************************)
(* A request on its way through the middleware of the API (Router in       *)
(* httpapi/server.go, middleware/context.go), the generated router and the *)
(* wrapper of its operation, authorization, the idempotency key and the    *)
(* handler, while the session behind its cookie may end at any moment, the *)
(* goroutine may hang and the timeout, where one is configured, may answer *)
(* for a handler that runs on.  One request is followed at a time; the     *)
(* others matter only for the session.                                     *)
(*                                                                         *)
(* How sessions are made is in Sessions, what becomes of an idempotency    *)
(* key in Idempotency.                                                     *)
(***************************************************************************)
EXTENDS Routes

CONSTANTS
    Duties,    \* the operations each role is meant to be able to run
    Asked      \* the operations that are asked for

ASSUME RequestsConstants == DOMAIN Duties = Roles /\ Asked \subseteq Operations

\* The grants of a role are its duties, no more and no less.
DutiesFit ==
    \A r \in Roles, op \in DOMAIN Permission :
        Allowed(r, Permission[op]) <=> op \in Duties[r]

Methods == {"GET", "HEAD", "POST", "OPTIONS"}

\* At most one thing is wrong with a request: no cookie, another token,
\* bad parameters, a key that is not one, a body over the limit.
Faults(op) ==
    {"none", "cookie"}
        \cup (IF Parameters[op] = {} THEN {} ELSE {"missing", "repeated", "malformed"})
        \cup (IF op \in Keyed THEN {"key"} ELSE {})
        \cup (IF op \in Posted THEN {"token", "body"} ELSE {})

NoRequest == [op |-> "none", method |-> "none", fault |-> "none", fresh |-> FALSE,
              at |-> "none", answer |-> "none", reserved |-> FALSE, effect |-> FALSE,
              audited |-> FALSE]

VARIABLES
    mode,       \* SAMBA_ADMIN_AUTH_MODE
    timed,      \* SAMBA_ADMIN_REQUEST_TIMEOUT is above 0
    role,       \* of the user; the bypass has a system administrator
    live,       \* the session can be found and has not expired
    request

configuration == <<mode, timed, role>>
vars == <<configuration, live, request>>

Stages == {"arrived", "timed", "authenticated", "routed", "reserved", "handled", "streaming",
           "hung", "done"}
Answers == {"none", "204", "401", "csrf_failed", "404", "invalid_request_parameter",
            "permission_denied", "invalid", "replayed", "refused", "2xx", "500", "timeout"}

\* The operations whose failures are recorded too.
FailureAudited == {"Login", "VerifyMfaLogin"}

TypeOK ==
    /\ mode \in {"local", "development-bypass"} /\ role \in Roles
    /\ timed \in BOOLEAN /\ live \in BOOLEAN
    /\ request.op \in Operations \cup {"none"}
    /\ request.at \in Stages \cup {"none"} /\ request.answer \in Answers
    /\ request.at \in {"done", "streaming"} => request.answer # "none"
    /\ request.audited => request.effect \/ request.op \in FailureAudited

Init ==
    /\ \/ mode = "local" /\ role \in Roles
       \/ mode = "development-bypass" /\ role = "system"
    /\ timed \in BOOLEAN
    /\ live = TRUE /\ request = NoRequest

Goes(stage) ==
    /\ request' = [request EXCEPT !.at = stage]
    /\ UNCHANGED <<configuration, live>>

\* A handler whose answer the timeout has already given writes in vain.
Replies(answer) ==
    /\ request' = [request EXCEPT !.at = "done",
                      !.answer = IF request.answer = "none" THEN answer ELSE request.answer]
    /\ UNCHANGED <<configuration, live>>

Public == request.op \in {"Health", "Readiness", "Login", "VerifyMfaLogin"}

-----------------------------------------------------------------------------
(***************************************************************************)
(* The outer handlers.                                                     *)
(***************************************************************************)
Arrive(op, method, fault) ==
    /\ request.at = "none"
    /\ request' = [NoRequest EXCEPT !.op = op, !.method = method, !.fault = fault,
                                    !.fresh = live, !.at = "arrived"]
    /\ UNCHANGED <<configuration, live>>

\* A preflight is answered here, whatever the origin.
CORS ==
    /\ request.at = "arrived"
    /\ IF request.method = "OPTIONS" THEN Replies("204") ELSE Goes("timed")

Running == request.at \in {"timed", "authenticated", "routed", "reserved", "handled", "hung"}

\* (mutation: the exclusion is by prefix, and every path of the API has it)
TimeoutExceptAPI ==
    /\ Running /\ request.answer = "none"
    /\ timed /\ request.op \in {"Health", "Readiness"}
    /\ request' = [request EXCEPT !.answer = "timeout"]
    /\ UNCHANGED <<configuration, live>>

\* A duration of 0 or less installs no timer, and a stream has none.
TimerCovers == timed /\ request.op # "StreamEvents"

\* http.TimeoutHandler answers 503 and leaves the handler running.
TimeoutExcept ==
    /\ Running /\ request.answer = "none"
    /\ TimerCovers
    /\ request' = [request EXCEPT !.answer = "timeout"]
    /\ UNCHANGED <<configuration, live>>

\* The database, a lock or the agent keeps the goroutine for good.
Hang ==
    /\ Running /\ request.at # "hung"
    /\ Goes("hung")

\* (mutation: SessionUser looks for the session and not at its end)
AuthenticateAny ==
    /\ request.at = "timed"
    /\ \/ /\ Public \/ mode = "development-bypass" \/ request.fault # "cookie"
          /\ Goes("authenticated")
       \/ ~Public /\ mode = "local" /\ Replies("401")

\* The session and the roles of its user are read once, here; a query that
\* fails counts as a session that is not there.
Authenticate ==
    /\ request.at = "timed"
    /\ \/ /\ Public \/ mode = "development-bypass" \/ (request.fault # "cookie" /\ live)
          /\ Goes("authenticated")
       \/ ~Public /\ mode = "local" /\ Replies("401")

RequireCSRF ==
    \/ request.method \in {"GET", "HEAD"} \/ request.op \in {"Login", "VerifyMfaLogin"}
    \/ mode = "development-bypass"
    \/ request.fault # "token"

\* The first refusal of CSRF, router, wrapper and Authorize decides; none
\* of them looks at anything but the request and its context.
Route ==
    /\ request.at = "authenticated"
    /\ CASE ~RequireCSRF                          -> Replies("csrf_failed")
         [] ~Served(request.op, request.method)   -> Replies("404")
         [] BindError(request.op, request.fault)  -> Replies("invalid_request_parameter")
         [] ~Authorized(role, request.op)     -> Replies("permission_denied")
         [] OTHER                                 -> Goes("routed")

-----------------------------------------------------------------------------
(***************************************************************************)
(* Behind the router.                                                      *)
(***************************************************************************)
\* The key is looked at, then the body is read and limited, then the key is
\* reserved, or found and answered from the store.
withIdempotency ==
    /\ request.at = "routed" /\ request.op \in Keyed
    /\ \/ request.fault \in {"key", "body"} /\ Replies("invalid")
       \/ request.fault \notin {"key", "body"} /\ Replies("replayed")
       \/ /\ request.fault \notin {"key", "body"}
          /\ request' = [request EXCEPT !.at = "reserved", !.reserved = TRUE]
          /\ UNCHANGED <<configuration, live>>

\* The handlers without a key that decode a body.
Decodes == {"Login", "VerifyMfaLogin", "ConfirmTotpEnrollment", "CalculateEffectiveAcl",
            "SimulateAclConversion", "ValidateConfiguration", "PreviewShare"}

\* The handlers that change something.
Effects == Keyed \cup {"Login", "VerifyMfaLogin", "Logout", "RenewSession",
                       "BeginTotpEnrollment", "ConfirmTotpEnrollment", "RotateRecoveryCodes",
                       "RevokeTotp"}

\* The handlers that end the session they are called with.
EndsSession == {"Logout", "RenewSession", "ConfirmTotpEnrollment", "RotateRecoveryCodes",
                "RevokeTotp"}

AtHandler ==
    \/ request.at = "reserved"
    \/ request.at = "routed" /\ request.op \notin Keyed /\ request.op # "StreamEvents"

\* A body over the limit is refused by decode; a handler may refuse for its
\* own reasons.  A login or a code that fails is recorded, where the error of
\* Record is dropped.
HandlerRefuses ==
    /\ AtHandler
    /\ \E recorded \in IF request.op \in FailureAudited /\ request.fault # "body"
                       THEN BOOLEAN ELSE {FALSE} :
          request' = [request EXCEPT !.at = "done", !.audited = recorded,
                         !.answer = IF request.answer = "none" THEN "refused" ELSE request.answer]
    /\ UNCHANGED <<configuration, live>>

HandlerPanics ==
    /\ AtHandler
    /\ Replies("500")

HandlerSucceeds ==
    /\ AtHandler
    /\ ~(request.op \in Decodes /\ request.fault = "body")
    /\ request' = [request EXCEPT !.at = "handled", !.effect = request.op \in Effects]
    /\ live' = (live /\ (request.op \in EndsSession => mode = "development-bypass"))
    /\ UNCHANGED configuration

\* The handlers that write a record, after their effect.
Audited == {"Login", "VerifyMfaLogin", "Logout", "RenewSession", "BeginTotpEnrollment",
            "ConfirmTotpEnrollment", "RotateRecoveryCodes", "RevokeTotp",
            "CreateChangeRequest", "ExecuteApprovedChangeRequest",
            "ApproveChangeRequest", "RejectChangeRequest"}

\* An error of Record is dropped.
Finish ==
    /\ request.at = "handled"
    /\ \E recorded \in IF request.op \in Audited THEN BOOLEAN ELSE {FALSE} :
          request' = [request EXCEPT !.at = "done", !.audited = recorded,
                         !.answer = IF request.answer = "none" THEN "2xx" ELSE request.answer]
    /\ UNCHANGED <<configuration, live>>

\* events: headers first, then records and keepalives until the client goes.
OpenStream ==
    /\ request.at = "routed" /\ request.op = "StreamEvents"
    /\ request' = [request EXCEPT !.at = "streaming", !.answer = "2xx"]
    /\ UNCHANGED <<configuration, live>>

Disconnect ==
    /\ request.at = "streaming"
    /\ Goes("done")

\* Another request, or the clock, ends the session.
EndSession ==
    /\ live /\ live' = FALSE
    /\ UNCHANGED <<configuration, request>>

NextRequest ==
    /\ request.at = "done"
    /\ request' = NoRequest
    /\ UNCHANGED <<configuration, live>>

\* The steps of the goroutine that serves the request.
Serve ==
    \/ CORS \/ Authenticate \/ Route
    \/ withIdempotency \/ HandlerRefuses \/ HandlerPanics \/ HandlerSucceeds \/ Finish
    \/ OpenStream

Next ==
    \/ \E op \in Asked, method \in Methods : \E fault \in Faults(op) : Arrive(op, method, fault)
    \/ Serve \/ Hang \/ TimeoutExcept \/ Disconnect \/ EndSession \/ NextRequest

Spec == Init /\ [][Next]_vars

\* The goroutine goes on unless it hangs, and the timer, if there is one,
\* fires.
FairSpec == Spec /\ WF_vars(Serve) /\ WF_vars(TimeoutExcept)

-----------------------------------------------------------------------------
(***************************************************************************)
(* Properties.                                                             *)
(***************************************************************************)
\* Whatever happens between cookie and handler, an operation takes effect
\* for nobody but a user who came with a session that was live, with its
\* token and, where the contract protects the operation, with a role whose
\* duty it is; a login needs none of these.  And no role is refused what is its
\* duty: the names of actions and resources in openapi_handler.go and in
\* rbac.go fit together.
EffectIsEntitled ==
    /\ request.effect /\ mode = "local" /\ request.op \notin {"Login", "VerifyMfaLogin"} =>
          /\ request.fresh /\ request.fault \notin {"cookie", "token"}
          /\ request.op \in DOMAIN Permission => request.op \in Duties[role]
    /\ request.answer = "permission_denied" => request.op \notin Duties[role]

\* Every request gets an answer, at whatever point its goroutine hangs, unless
\* it hangs where it has no timer: no combination of method, fault, key and
\* role is left between two handlers, and with a timer a handler that hangs
\* keeps no client waiting.
RequestsAnswered ==
    request.at = "arrived" ~> \/ request.answer # "none"
                              \/ request.at = "hung" /\ ~TimerCovers
=============================================================================
