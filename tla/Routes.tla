------------------------------- MODULE Routes -------------------------------
(***************************************************************************)
(* The operations of the contract: the method under which the generated    *)
(* router (api/generated/server.gen.go) serves each of them, the           *)
(* parameters its wrapper binds, the permission and the idempotency key    *)
(* that openapi_handler.go asks for, and the grants of rbac.go.            *)
(***************************************************************************)
EXTENDS Naturals, TLC

-----------------------------------------------------------------------------
(***************************************************************************)
(* Grants.  A permission is an action on a resource; "*" stands for every  *)
(* resource, or for every permission.                                      *)
(***************************************************************************)
Everything == <<"*", "*">>
Read == <<"read", "*">>

\* auditor, operador de arquivos, operador de impressao, administrador
\* Samba, administrador do sistema, administrador de seguranca; a name that
\* the engine does not know has no grants.
New ==
    [auditor  |-> {Read},
     files    |-> {Read, <<"write", "share">>, <<"write", "acl">>, <<"write", "file">>,
                   <<"operate", "job">>, <<"write", "change">>},
     printing |-> {Read, <<"write", "printer">>, <<"operate", "job">>},
     samba    |-> {Read, <<"write", "share">>, <<"write", "acl">>, <<"write", "domain">>,
                   <<"operate", "samba">>, <<"operate", "job">>, <<"write", "change">>,
                   <<"operate", "change">>},
     system   |-> {Everything},
     security |-> {Read, <<"write", "audit">>, <<"write", "logging">>, <<"write", "rbac">>,
                   <<"read", "change">>, <<"approve", "change">>},
     unknown  |-> {}]

Roles == DOMAIN New

Allowed(role, want) ==
    \E p \in New[role] : p[1] \in {"*", want[1]} /\ p[2] \in {"*", want[2]}

-----------------------------------------------------------------------------
(***************************************************************************)
(* The wrappers, in the order of the contract: what each one binds before  *)
(* it calls the handler.                                                   *)
(***************************************************************************)
Parameter(place, kind, required) == [place |-> place, kind |-> kind, required |-> required]
Id == Parameter("path", "string", TRUE)
IdempotencyKey == Parameter("header", "string", TRUE)
OptionalHeader == Parameter("header", "string", FALSE)
OptionalQuery == Parameter("query", "string", FALSE)
OptionalNumber == Parameter("query", "integer", FALSE)

Plain(operations) == [op \in operations |-> {}]

aclWrappers ==
    Plain({"ListAclsLegacy", "SimulateAclConversion", "CalculateEffectiveAcl", "ListAcls",
           "ListAudit"})

authWrappers ==
    Plain({"Login", "Logout", "CurrentUser", "RotateRecoveryCodes", "ConfirmTotpEnrollment",
           "BeginTotpEnrollment", "RevokeTotp", "VerifyMfaLogin"})

backupWrappers == Plain({"RenewSession", "ListBackups", "ListCapabilities"})

requestWrappers ==
    [ListChangeRequests |-> {OptionalQuery}, CreateChangeRequest |-> {IdempotencyKey},
     GetChangeRequest |-> {Id}]

approvalWrappers ==
    [ApproveChangeRequest |-> {Id, IdempotencyKey},
     ExecuteApprovedChangeRequest |-> {Id, IdempotencyKey}]

rejectWrappers ==
    [RejectChangeRequest |-> {Id, IdempotencyKey},
     GetConfigurationFile |-> {Parameter("query", "string", TRUE)}]

domainWrappers ==
    Plain({"ValidateConfiguration", "GetCups", "ListDfs", "GetDomain", "TestDomain"})

eventWrappers ==
    [StreamEvents |-> {OptionalHeader}]
        @@ Plain({"ListFilesystems", "ListIdentities", "ListJobs"})

jobWrappers ==
    [CancelJob |-> {Id, IdempotencyKey}, RollbackJob |-> {Id, IdempotencyKey}]

printWrappers ==
    Plain({"GetLogging", "ListMounts", "ListPrincipalsLegacy", "ListPrintDrivers",
           "ListPrinters", "ListQuotas"})

rollbackWrappers ==
    [ExecuteRollback |-> {IdempotencyKey}]
        @@ Plain({"GetSamba", "ListSambaProfiles", "ListServices"})

serviceWrappers == [ServiceAction |-> {Id, IdempotencyKey}]

shareWrappers ==
    [ListShares |-> {OptionalNumber, OptionalQuery},
     CreateShare |-> {IdempotencyKey, OptionalHeader}]

systemWrappers == Plain({"PreviewShare", "GetSystem", "Health", "Readiness"})

Parameters ==
    aclWrappers @@ authWrappers @@ backupWrappers @@ requestWrappers @@ approvalWrappers
        @@ rejectWrappers @@ domainWrappers @@ eventWrappers @@ jobWrappers @@ printWrappers
        @@ rollbackWrappers @@ serviceWrappers @@ shareWrappers @@ systemWrappers

Operations == DOMAIN Parameters

\* What is wrong with the parameters of a request, if anything: a required
\* one is absent, one is given twice, or one is not the number it should be.
BindError(op, fault) ==
    \/ fault = "missing" /\ \E p \in Parameters[op] : p.required /\ p.place # "path"
    \/ fault = "repeated" /\ \E p \in Parameters[op] : p.place # "path"
    \/ fault = "malformed" /\ \E p \in Parameters[op] : p.kind = "integer"

-----------------------------------------------------------------------------
(***************************************************************************)
(* The router.  A pattern for GET also serves HEAD.                        *)
(***************************************************************************)
Posted ==
    {"SimulateAclConversion", "CalculateEffectiveAcl", "Login", "Logout",
     "RotateRecoveryCodes", "ConfirmTotpEnrollment", "BeginTotpEnrollment", "RevokeTotp",
     "VerifyMfaLogin", "RenewSession", "CreateChangeRequest", "ApproveChangeRequest",
     "ExecuteApprovedChangeRequest", "RejectChangeRequest", "ValidateConfiguration",
     "TestDomain", "CancelJob", "RollbackJob", "ExecuteRollback", "ServiceAction",
     "CreateShare", "PreviewShare"}

Served(op, method) == IF op \in Posted THEN method = "POST" ELSE method \in {"GET", "HEAD"}

-----------------------------------------------------------------------------
(***************************************************************************)
(* openapi_handler.go.                                                     *)
(***************************************************************************)
\* The operations whose handler runs behind Authorize, and for what.
Permission ==
    [SimulateAclConversion |-> <<"write", "acl">>, ListChangeRequests |-> <<"read", "change">>,
     CreateChangeRequest |-> <<"write", "change">>, GetChangeRequest |-> <<"read", "change">>,
     ApproveChangeRequest |-> <<"approve", "change">>,
     ExecuteApprovedChangeRequest |-> <<"operate", "change">>,
     RejectChangeRequest |-> <<"approve", "change">>,
     ValidateConfiguration |-> <<"write", "file">>, TestDomain |-> <<"write", "domain">>,
     CancelJob |-> <<"operate", "job">>, RollbackJob |-> <<"rollback", "job">>,
     ExecuteRollback |-> <<"rollback", "configuration">>,
     ServiceAction |-> <<"operate", "samba">>, CreateShare |-> <<"write", "share">>,
     PreviewShare |-> <<"write", "share">>]

\* Those behind withIdempotency as well.
Keyed ==
    {"CreateChangeRequest", "ApproveChangeRequest", "ExecuteApprovedChangeRequest",
     "RejectChangeRequest", "CancelJob", "RollbackJob", "ExecuteRollback", "ServiceAction",
     "CreateShare"}

Authorized(role, op) == op \in DOMAIN Permission => Allowed(role, Permission[op])
=============================================================================
