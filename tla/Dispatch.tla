------------------------------ MODULE Dispatch ------------------------------
(***************************************************************************)
(* What becomes of a privileged request: the handler of the API that       *)
(* accepts it, the client it is given to, the gates of the agent and the   *)
(* executor behind them.  API and agent are two processes that load their  *)
(* own configuration (config/config.go) and restart on their own, with the *)
(* same environment or with another one, so that a job accepted under one  *)
(* configuration may reach an agent with another.                          *)
(*                                                                         *)
(* Approval and windows are in ChangeControl, the progress of jobs in      *)
(* JobManager, nonces, signatures and the semaphore in AgentServer.        *)
(***************************************************************************)
EXTENDS OperationCatalog

CONSTANTS
    MaxRestarts      \* starts of either process after the first ones

ASSUME DispatchConstants == MaxRestarts \in Nat

Down == [adapter |-> "none", executor |-> "none", mutable |-> FALSE, key |-> "none",
         capabilities |-> {}]
NoRequest == [entry |-> "none", op |-> "none", payload |-> NoArguments, at |-> "none",
              result |-> "none", reached |-> "none"]

VARIABLES
    api, agent,     \* the loaded configurations
    release,        \* of the agent: 1 has version 1 of every operation
    request,        \* the request that is followed
    restarts

dispatchVars == <<api, agent, release, request, restarts>>

-----------------------------------------------------------------------------
(***************************************************************************)
(* Load: an environment gives a configuration or ends the process.         *)
(***************************************************************************)
Environment ==
    [adapter : {"mock", "fixture", "agent", "freebsd-readonly", "zfs"},
     executor : {"mock", "fixture", "readonly-freebsd", "root"},
     mutable : BOOLEAN, key : {"shared", "none"}, development : BOOLEAN,
     capabilities : {{}, Capabilities}, fixture : BOOLEAN, peer : BOOLEAN, limits : BOOLEAN]

\* Durations, sizes and the mode of the socket are one Boolean here.
validateAgentConfig(env) ==
    /\ env.limits
    /\ env.executor \in {"mock", "fixture", "readonly-freebsd"}
    /\ env.executor = "fixture" => env.fixture
    /\ env.executor = "readonly-freebsd" => env.peer /\ env.capabilities # {}

\* (mutation: only the adapter is looked at, not the executor)
validateAdapterConfigOnly(env) ==
    /\ env.mutable => env.adapter \notin {"freebsd-readonly", "fixture"}
    /\ env.adapter \in {"mock", "agent", "freebsd-readonly", "fixture"}
    /\ env.adapter = "fixture" => env.fixture

validateAdapterConfig(env) ==
    /\ env.mutable => /\ env.adapter \notin {"freebsd-readonly", "fixture"}
                      /\ env.executor \notin {"fixture", "readonly-freebsd"}
    /\ env.adapter \in {"mock", "agent", "freebsd-readonly", "fixture"}
    /\ env.adapter = "fixture" => env.fixture

Loads(env) ==
    /\ env.key = "none" => env.development
    /\ validateAgentConfig(env)
    /\ validateAdapterConfig(env)

\* Without a key each development process makes up its own.  Only the
\* FreeBSD executor looks at the capabilities.
Load(env) ==
    [adapter |-> env.adapter, executor |-> env.executor, mutable |-> env.mutable,
     key |-> IF env.key = "none" THEN "random" ELSE "shared",
     capabilities |-> IF env.executor = "readonly-freebsd" THEN env.capabilities ELSE {}]

Configurations == {Load(env) : env \in {e \in Environment : Loads(e)}}

Results == {"none", "invalid", "approval_required", "capability_unavailable",
            "mutation_blocked", "operation_not_allowed", "invalid_payload", "unreachable",
            "unauthorized", "operation_version_mismatch", "busy", "policy_denied",
            "fixture_operation_unavailable", "failed", "success"}

DispatchTypeOK ==
    /\ api \in Configurations \cup {Down}
    /\ agent \in Configurations \cup {Down}
    /\ request.entry \in {"none", "share", "service", "rollback", "backup", "change"}
    /\ request.at \in {"none", "accepted", "refused", "done"}
    /\ request.result \in Results
    /\ request.reached \in {"none", "mock_client", "mock", "fixture", "readonly-freebsd"}
    /\ request.reached # "none" => request.at = "done" /\ LookupOperation(request.op)
    /\ release \in {1, 2} /\ restarts \in 0..MaxRestarts

DispatchInit ==
    /\ api \in Configurations /\ agent \in Configurations \cup {Down}
    /\ release \in {1, 2} /\ request = NoRequest /\ restarts = 0

\* A restarted API has lost the goroutine of the job that was under way.
StartAPI(config) ==
    /\ restarts < MaxRestarts
    /\ api' = config /\ request' = NoRequest /\ restarts' = restarts + 1
    /\ UNCHANGED <<agent, release>>

StartAgent(config) ==
    /\ restarts < MaxRestarts
    /\ agent' = config /\ release' \in {1, 2} /\ restarts' = restarts + 1
    /\ UNCHANGED <<api, request>>

StopAgent ==
    /\ agent # Down
    /\ agent' = Down
    /\ UNCHANGED <<api, release, request, restarts>>

-----------------------------------------------------------------------------
(***************************************************************************)
(* The handlers of the API.                                                *)
(***************************************************************************)
mutableOperationsEnabled ==
    \/ api.adapter = "mock"
    \/ api.adapter = "agent" /\ api.executor = "mock" /\ api.mutable

Refuse(entry, op, payload, result) ==
    request' = [NoRequest EXCEPT !.entry = entry, !.op = op, !.payload = payload,
                                 !.at = "refused", !.result = result]

Accept(entry, op, payload) ==
    request' = [NoRequest EXCEPT !.entry = entry, !.op = op, !.payload = payload,
                                 !.at = "accepted"]

\* Requests share no state, so one is followed to its end.
Idle == request = NoRequest
KeepProcesses == UNCHANGED <<api, agent, release, restarts>>

AcceptMutable(entry, op, payload) ==
    IF mutableOperationsEnabled THEN Accept(entry, op, payload)
                                ELSE Refuse(entry, op, payload, "mutation_blocked")

SharePayload == [share |-> Value("object", "", 0), dryRun |-> Value("boolean", "", 0)]

createShare ==
    /\ Idle /\ KeepProcesses
    /\ AcceptMutable("share", "share_create", SharePayload)

ServiceOperation ==
    [start |-> "service_start", stop |-> "service_stop", reload |-> "service_reload",
     restart |-> "service_restart"]

\* (mutation: the action is in the path of the request only)
ServicePayloadById(id, action) == [serviceId |-> Value("string", id, 8)]

ServicePayload(id, action) ==
    [serviceId |-> Value("string", id, 8), action |-> Value("string", action, 8)]

\* The sample inventory always has SMB sessions, so restart is refused.
serviceAction(id, action) ==
    /\ Idle /\ KeepProcesses
    /\ LET payload == ServicePayload(id, action)
       IN  CASE action = "health-check"            -> Accept("service", "service_status", payload)
             [] action = "restart"                 ->
                    Refuse("service", "service_restart", payload, "approval_required")
             [] action \in {"start", "stop", "reload"} ->
                    AcceptMutable("service", ServiceOperation[action], payload)
             [] OTHER                              ->
                    Refuse("service", "service_status", payload, "invalid")

\* The id is that of a stored job.
JobPayload == [sourceJobId |-> Value("string", "job", 20)]

rollbackJob ==
    /\ Idle /\ KeepProcesses
    /\ AcceptMutable("rollback", "rollback_execute", JobPayload)

\* Only the lengths of the two texts of the body matter.
BackupPayload(backup, reason) ==
    [backupId |-> Value("string", "backup", backup), reason |-> Value("string", "reason", reason)]

rollbackByBackup(backup, reason) ==
    /\ Idle /\ KeepProcesses
    /\ LET payload == BackupPayload(backup, reason)
       IN  IF mutableOperationsEnabled /\ backup = 0
           THEN Refuse("backup", "rollback_execute", payload, "invalid")
           ELSE AcceptMutable("backup", "rollback_execute", payload)

\* RequiredCapability of the policy of an operation; none for an operation
\* without a policy.
PolicyCapability(op) ==
    CASE op = "system_inspect"                     -> {"system.inspect"}
      [] op = "samba_config_validate"              -> {"samba.testparm"}
      [] op = "acl_read"                           -> {"acl.nfsv4.read"}
      [] op \in {"share_create", "share_delete"}   -> {"share.write"}
      [] op = "samba_service_restart"              -> {"samba.service.restart"}
      [] op = "rollback_execute"                   -> {"rollback.execute"}
      [] OTHER                                     -> {}

\* capabilityEnabled: what fixtures.Capabilities lists as supported
SupportedCapabilities ==
    {"smb.windows11", "system.inspect", "filesystem.read", "samba.inspect", "samba.testparm",
     "domain.member.diagnose"}

\* An approved change inside its window: operation and payload are whatever
\* the requester wrote.
executeChangeRequest(op, payload) ==
    /\ Idle /\ KeepProcesses
    /\ IF PolicyCapability(op) \subseteq SupportedCapabilities
       THEN AcceptMutable("change", op, payload)
       ELSE Refuse("change", op, payload, "capability_unavailable")

-----------------------------------------------------------------------------
(***************************************************************************)
(* The client, the gates of the agent and the executors.                   *)
(***************************************************************************)
Done(result, reached) ==
    /\ request.at = "accepted"
    /\ request' = [request EXCEPT !.at = "done", !.result = result, !.reached = reached]
    /\ KeepProcesses

InProcess == api.adapter \in {"mock", "fixture"}
Carries == Validate(Catalog[request.op].fields, request.payload)

\* Both clients look the operation up first.
ExecuteUnknown ==
    /\ ~LookupOperation(request.op)
    /\ Done("operation_not_allowed", "none")

\* DevScenario decides whether an accepted operation succeeds.
MockClientExecute ==
    /\ InProcess /\ LookupOperation(request.op)
    /\ IF Carries THEN \E result \in {"success", "failed"} : Done(result, "mock_client")
                  ELSE Done("invalid_payload", "none")

\* Version of an operation in the catalogue of the agent's release.
AgentVersion(op) == IF Catalog[op].version > release THEN release ELSE Catalog[op].version

\* The first gate that refuses decides.
Gate ==
    CASE agent = Down                                  -> "unreachable"
      [] agent.key # "shared" \/ api.key # "shared"    -> "unauthorized"
      [] Catalog[request.op].version # AgentVersion(request.op)
                                                       -> "operation_version_mismatch"
      [] /\ agent.executor = "readonly-freebsd"
         /\ Catalog[request.op].capability \notin agent.capabilities
                                                       -> "capability_unavailable"
      [] ~Carries                                      -> "invalid_payload"
      [] IsMutation(request.op) /\ ~agent.mutable      -> "mutation_blocked"
      [] OTHER                                         -> "open"

UnixClientRefused ==
    /\ ~InProcess /\ LookupOperation(request.op)
    /\ Gate # "open"
    /\ Done(Gate, "none")

Inventories == {"system_inspect", "capabilities_inspect", "filesystem_inspect",
                "samba_inspect", "domain_member_diagnose", "cups_inspect"}

\* The semaphore, the nonce store or the connection.
UnixClientBusy ==
    /\ ~InProcess /\ LookupOperation(request.op)
    /\ Gate = "open"
    /\ Done("busy", "none")

\* The command of an operation that is not an inventory, if it has one.
ServiceName == [id \in ServiceIds |-> CASE id = "svc-smbd"     -> "samba_server"
                                         [] id = "svc-winbindd" -> "winbindd"
                                         [] id = "svc-cupsd"    -> "cupsd"]

readOnlyCommand ==
    CASE request.op = "samba_config_validate" -> {Cmd("testparm", {"-s"})}
      [] request.op = "quota_read"            -> {Cmd("quota", {"-v"})}
      [] request.op = "service_status" /\ request.payload.serviceId.text \in ServiceIds ->
             {Cmd("service", {ServiceName[request.payload.serviceId.text], "status"})}
      [] OTHER                                -> {}

\* The collection of an inventory is in the module Inventory.
ReadOnlyResult ==
    CASE IsMutation(request.op)                 -> {"mutation_blocked"}
      [] request.op \in Inventories             -> {"success", "failed"}
      [] readOnlyCommand = {}                   -> {"capability_unavailable"}
      [] \E c \in readOnlyCommand : ~commandAllowed(request.op, c.path, c.args)
                                                -> {"policy_denied"}
      [] OTHER                                  -> {"success", "failed"}

FixtureResult ==
    IF request.op \in Inventories \cup {"service_status"}
    THEN {"success", "failed"} ELSE {"fixture_operation_unavailable"}

\* Server.handle hands the request to the executor that buildExecutor made.
UnixClientExecute ==
    /\ ~InProcess /\ LookupOperation(request.op)
    /\ Gate = "open"
    /\ \E result \in CASE agent.executor = "mock"    -> {"success", "failed"}
                       [] agent.executor = "fixture" -> FixtureResult
                       [] OTHER                      -> ReadOnlyResult :
          Done(result, agent.executor)

-----------------------------------------------------------------------------
ServiceIdsAsked == {"svc-smbd", "svc-nfsd"}
ActionsAsked == {"start", "stop", "restart", "reload", "health-check", "destroy"}
\* An operation without a policy may be approved; the catalogue need not have
\* it ("future_operation").
Approved == {"acl_apply", "service_restart", "samba_service_restart", "samba_config_apply",
             "samba_config_validate", "system_inspect", "share_delete", "future_operation"}
Payloads == {NoArguments, [serviceId |-> Null, action |-> Value("string", "restart", 8)],
             [path |-> Value("string", "smb4.conf", 30), content |-> Value("number", "", 0)]}

DispatchNext ==
    \/ \E config \in Configurations : StartAPI(config) \/ StartAgent(config)
    \/ StopAgent
    \/ createShare
    \/ \E id \in ServiceIdsAsked, action \in ActionsAsked : serviceAction(id, action)
    \/ rollbackJob
    \/ \E backup \in {0, 20, 129}, reason \in {20, 1025} : rollbackByBackup(backup, reason)
    \/ \E op \in Approved, payload \in Payloads : executeChangeRequest(op, payload)
    \/ ExecuteUnknown \/ MockClientExecute
    \/ UnixClientRefused \/ UnixClientBusy \/ UnixClientExecute

DispatchSpec == DispatchInit /\ [][DispatchNext]_dispatchVars

-----------------------------------------------------------------------------
(***************************************************************************)
(* Properties.                                                             *)
(***************************************************************************)
\* Whatever the two processes were started with, and in whichever order they
\* restart, an operation that changes the host is only ever seen by a
\* simulation, never by the fixture or the FreeBSD executor.
MutationOnlySimulated ==
    request.reached \in {"fixture", "readonly-freebsd"} => ~IsMutation(request.op)

\* A request that a handler accepted and built itself is not refused for its
\* shape: handlers and catalogue agree on fields and operations, and only a
\* service outside the list or a text over the limit is turned down.
HandlersFitCatalogue ==
    request.result \in {"invalid_payload", "operation_not_allowed", "policy_denied"} =>
       \/ request.entry = "change"
       \/ request.entry = "service" /\ request.payload.serviceId.text \notin ServiceIds
       \/ request.entry = "backup" /\ (\/ request.payload.backupId.len > 128
                                       \/ request.payload.reason.len > 1024)
=============================================================================
