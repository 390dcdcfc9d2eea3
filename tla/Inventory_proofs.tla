-------------------------- MODULE Inventory_proofs --------------------------
(***************************************************************************)
(* Proofs about the two modules that read the catalogue of operations.     *)
(*                                                                         *)
(* Dispatch: no mutation behind the fixture or the FreeBSD executor, and   *)
(* requests of the handlers that fit the catalogue.                        *)
(*                                                                         *)
(* Inventory: the lists cover the provider, the answer follows the probe,  *)
(* and a steady host is replayed as it was.  The last one needs what a     *)
(* method comes to when the same commands fail from its first call to its  *)
(* last (Outcome), which is shown to be where the collector and the replay *)
(* both arrive.                                                            *)
(***************************************************************************)
EXTENDS Inventory, Dispatch, TLAPS

-----------------------------------------------------------------------------
(***************************************************************************)
(* Dispatch: what the handlers build and what the catalogue accepts.       *)
(***************************************************************************)
\* The operations that handlers name exist in the catalogue.
LEMMA DispatchCatalogue ==
    /\ {"share_create", "service_status", "service_start", "service_stop", "service_reload",
        "rollback_execute"} \subseteq DOMAIN Catalog
    /\ "none" \notin DOMAIN Catalog
BY DEF Catalog

\* Their entries.
LEMMA DispatchEntries ==
    /\ Catalog["share_create"] =
          mutatingOperation("share.write", [share  |-> Rule("object", TRUE, {}, 0),
                                            dryRun |-> Rule("boolean", FALSE, {}, 0)])
    /\ Catalog["rollback_execute"] =
          mutatingOperation("rollback.execute", [sourceJobId |-> Rule("string", FALSE, {}, 128),
                                                 backupId    |-> Rule("string", FALSE, {}, 128),
                                                 reason      |-> Rule("string", FALSE, {}, 1024)])
    /\ Catalog["service_start"] = Service("service.start")
    /\ Catalog["service_stop"] = Service("service.stop")
    /\ Catalog["service_reload"] = Service("service.reload")
    /\ Catalog["service_status"] =
          readOperation("service.status", servicePayload({"health-check"}),
                        [service |-> {"samba_server", "winbindd", "cupsd", "status"}])
BY DEF Catalog

\* The payload of createShare is accepted.
LEMMA ShareCarried == Validate(Catalog["share_create"].fields, SharePayload)
<1> DEFINE F == [share |-> Rule("object", TRUE, {}, 0), dryRun |-> Rule("boolean", FALSE, {}, 0)]
<1>1. Catalog["share_create"].fields = F
  BY DispatchEntries DEF mutatingOperation
<1>2. DOMAIN F = {"share", "dryRun"} /\ DOMAIN SharePayload = {"share", "dryRun"}
  BY DEF SharePayload
<1>3. /\ F["share"] = Rule("object", TRUE, {}, 0) /\ F["dryRun"] = Rule("boolean", FALSE, {}, 0)
      /\ SharePayload["share"] = Value("object", "", 0)
      /\ SharePayload["dryRun"] = Value("boolean", "", 0)
  BY DEF SharePayload
<1>4. /\ validateField(Value("object", "", 0), Rule("object", TRUE, {}, 0))
      /\ validateField(Value("boolean", "", 0), Rule("boolean", FALSE, {}, 0))
  BY DEF validateField, Value, Rule
<1> HIDE DEF F
<1> QED
  BY <1>1, <1>2, <1>3, <1>4 DEF Validate

\* A payload of the service handler is accepted for a service of the list and
\* an action of the operation.
LEMMA ServiceCarried ==
    ASSUME NEW actions, NEW action \in actions, NEW id \in ServiceIds
    PROVE  Validate(servicePayload(actions), ServicePayload(id, action))
<1> DEFINE F == servicePayload(actions)
           P == ServicePayload(id, action)
<1>1. DOMAIN F = {"serviceId", "action"} /\ DOMAIN P = {"serviceId", "action"}
  BY DEF servicePayload, ServicePayload
<1>2. /\ F["serviceId"] = Rule("string", TRUE, ServiceIds, 32)
      /\ F["action"] = Rule("string", TRUE, actions, 32)
      /\ P["serviceId"] = Value("string", id, 8)
      /\ P["action"] = Value("string", action, 8)
  BY DEF servicePayload, ServicePayload
<1>3. /\ validateField(Value("string", id, 8), Rule("string", TRUE, ServiceIds, 32))
      /\ validateField(Value("string", action, 8), Rule("string", TRUE, actions, 32))
  BY DEF validateField, Value, Rule
<1> HIDE DEF F, P
<1>4. Validate(F, P)
  BY <1>1, <1>2, <1>3 DEF Validate
<1> QED
  BY <1>4 DEF F, P

\* A text that may be absent, of at most max bytes.
OptionalText(max) == Rule("string", FALSE, {}, max)

\* The schema of a rollback has three fields and requires none.
LEMMA RollbackSchema ==
    ASSUME NEW rules, rules = Catalog["rollback_execute"].fields
    PROVE  /\ DOMAIN rules = {"sourceJobId", "backupId", "reason"}
           /\ rules["sourceJobId"] = OptionalText(128)
           /\ rules["backupId"] = OptionalText(128)
           /\ rules["reason"] = OptionalText(1024)
           /\ \A f \in DOMAIN rules : ~rules[f].required
<1>1. rules = [sourceJobId |-> OptionalText(128), backupId |-> OptionalText(128),
               reason |-> OptionalText(1024)]
  BY DispatchEntries DEF mutatingOperation, OptionalText
<1>2. /\ DOMAIN rules = {"sourceJobId", "backupId", "reason"}
      /\ rules["sourceJobId"] = OptionalText(128)
      /\ rules["backupId"] = OptionalText(128)
      /\ rules["reason"] = OptionalText(1024)
  BY <1>1
<1>3. ~OptionalText(128).required /\ ~OptionalText(1024).required
  BY DEF Rule, OptionalText
<1>4. ASSUME NEW f \in DOMAIN rules
      PROVE  ~rules[f].required
  <2>1. rules[f] = OptionalText(128) \/ rules[f] = OptionalText(1024)
    BY <1>2
  <2> QED
    BY <1>3, <2>1
<1> QED
  BY <1>2, <1>4

\* The identifier of a job is accepted.
LEMMA RollbackCarried ==
    Validate(Catalog["rollback_execute"].fields, JobPayload)
<1> DEFINE rules == Catalog["rollback_execute"].fields
           payload == JobPayload
<1>1. /\ DOMAIN payload = {"sourceJobId"}
      /\ payload["sourceJobId"] = Value("string", "job", 20)
  BY DEF JobPayload
<1>2. validateField(Value("string", "job", 20), OptionalText(128))
  BY DEF validateField, Value, Rule, OptionalText
<1>3. /\ DOMAIN rules = {"sourceJobId", "backupId", "reason"}
      /\ rules["sourceJobId"] = OptionalText(128)
      /\ \A f \in DOMAIN rules : ~rules[f].required
  BY RollbackSchema
<1> HIDE DEF rules, payload
<1>4. validateField(payload["sourceJobId"], rules["sourceJobId"])
  BY <1>1, <1>2, <1>3
<1>5. \A f \in DOMAIN payload : f \in DOMAIN rules /\ validateField(payload[f], rules[f])
  BY <1>1, <1>3, <1>4, Zenon
<1>6. Validate(rules, payload)
  BY <1>3, <1>5 DEF Validate
<1> QED
  BY <1>6 DEF rules, payload

\* So is the identifier of a backup with a reason, within the limits.
LEMMA BackupCarried ==
    ASSUME NEW backup \in Nat, backup <= 128, NEW reason \in Nat, reason <= 1024
    PROVE  Validate(Catalog["rollback_execute"].fields, BackupPayload(backup, reason))
<1> DEFINE rules == Catalog["rollback_execute"].fields
           payload == BackupPayload(backup, reason)
<1>1. /\ DOMAIN payload = {"backupId", "reason"}
      /\ payload["backupId"] = Value("string", "backup", backup)
      /\ payload["reason"] = Value("string", "reason", reason)
  BY DEF BackupPayload
<1>2. /\ validateField(Value("string", "backup", backup), OptionalText(128))
      /\ validateField(Value("string", "reason", reason), OptionalText(1024))
  BY DEF validateField, Value, Rule, OptionalText
<1>3. /\ DOMAIN rules = {"sourceJobId", "backupId", "reason"}
      /\ rules["backupId"] = OptionalText(128) /\ rules["reason"] = OptionalText(1024)
      /\ \A f \in DOMAIN rules : ~rules[f].required
  BY RollbackSchema
<1> HIDE DEF rules, payload
<1>4. /\ validateField(payload["backupId"], rules["backupId"])
      /\ validateField(payload["reason"], rules["reason"])
  BY <1>1, <1>2, <1>3
<1>5. \A f \in DOMAIN payload : f \in DOMAIN rules /\ validateField(payload[f], rules[f])
  <2> SUFFICES ASSUME NEW f \in DOMAIN payload
               PROVE  f \in DOMAIN rules /\ validateField(payload[f], rules[f])
    OBVIOUS
  <2>1. CASE f = "backupId"
    BY <1>3, <1>4, <2>1
  <2>2. CASE f = "reason"
    BY <1>3, <1>4, <2>2
  <2> QED
    BY <1>1, <2>1, <2>2
<1>6. Validate(rules, payload)
  BY <1>3, <1>5 DEF Validate
<1> QED
  BY <1>6 DEF rules, payload

-----------------------------------------------------------------------------
\* A record with the fields of a request.
Shaped(r) ==
    r = [entry |-> r.entry, op |-> r.op, payload |-> r.payload, at |-> r.at,
         result |-> r.result, reached |-> r.reached]

\* Only environments that load are in force.
ProcessInv ==
    /\ api \in Configurations \cup {Down} /\ agent \in Configurations \cup {Down}
    /\ release \in {1, 2} /\ restarts \in 0..MaxRestarts

\* How far the request is, what it came to and who has seen it.
ProgressInv ==
    /\ Shaped(request)
    /\ request.entry \in {"none", "share", "service", "rollback", "backup", "change"}
    /\ request.at \in {"none", "accepted", "refused", "done"}
    /\ request.result \in Results
    /\ request.reached \in {"none", "mock_client", "mock", "fixture", "readonly-freebsd"}
    /\ request.reached # "none" => request.at = "done" /\ LookupOperation(request.op)

\* What each handler has built when it accepts.
BuiltInv ==
    request.at \in {"accepted", "done"} =>
        \/ request.entry = "change"
        \/ /\ request.entry = "share"
           /\ request.op = "share_create" /\ request.payload = SharePayload
        \/ /\ request.entry = "service"
           /\ \E id \in ServiceIdsAsked :
                 \/ /\ request.op = "service_status"
                    /\ request.payload = ServicePayload(id, "health-check")
                 \/ /\ request.op = "service_start" /\ request.payload = ServicePayload(id, "start")
                 \/ /\ request.op = "service_stop" /\ request.payload = ServicePayload(id, "stop")
                 \/ /\ request.op = "service_reload"
                    /\ request.payload = ServicePayload(id, "reload")
        \/ /\ request.entry = "rollback" /\ request.op = "rollback_execute"
           /\ request.payload = JobPayload
        \/ /\ request.entry = "backup" /\ request.op = "rollback_execute"
           /\ \E backup \in {20, 129}, reason \in {20, 1025} :
                 request.payload = BackupPayload(backup, reason)

DispatchInv ==
    ProcessInv /\ ProgressInv /\ BuiltInv /\ MutationOnlySimulated /\ HandlersFitCatalogue

\* An environment that loads with mutable operations has an executor that
\* simulates.
LEMMA MutableIsSimulated ==
    ASSUME NEW c \in Configurations \cup {Down}, c.mutable
    PROVE  c.executor = "mock"
<1>1. c # Down
  BY DEF Down
<1>2. PICK env \in Environment : Loads(env) /\ c = Load(env)
  BY <1>1 DEF Configurations
<1>3. env.executor \in {"mock", "fixture", "readonly-freebsd"} /\ env.mutable = c.mutable
  BY <1>2 DEF Loads, Load, validateAgentConfig
<1>4. env.executor \notin {"fixture", "readonly-freebsd"}
  BY <1>2, <1>3 DEF Loads, validateAdapterConfig
<1> QED
  BY <1>2, <1>3, <1>4 DEF Load

\* What the handlers build is accepted by the catalogue, with the exceptions
\* of HandlersFitCatalogue.
LEMMA BuiltIsCarried ==
    ASSUME BuiltInv, request.at = "accepted", ~LookupOperation(request.op) \/ ~Carries
    PROVE  \/ request.entry = "change"
           \/ request.entry = "service" /\ request.payload.serviceId.text \notin ServiceIds
           \/ request.entry = "backup" /\ (\/ request.payload.backupId.len > 128
                                           \/ request.payload.reason.len > 1024)
<1>1. CASE request.entry = "share" /\ request.op = "share_create" /\ request.payload = SharePayload
  BY <1>1, ShareCarried, DispatchCatalogue DEF Carries, LookupOperation
<1>2. ASSUME NEW id \in ServiceIdsAsked, NEW action, request.entry = "service",
             request.payload = ServicePayload(id, action),
             \/ request.op = "service_status" /\ action = "health-check"
             \/ request.op = "service_start" /\ action = "start"
             \/ request.op = "service_stop" /\ action = "stop"
             \/ request.op = "service_reload" /\ action = "reload"
      PROVE  request.payload.serviceId.text \notin ServiceIds
  <2>1. request.payload.serviceId.text = id
    BY <1>2 DEF ServicePayload, Value
  <2>2. SUFFICES ASSUME id \in ServiceIds
                 PROVE  FALSE
    BY <2>1
  <2>3. LookupOperation(request.op)
    BY <1>2, DispatchCatalogue DEF LookupOperation
  <2> DEFINE all == {"start", "stop", "restart", "reload", "health-check"}
  <2>4. \/ Catalog[request.op].fields = servicePayload({"health-check"}) /\ action = "health-check"
        \/ Catalog[request.op].fields = servicePayload(all) /\ action \in all
    BY <1>2, DispatchEntries DEF Service, mutatingOperation, readOperation
  <2>5. Validate(Catalog[request.op].fields, request.payload)
    BY <1>2, <2>2, <2>4, ServiceCarried
  <2> QED
    BY <2>3, <2>5 DEF Carries
<1>3. CASE /\ request.entry = "rollback" /\ request.op = "rollback_execute"
           /\ request.payload = JobPayload
  BY <1>3, RollbackCarried, DispatchCatalogue DEF Carries, LookupOperation
<1>4. ASSUME NEW backup \in {20, 129}, NEW reason \in {20, 1025},
             request.op = "rollback_execute",
             request.payload = BackupPayload(backup, reason)
      PROVE  request.payload.backupId.len > 128 \/ request.payload.reason.len > 1024
  <2>1. request.payload.backupId.len = backup /\ request.payload.reason.len = reason
    BY <1>4 DEF BackupPayload, Value
  <2>2. CASE backup = 20 /\ reason = 20
    <3>1. backup \in Nat /\ backup <= 128 /\ reason \in Nat /\ reason <= 1024
      BY <2>2
    <3>2. Validate(Catalog["rollback_execute"].fields, request.payload)
      <4>1. Validate(Catalog["rollback_execute"].fields, BackupPayload(backup, reason))
        BY <3>1, BackupCarried
      <4> QED
        BY <1>4, <4>1
    <3> QED
      BY <1>4, <3>2, DispatchCatalogue DEF Carries, LookupOperation
  <2> QED
    BY <2>1, <2>2
<1> QED
  BY <1>1, <1>2, <1>3, <1>4 DEF BuiltInv

\* The commands of an accepted status request are in the catalogue.
LEMMA StatusIsAllowed ==
    ASSUME BuiltInv, request.at = "accepted",
           \E c \in readOnlyCommand : ~commandAllowed(request.op, c.path, c.args)
    PROVE  request.entry = "change"
<1> SUFFICES ASSUME request.entry # "change"
             PROVE  FALSE
  OBVIOUS
<1>1. PICK c \in readOnlyCommand : ~commandAllowed(request.op, c.path, c.args)
  OBVIOUS
<1>2. request.op = "service_status" /\ request.payload.serviceId.text \in ServiceIds
  BY <1>1 DEF readOnlyCommand, BuiltInv
<1>3. c = Cmd("service", {ServiceName[request.payload.serviceId.text], "status"})
  BY <1>1, <1>2 DEF readOnlyCommand
<1>4. ServiceName[request.payload.serviceId.text] \in {"samba_server", "winbindd", "cupsd"}
  BY <1>2 DEF ServiceName, ServiceIds
<1>5. /\ DOMAIN Catalog["service_status"].arguments = {"service"}
      /\ Catalog["service_status"].arguments["service"] =
            {"samba_server", "winbindd", "cupsd", "status"}
  BY DispatchEntries DEF readOperation
<1>6. c.path = "service" /\ c.args \subseteq {"samba_server", "winbindd", "cupsd", "status"}
  BY <1>3, <1>4 DEF Cmd
<1>7. commandAllowed("service_status", c.path, c.args)
  BY <1>5, <1>6 DEF commandAllowed
<1> QED
  BY <1>1, <1>2, <1>7

\* A handler accepts the request it has built or refuses it.
Answers(entry, op, payload) ==
    \/ Accept(entry, op, payload)
    \/ \E result \in {"invalid", "approval_required", "capability_unavailable",
                      "mutation_blocked"} : Refuse(entry, op, payload, result)

\* A handler that refuses or accepts leaves a request in order.
LEMMA HandlerStep ==
    ASSUME DispatchInv, KeepProcesses,
           NEW entry \in {"share", "service", "rollback", "backup", "change"},
           NEW op, NEW payload, Answers(entry, op, payload)
    PROVE  /\ ProcessInv' /\ ProgressInv' /\ MutationOnlySimulated' /\ HandlersFitCatalogue'
           /\ request'.entry = entry /\ request'.op = op /\ request'.payload = payload
           /\ request'.at = "accepted" => Accept(entry, op, payload)
           /\ request'.at # "done"
<1>1. ProcessInv'
  BY DEF DispatchInv, ProcessInv, KeepProcesses
<1>2. /\ Shaped(request') /\ request'.entry = entry /\ request'.op = op
      /\ request'.payload = payload /\ request'.reached = "none"
      /\ \/ request'.at = "accepted" /\ request'.result = "none" /\ Accept(entry, op, payload)
         \/ /\ request'.at = "refused"
            /\ request'.result \in {"invalid", "approval_required", "capability_unavailable",
                                   "mutation_blocked"}
  BY DEF Answers, Accept, Refuse, NoRequest, Shaped
<1>3. ProgressInv'
  BY <1>2 DEF ProgressInv, Results
<1> QED
  BY <1>1, <1>2, <1>3 DEF MutationOnlySimulated, HandlersFitCatalogue

\* A request that is done has the outcome that was found for it.
LEMMA DoneStep ==
    ASSUME DispatchInv, NEW result \in Results,
           NEW reached \in {"none", "mock_client", "mock", "fixture", "readonly-freebsd"},
           Done(result, reached),
           reached # "none" => LookupOperation(request.op),
           reached \in {"fixture", "readonly-freebsd"} => ~IsMutation(request.op),
           result \in {"invalid_payload", "operation_not_allowed", "policy_denied"} =>
              \/ request.entry = "change"
              \/ request.entry = "service" /\ request.payload.serviceId.text \notin ServiceIds
              \/ request.entry = "backup" /\ (\/ request.payload.backupId.len > 128
                                              \/ request.payload.reason.len > 1024)
    PROVE  DispatchInv'
<1>1. /\ Shaped(request') /\ request'.at = "done"
      /\ request'.result = result /\ request'.reached = reached
      /\ request'.entry = request.entry /\ request'.op = request.op
      /\ request'.payload = request.payload /\ request.at = "accepted"
  BY DEF Done, DispatchInv, ProgressInv, Shaped
<1>2. ProcessInv'
  BY DEF DispatchInv, ProcessInv, Done, KeepProcesses
<1>3. ProgressInv'
  BY <1>1 DEF DispatchInv, ProgressInv
<1>4. BuiltInv'
  BY <1>1 DEF DispatchInv, BuiltInv
<1>5. MutationOnlySimulated' /\ HandlersFitCatalogue'
  BY <1>1 DEF MutationOnlySimulated, HandlersFitCatalogue
<1> QED
  BY <1>2, <1>3, <1>4, <1>5 DEF DispatchInv

\* Every step of either process keeps the invariant.
LEMMA DispatchStep == DispatchInv /\ [DispatchNext]_dispatchVars => DispatchInv'
<1> SUFFICES ASSUME DispatchInv, [DispatchNext]_dispatchVars
             PROVE  DispatchInv'
  OBVIOUS
<1>1. ASSUME NEW config \in Configurations, StartAPI(config)
      PROVE  DispatchInv'
  <2>1. request' = NoRequest /\ ProcessInv'
    BY <1>1, DispatchConstants DEF StartAPI, DispatchInv, ProcessInv
  <2>2. ProgressInv' /\ BuiltInv' /\ MutationOnlySimulated' /\ HandlersFitCatalogue'
    BY <2>1 DEF NoRequest, ProgressInv, Shaped, Results, BuiltInv, MutationOnlySimulated,
       HandlersFitCatalogue
  <2> QED
    BY <2>1, <2>2 DEF DispatchInv
<1>2. ASSUME NEW config \in Configurations, StartAgent(config)
      PROVE  DispatchInv'
  <2>1. request' = request /\ ProcessInv'
    BY <1>2, DispatchConstants DEF StartAgent, DispatchInv, ProcessInv
  <2> QED
    BY <2>1 DEF DispatchInv, ProgressInv, BuiltInv, MutationOnlySimulated, HandlersFitCatalogue
<1>3. CASE StopAgent
  <2>1. request' = request /\ ProcessInv'
    BY <1>3 DEF StopAgent, DispatchInv, ProcessInv
  <2> QED
    BY <2>1 DEF DispatchInv, ProgressInv, BuiltInv, MutationOnlySimulated, HandlersFitCatalogue
<1>4. CASE createShare
  <2>1. /\ KeepProcesses
        /\ Answers("share", "share_create", SharePayload)
    BY <1>4 DEF createShare, AcceptMutable, Answers
  <2>2. /\ ProcessInv' /\ ProgressInv' /\ MutationOnlySimulated' /\ HandlersFitCatalogue'
        /\ request'.entry = "share" /\ request'.op = "share_create"
        /\ request'.payload = SharePayload
    BY <2>1, HandlerStep
  <2> QED
    BY <2>2 DEF DispatchInv, BuiltInv
<1>5. ASSUME NEW id \in ServiceIdsAsked, NEW action \in ActionsAsked, serviceAction(id, action)
      PROVE  DispatchInv'
  <2> DEFINE p == ServicePayload(id, action)
  <2>1. KeepProcesses
    BY <1>5 DEF serviceAction
  <2>2. CASE action = "health-check"
    <3>1. Answers("service", "service_status", p)
      BY <1>5, <2>2 DEF serviceAction, Answers
    <3>2. /\ ProcessInv' /\ ProgressInv' /\ MutationOnlySimulated' /\ HandlersFitCatalogue'
          /\ request'.entry = "service" /\ request'.op = "service_status"
          /\ request'.payload = p
      BY <2>1, <3>1, HandlerStep
    <3> QED
      BY <2>2, <3>2 DEF DispatchInv, BuiltInv
  <2>3. CASE action \in {"start", "stop", "reload"}
    <3>1. Answers("service", ServiceOperation[action], p)
      BY <1>5, <2>3 DEF serviceAction, AcceptMutable, Answers
    <3>2. /\ ProcessInv' /\ ProgressInv' /\ MutationOnlySimulated' /\ HandlersFitCatalogue'
          /\ request'.entry = "service" /\ request'.op = ServiceOperation[action]
          /\ request'.payload = p
      BY <2>1, <3>1, HandlerStep
    <3>3. \/ action = "start" /\ ServiceOperation[action] = "service_start"
          \/ action = "stop" /\ ServiceOperation[action] = "service_stop"
          \/ action = "reload" /\ ServiceOperation[action] = "service_reload"
      BY <2>3 DEF ServiceOperation
    <3> QED
      BY <3>2, <3>3 DEF DispatchInv, BuiltInv
  <2>4. CASE action \in {"restart", "destroy"}
    <3>1. \/ Refuse("service", "service_restart", p, "approval_required")
          \/ Refuse("service", "service_status", p, "invalid")
      BY <1>5, <2>4 DEF serviceAction
    <3>2. ProcessInv' /\ ProgressInv' /\ MutationOnlySimulated' /\ HandlersFitCatalogue'
      BY <2>1, <3>1, HandlerStep DEF Answers
    <3>3. request'.at = "refused"
      BY <3>1 DEF Refuse, NoRequest
    <3> QED
      BY <3>2, <3>3 DEF DispatchInv, BuiltInv
  <2> QED
    BY <2>2, <2>3, <2>4 DEF ActionsAsked
<1>6. CASE rollbackJob
  <2>1. /\ KeepProcesses
        /\ Answers("rollback", "rollback_execute", JobPayload)
    BY <1>6 DEF rollbackJob, AcceptMutable, Answers
  <2>2. /\ ProcessInv' /\ ProgressInv' /\ MutationOnlySimulated' /\ HandlersFitCatalogue'
        /\ request'.entry = "rollback" /\ request'.op = "rollback_execute"
        /\ request'.payload = JobPayload
    BY <2>1, HandlerStep
  <2> QED
    BY <2>2 DEF DispatchInv, BuiltInv
<1>7. ASSUME NEW backup \in {0, 20, 129}, NEW reason \in {20, 1025},
             rollbackByBackup(backup, reason)
      PROVE  DispatchInv'
  <2> DEFINE p == BackupPayload(backup, reason)
  <2>1. /\ KeepProcesses
        /\ Answers("backup", "rollback_execute", p)
        /\ backup # 0 \/ ~Accept("backup", "rollback_execute", p)
    <3>1. CASE mutableOperationsEnabled /\ backup = 0
      <4>1. Refuse("backup", "rollback_execute", p, "invalid") /\ KeepProcesses
        BY <1>7, <3>1 DEF rollbackByBackup
      <4>2. Answers("backup", "rollback_execute", p)
        BY <4>1 DEF Answers
      <4>3. ~Accept("backup", "rollback_execute", p)
        <5>1. request'.at = "refused"
          BY <4>1 DEF Refuse, NoRequest
        <5>2. Accept("backup", "rollback_execute", p) => request'.at = "accepted"
          BY DEF Accept, NoRequest
        <5> QED
          BY <5>1, <5>2
      <4> QED
        BY <4>1, <4>2, <4>3
    <3>2. CASE mutableOperationsEnabled /\ backup # 0
      BY <1>7, <3>2 DEF rollbackByBackup, AcceptMutable, Answers
    <3>3. CASE ~mutableOperationsEnabled
      <4>1. Refuse("backup", "rollback_execute", p, "mutation_blocked") /\ KeepProcesses
        BY <1>7, <3>3 DEF rollbackByBackup, AcceptMutable
      <4>2. Answers("backup", "rollback_execute", p)
        BY <4>1 DEF Answers
      <4>3. ~Accept("backup", "rollback_execute", p)
        <5>1. request'.at = "refused"
          BY <4>1 DEF Refuse, NoRequest
        <5>2. Accept("backup", "rollback_execute", p) => request'.at = "accepted"
          BY DEF Accept, NoRequest
        <5> QED
          BY <5>1, <5>2
      <4> QED
        BY <4>1, <4>2, <4>3
    <3> QED
      BY <3>1, <3>2, <3>3
  <2> HIDE DEF p
  <2>2. /\ ProcessInv' /\ ProgressInv' /\ MutationOnlySimulated' /\ HandlersFitCatalogue'
        /\ request'.entry = "backup" /\ request'.op = "rollback_execute"
        /\ request'.payload = p /\ request'.at # "done"
        /\ request'.at = "accepted" => Accept("backup", "rollback_execute", p)
    BY <2>1, HandlerStep
  <2>3. request'.at = "accepted" => backup \in {20, 129}
    BY <2>1, <2>2
  <2> QED
    BY <2>2, <2>3 DEF DispatchInv, BuiltInv, p
<1>8. ASSUME NEW op \in Approved, NEW payload \in Payloads, executeChangeRequest(op, payload)
      PROVE  DispatchInv'
  <2>1. /\ KeepProcesses
        /\ Answers("change", op, payload)
    BY <1>8 DEF executeChangeRequest, AcceptMutable, Answers
  <2>2. /\ ProcessInv' /\ ProgressInv' /\ MutationOnlySimulated' /\ HandlersFitCatalogue'
        /\ request'.entry = "change"
    BY <2>1, HandlerStep
  <2> QED
    BY <2>2 DEF DispatchInv, BuiltInv
<1>9. CASE ExecuteUnknown
  <2>1. Done("operation_not_allowed", "none") /\ ~LookupOperation(request.op)
    BY <1>9 DEF ExecuteUnknown
  <2>2. request.at = "accepted" /\ BuiltInv
    BY <2>1 DEF Done, DispatchInv
  <2> QED
    BY <2>1, <2>2, BuiltIsCarried, DoneStep DEF Results
<1>10. CASE MockClientExecute
  <2>1. \/ /\ LookupOperation(request.op)
           /\ \E result \in {"success", "failed"} : Done(result, "mock_client")
        \/ ~Carries /\ Done("invalid_payload", "none")
    BY <1>10 DEF MockClientExecute
  <2>2. CASE ~Carries /\ Done("invalid_payload", "none")
    <3>1. request.at = "accepted" /\ BuiltInv
      BY <2>2 DEF Done, DispatchInv
    <3> QED
      BY <2>2, <3>1, BuiltIsCarried, DoneStep DEF Results
  <2> QED
    BY <2>1, <2>2, DoneStep DEF Results
<1>11. CASE UnixClientRefused
  <2>1. Done(Gate, "none") /\ Gate # "open" /\ request.at = "accepted" /\ BuiltInv
    BY <1>11 DEF UnixClientRefused, Done, DispatchInv
  <2>2. /\ Gate \in Results
        /\ Gate \notin {"operation_not_allowed", "policy_denied"}
        /\ Gate = "invalid_payload" => ~Carries
    BY <2>1 DEF Gate, Results
  <2> HIDE DEF Gate
  <2> QED
    BY <2>1, <2>2, BuiltIsCarried, DoneStep
<1>12. CASE UnixClientBusy
  <2>1. Done("busy", "none")
    BY <1>12 DEF UnixClientBusy
  <2> QED
    BY <2>1, DoneStep DEF Results
<1>13. CASE UnixClientExecute
  <2>1. LookupOperation(request.op) /\ Gate = "open"
    BY <1>13 DEF UnixClientExecute
  <2>2. agent # Down /\ (IsMutation(request.op) => agent.mutable)
    BY <2>1 DEF Gate
  <2>3. IsMutation(request.op) => agent.executor = "mock"
    BY <2>2, MutableIsSimulated DEF DispatchInv, ProcessInv
  <2>4. agent.executor \in {"mock", "fixture", "readonly-freebsd"}
    BY <2>2 DEF DispatchInv, ProcessInv, Configurations, Loads, Load, validateAgentConfig
  <2>5. PICK result : /\ Done(result, agent.executor)
                      /\ \/ result \in {"success", "failed"} \cup FixtureResult
                         \/ result \in ReadOnlyResult
    BY <1>13 DEF UnixClientExecute
  <2>6. request.at = "accepted" /\ BuiltInv
    BY <2>5 DEF Done, DispatchInv
  <2>7. /\ result \in Results
        /\ result \notin {"invalid_payload", "operation_not_allowed"}
        /\ result = "policy_denied" =>
              \E c \in readOnlyCommand : ~commandAllowed(request.op, c.path, c.args)
    BY <2>5 DEF FixtureResult, ReadOnlyResult, Results
  <2>8. result = "policy_denied" => request.entry = "change"
    BY <2>6, <2>7, StatusIsAllowed
  <2> QED
    BY <2>1, <2>3, <2>4, <2>5, <2>7, <2>8, DoneStep
<1>14. CASE UNCHANGED dispatchVars
  BY <1>14 DEF dispatchVars, DispatchInv, ProcessInv, ProgressInv, BuiltInv,
     MutationOnlySimulated, HandlersFitCatalogue
<1> QED
  BY <1>1, <1>2, <1>3, <1>4, <1>5, <1>6, <1>7, <1>8, <1>9, <1>10, <1>11, <1>12, <1>13, <1>14
     DEF DispatchNext

\* The configurations in force, the requests the handlers build and what has
\* become of them stay in the inductive invariant, for every restart of API
\* and agent.
THEOREM DispatchInvariant == DispatchSpec => []DispatchInv
<1>1. DispatchInit => DispatchInv
  <2> SUFFICES ASSUME DispatchInit
               PROVE  DispatchInv
    OBVIOUS
  <2>1. ProcessInv /\ request = NoRequest
    BY DispatchConstants DEF DispatchInit, ProcessInv
  <2> QED
    BY <2>1 DEF NoRequest, DispatchInv, ProgressInv, Shaped, Results, BuiltInv,
       MutationOnlySimulated, HandlersFitCatalogue
<1> QED
  BY <1>1, DispatchStep, PTL DEF DispatchSpec

\* Type correctness of Dispatch.
THEOREM DispatchTypeCorrect == DispatchSpec => []DispatchTypeOK
<1>1. DispatchInv => DispatchTypeOK
  BY DEF DispatchInv, ProcessInv, ProgressInv, DispatchTypeOK
<1> QED
  BY <1>1, DispatchInvariant, PTL

\* An operation that changes the host never reaches the fixture or the
\* FreeBSD executor: validateAdapterConfig lets no process start with mutable
\* operations and one of these executors, and Server.handle turns a mutation
\* away without them, whatever was configured when the job was accepted.
THEOREM MutationTheorem == DispatchSpec => []MutationOnlySimulated
<1>1. DispatchInv => MutationOnlySimulated
  BY DEF DispatchInv
<1> QED
  BY <1>1, DispatchInvariant, PTL

\* What createShare, serviceAction and the two rollbacks build passes
\* LookupOperation, PayloadSchema.Validate and commandAllowed, except a
\* service outside the list and a text over the limit.
THEOREM HandlersTheorem == DispatchSpec => []HandlersFitCatalogue
<1>1. DispatchInv => HandlersFitCatalogue
  BY DEF DispatchInv
<1> QED
  BY <1>1, DispatchInvariant, PTL

-----------------------------------------------------------------------------
(***************************************************************************)
(* Inventory: the calls of the provider and the two lists.                 *)
(***************************************************************************)
\* What the provider does when a call fails, and where the call belongs.
Needs == {"optional", "gate", "probe"}

Sections == {"main", "list", "samba", "domain", "cups"}

\* The commands that the catalogue lists for the operation of a method.
CommandsFor(m) ==
    CASE m = "Inspect"      -> systemCommands
      [] m = "List"         -> filesystemCommands
      [] m = "Samba"        -> sambaCommands
      [] m = "Domain"       -> domainCommands
      [] m = "Cups"         -> cupsCommands
      [] m = "Capabilities" -> capabilityCommands

\* Calls of these commands, with some of their arguments.
CallsOf(commands) ==
    [path : {x.path : x \in commands}, args : SUBSET UNION {x.args : x \in commands},
     need : Needs, section : Sections]

\* The calls a method may have: listed by the catalogue and by the runner, a
\* probe only outside the sections and named by the handler, a gate only in a
\* section without a probe.
Good(m) ==
    {c \in CallsOf(CommandsFor(m)) :
        /\ \E x \in CommandsFor(m) : x.path = c.path /\ c.args \subseteq x.args
        /\ Command(c) \in AllowedInvocations
        /\ c.need = "probe" => c.section = "main" /\ Command(c) \in MinimalProbe[m]
        /\ c.need = "gate" => c.section # "main" \/ m = "Domain"}

\* readInventoryOperation folds the commands of each inventory into the
\* arguments commandAllowed looks at.
LEMMA CatalogArguments ==
    ASSUME NEW m \in Methods
    PROVE  Catalog[Operation[m]].arguments = Folded(CommandsFor(m))
<1>1. /\ Catalog["system_inspect"] =
            readInventoryOperation("system.inspect", 2, [dryRun |-> Rule("boolean", FALSE, {}, 0)],
                                   systemCommands)
      /\ Catalog["capabilities_inspect"] =
            readInventoryOperation("capabilities.inspect", 1, NoArguments, capabilityCommands)
      /\ Catalog["filesystem_inspect"] =
            readInventoryOperation("filesystem.inspect", 2, NoArguments, filesystemCommands)
      /\ Catalog["samba_inspect"] =
            readInventoryOperation("samba.inspect", 2, NoArguments, sambaCommands)
      /\ Catalog["domain_member_diagnose"] =
            readInventoryOperation("domain.member.diagnose", 2, NoArguments, domainCommands)
      /\ Catalog["cups_inspect"] =
            readInventoryOperation("cups.inspect", 2, NoArguments, cupsCommands)
  BY DEF Catalog
<1>2. ASSUME NEW a, NEW v, NEW f, NEW commands
      PROVE  readInventoryOperation(a, v, f, commands).arguments = Folded(commands)
  BY DEF readInventoryOperation
<1>3. \/ m = "Inspect" /\ Operation[m] = "system_inspect" /\ CommandsFor(m) = systemCommands
      \/ /\ m = "Capabilities" /\ Operation[m] = "capabilities_inspect"
         /\ CommandsFor(m) = capabilityCommands
      \/ m = "List" /\ Operation[m] = "filesystem_inspect" /\ CommandsFor(m) = filesystemCommands
      \/ m = "Samba" /\ Operation[m] = "samba_inspect" /\ CommandsFor(m) = sambaCommands
      \/ m = "Domain" /\ Operation[m] = "domain_member_diagnose" /\ CommandsFor(m) = domainCommands
      \/ m = "Cups" /\ Operation[m] = "cups_inspect" /\ CommandsFor(m) = cupsCommands
  BY DEF Methods, Operation, CommandsFor
<1> QED
  BY <1>1, <1>2, <1>3

\* What the catalogue lists is allowed.
LEMMA GoodIsAllowed ==
    ASSUME NEW m \in Methods, NEW c \in Good(m)
    PROVE  /\ commandAllowed(Operation[m], c.path, c.args)
           /\ allowedReadOnlyInvocation(Command(c))
<1>1. PICK x \in CommandsFor(m) : x.path = c.path /\ c.args \subseteq x.args
  BY DEF Good
<1>2. /\ c.path \in DOMAIN Folded(CommandsFor(m))
      /\ c.args \subseteq Folded(CommandsFor(m))[c.path]
  BY <1>1 DEF Folded
<1> QED
  BY <1>2, CatalogArguments DEF commandAllowed, allowedReadOnlyInvocation, Good

\* The entries of allowedReadOnlyInvocation that the provider needs.
LEMMA OnlyMember ==
    ASSUME NEW path, NEW sets, NEW a \in sets
    PROVE  [path |-> path, args |-> a] \in Only(path, sets)
BY DEF Only

\* Commands about the system.
LEMMA RunnerSystem ==
    /\ [path |-> "hostname", args |-> {}] \in AllowedInvocations
    /\ [path |-> "hostname", args |-> {"-f"}] \in AllowedInvocations
    /\ [path |-> "sysctl", args |-> {"-n", "kern.osrelease"}] \in AllowedInvocations
    /\ [path |-> "sysctl", args |-> {"-n", "hw.machine"}] \in AllowedInvocations
    /\ [path |-> "sysctl", args |-> {"-n", "hw.ncpu"}] \in AllowedInvocations
    /\ [path |-> "sysctl", args |-> {"-n", "hw.physmem"}] \in AllowedInvocations
    /\ [path |-> "sysctl", args |-> {"-n", "vm.loadavg"}] \in AllowedInvocations
    /\ [path |-> "ifconfig", args |-> {"-l"}] \in AllowedInvocations
    /\ [path |-> "ntpq", args |-> {"-pn"}] \in AllowedInvocations
    /\ [path |-> "uptime", args |-> {}] \in AllowedInvocations
    /\ [path |-> "date", args |-> {"+%Z"}] \in AllowedInvocations
BY OnlyMember DEF AllowedInvocations

\* Commands about file systems, and the files that are read.
LEMMA RunnerFiles ==
    /\ [path |-> "mount", args |-> {"-p"}] \in AllowedInvocations
    /\ [path |-> "df", args |-> {"-k"}] \in AllowedInvocations
    /\ [path |-> "cat", args |-> {"fstab"}] \in AllowedInvocations
    /\ [path |-> "cat", args |-> {"resolv.conf"}] \in AllowedInvocations
BY OnlyMember DEF AllowedInvocations

\* The packages.
LEMMA RunnerPackages ==
    /\ [path |-> "pkg", args |-> {"query", "%n-%v", "samba423"}] \in AllowedInvocations
    /\ [path |-> "pkg", args |-> {"info", "samba423"}] \in AllowedInvocations
    /\ [path |-> "pkg", args |-> {"query", "%n-%v", "cups"}] \in AllowedInvocations
<1> DEFINE asked == UNION {{{"query", "%n-%v", q}, {"info", "-q", q}, {"info", q}} :
                              q \in {"samba423", "cups"}}
<1>1. /\ {"query", "%n-%v", "samba423"} \in asked /\ {"info", "samba423"} \in asked
      /\ {"query", "%n-%v", "cups"} \in asked
  OBVIOUS
<1>2. Only("pkg", asked) \subseteq AllowedInvocations
  BY DEF AllowedInvocations
<1> HIDE DEF asked
<1> QED
  BY <1>1, <1>2, OnlyMember

\* Commands of Samba and the domain.
LEMMA RunnerSamba ==
    /\ [path |-> "smbd", args |-> {"-V"}] \in AllowedInvocations
    /\ [path |-> "testparm", args |-> {"-s"}] \in AllowedInvocations
    /\ [path |-> "smbstatus", args |-> {"--shares"}] \in AllowedInvocations
    /\ [path |-> "smbstatus", args |-> {"--locks"}] \in AllowedInvocations
    /\ [path |-> "wbinfo", args |-> {"--ping-dc"}] \in AllowedInvocations
BY OnlyMember DEF AllowedInvocations

\* Commands of CUPS.
LEMMA RunnerCups ==
    /\ [path |-> "cupsd", args |-> {"-t"}] \in AllowedInvocations
    /\ [path |-> "lpstat", args |-> {"-p"}] \in AllowedInvocations
    /\ [path |-> "lpstat", args |-> {"-v"}] \in AllowedInvocations
BY OnlyMember DEF AllowedInvocations

\* A call with the entry of the catalogue that covers it.
LEMMA CallIsGood ==
    ASSUME NEW m \in Methods, NEW need \in Needs, NEW path, NEW args, NEW listed,
           Cmd(path, listed) \in CommandsFor(m), args \subseteq listed,
           [path |-> path, args |-> args] \in AllowedInvocations,
           need = "probe" => Invocation(path, args) \in MinimalProbe[m],
           need = "gate" => m = "Domain"
    PROVE  Call(need, path, args) \in Good(m)
<1> DEFINE c == Call(need, path, args)
           x == Cmd(path, listed)
<1>1. c.need = need /\ c.path = path /\ c.args = args /\ c.section = "main"
  BY DEF Call
<1>2. x.path = path /\ x.args = listed /\ x \in CommandsFor(m)
  BY DEF Cmd
<1> HIDE DEF x
<1>3. c \in CallsOf(CommandsFor(m))
  BY <1>2 DEF Call, CallsOf, Sections
<1> HIDE DEF c
<1>4. Command(c) = [path |-> path, args |-> args]
  BY <1>1 DEF Command
<1>5. c \in Good(m)
  BY <1>1, <1>2, <1>3, <1>4 DEF Good, Invocation
<1> QED
  BY <1>5 DEF c

\* The same for a call whose failure the provider ignores.
LEMMA OptionalIsGood ==
    ASSUME NEW m \in Methods, NEW path, NEW args, NEW listed,
           Cmd(path, listed) \in CommandsFor(m), args \subseteq listed,
           [path |-> path, args |-> args] \in AllowedInvocations
    PROVE  Call("optional", path, args) \in Good(m)
BY CallIsGood DEF Needs

\* A method called by another one: its probes become gates of a section.
LEMMA WithinIsGood ==
    ASSUME NEW m \in Methods, NEW n \in Methods, CommandsFor(m) \subseteq CommandsFor(n),
           NEW section \in Sections, section # "main", NEW calls \in Seq(Good(m))
    PROVE  Within(section, calls) \in Seq(Good(n))
<1>1. ASSUME NEW c \in Good(m)
      PROVE  Inner(section, c) \in Good(n)
  <2> DEFINE d == Inner(section, c)
  <2>1. c \in CallsOf(CommandsFor(m))
    BY DEF Good
  <2>2. /\ d \in CallsOf(CommandsFor(n)) /\ d.path = c.path /\ d.args = c.args
        /\ d.section = section
        /\ d.need # "probe" /\ Command(d) = Command(c)
    BY <2>1 DEF Inner, CallsOf, Command, Needs
  <2> HIDE DEF d
  <2>3. d \in Good(n)
    BY <2>2 DEF Good
  <2> QED
    BY <2>3 DEF d
<1>2. /\ DOMAIN calls = 1..Len(calls) /\ Len(calls) \in Nat
      /\ \A i \in DOMAIN calls : calls[i] \in Good(m)
  OBVIOUS
<1>3. Within(section, calls) \in [1..Len(calls) -> Good(n)]
  BY <1>1, <1>2 DEF Within
<1> QED
  BY <1>2, <1>3

\* Each method by itself, call by call.
LEMMA ListIsGood == ListCalls \in Seq(Good("List"))
<1>1. /\ "List" \in Methods /\ CommandsFor("List") = filesystemCommands
      /\ MinimalProbe["List"] = {Invocation("mount", {"-p"})}
  BY DEF Methods, CommandsFor, MinimalProbe
<1>2. /\ Cmd("mount", {"-p"}) \in filesystemCommands
      /\ Cmd("df", {"-k"}) \in filesystemCommands
      /\ Cmd("cat", {"fstab"}) \in filesystemCommands
  BY DEF filesystemCommands
<1>3. Call("probe", "mount", {"-p"}) \in Good("List")
  BY <1>1, <1>2, RunnerFiles, CallIsGood DEF Needs
<1>4. Call("optional", "df", {"-k"}) \in Good("List")
  BY <1>1, <1>2, RunnerFiles, OptionalIsGood
<1>5. Call("optional", "cat", {"fstab"}) \in Good("List")
  BY <1>1, <1>2, RunnerFiles, OptionalIsGood
<1> QED
  BY <1>3, <1>4, <1>5 DEF ListCalls

\* Samba.
LEMMA SambaIsGood == SambaCalls \in Seq(Good("Samba"))
<1>1. /\ "Samba" \in Methods /\ CommandsFor("Samba") = sambaCommands
      /\ MinimalProbe["Samba"] = {Invocation("smbd", {"-V"})}
  BY DEF Methods, CommandsFor, MinimalProbe
<1>2. /\ Cmd("smbd", {"-V"}) \in sambaCommands
      /\ Cmd("pkg", {"query", "%n-%v", "samba423", "info"}) \in sambaCommands
      /\ Cmd("testparm", {"-s"}) \in sambaCommands
      /\ Cmd("smbstatus", {"--shares", "--locks"}) \in sambaCommands
  BY DEF sambaCommands
<1>3. Call("probe", "smbd", {"-V"}) \in Good("Samba")
  BY <1>1, <1>2, RunnerSamba, CallIsGood DEF Needs
<1>4. Call("optional", "pkg", {"query", "%n-%v", "samba423"}) \in Good("Samba")
  BY <1>1, <1>2, RunnerPackages, OptionalIsGood
<1>5. Call("optional", "pkg", {"info", "samba423"}) \in Good("Samba")
  BY <1>1, <1>2, RunnerPackages, OptionalIsGood
<1>6. Call("optional", "testparm", {"-s"}) \in Good("Samba")
  BY <1>1, <1>2, RunnerSamba, OptionalIsGood
<1>7. Call("optional", "smbstatus", {"--shares"}) \in Good("Samba")
  BY <1>1, <1>2, RunnerSamba, OptionalIsGood
<1>8. Call("optional", "smbstatus", {"--locks"}) \in Good("Samba")
  BY <1>1, <1>2, RunnerSamba, OptionalIsGood
<1> QED
  BY <1>3, <1>4, <1>5, <1>6, <1>7, <1>8 DEF SambaCalls

\* Domain.
LEMMA DomainIsGood == DomainCalls \in Seq(Good("Domain"))
<1>1. /\ "Domain" \in Methods /\ CommandsFor("Domain") = domainCommands
      /\ MinimalProbe["Domain"] = {}
  BY DEF Methods, CommandsFor, MinimalProbe
<1>2. /\ Cmd("testparm", {"-s"}) \in domainCommands
      /\ Cmd("cat", {"resolv.conf"}) \in domainCommands
      /\ Cmd("wbinfo", {"--ping-dc"}) \in domainCommands
  BY DEF domainCommands
<1>3. Call("gate", "testparm", {"-s"}) \in Good("Domain")
  BY <1>1, <1>2, RunnerSamba, CallIsGood DEF Needs
<1>4. Call("optional", "cat", {"resolv.conf"}) \in Good("Domain")
  BY <1>1, <1>2, RunnerFiles, OptionalIsGood
<1>5. Call("optional", "wbinfo", {"--ping-dc"}) \in Good("Domain")
  BY <1>1, <1>2, RunnerSamba, OptionalIsGood
<1> QED
  BY <1>3, <1>4, <1>5 DEF DomainCalls

\* Cups.
LEMMA CupsIsGood == CupsCalls \in Seq(Good("Cups"))
<1>1. /\ "Cups" \in Methods /\ CommandsFor("Cups") = cupsCommands
      /\ MinimalProbe["Cups"] = {Invocation("cupsd", {"-t"})}
  BY DEF Methods, CommandsFor, MinimalProbe
<1>2. /\ Cmd("pkg", {"query", "%n-%v", "cups"}) \in cupsCommands
      /\ Cmd("cupsd", {"-t"}) \in cupsCommands
      /\ Cmd("lpstat", {"-p", "-v"}) \in cupsCommands
  BY DEF cupsCommands
<1>3. Call("optional", "pkg", {"query", "%n-%v", "cups"}) \in Good("Cups")
  BY <1>1, <1>2, RunnerPackages, OptionalIsGood
<1>4. Call("probe", "cupsd", {"-t"}) \in Good("Cups")
  BY <1>1, <1>2, RunnerCups, CallIsGood DEF Needs
<1>5. Call("optional", "lpstat", {"-p"}) \in Good("Cups")
  BY <1>1, <1>2, RunnerCups, OptionalIsGood
<1>6. Call("optional", "lpstat", {"-v"}) \in Good("Cups")
  BY <1>1, <1>2, RunnerCups, OptionalIsGood
<1> QED
  BY <1>3, <1>4, <1>5, <1>6 DEF CupsCalls

\* Calls one after the other.
LEMMA ConcatIsGood ==
    ASSUME NEW m, NEW s \in Seq(Good(m)), NEW t \in Seq(Good(m))
    PROVE  s \o t \in Seq(Good(m))
OBVIOUS

\* Capabilities calls Samba and Domain.
LEMMA CapabilitiesIsGood == CapabilitiesCalls \in Seq(Good("Capabilities"))
<1>1. /\ {"Capabilities", "Samba", "Domain"} \subseteq Methods
      /\ CommandsFor("Capabilities") = capabilityCommands
      /\ CommandsFor("Samba") = sambaCommands /\ CommandsFor("Domain") = domainCommands
  BY DEF Methods, CommandsFor
<1>2. /\ Cmd("cat", {"fstab"}) \in capabilityCommands
      /\ Cmd("cupsd", {"-t"}) \in capabilityCommands
      /\ sambaCommands \subseteq capabilityCommands
      /\ domainCommands \subseteq capabilityCommands
  BY DEF capabilityCommands
<1>3. Call("optional", "cat", {"fstab"}) \in Good("Capabilities")
  BY <1>1, <1>2, RunnerFiles, OptionalIsGood
<1>4. Call("optional", "cupsd", {"-t"}) \in Good("Capabilities")
  BY <1>1, <1>2, RunnerCups, OptionalIsGood
<1>5. <<Call("optional", "cat", {"fstab"}), Call("optional", "cupsd", {"-t"})>>
         \in Seq(Good("Capabilities"))
  BY <1>3, <1>4
<1>6. /\ Within("samba", SambaCalls) \in Seq(Good("Capabilities"))
      /\ Within("domain", DomainCalls) \in Seq(Good("Capabilities"))
  BY <1>1, <1>2, SambaIsGood, DomainIsGood, WithinIsGood DEF Sections
<1> QED
  BY <1>5, <1>6, ConcatIsGood DEF CapabilitiesCalls

\* The calls of Inspect that are its own, before, between and after the
\* methods it calls.
OwnCalls == <<Call("probe", "hostname", {}),
              Call("probe", "sysctl", {"-n", "kern.osrelease"}),
              Call("optional", "sysctl", {"-n", "hw.machine"}),
              Call("optional", "sysctl", {"-n", "hw.ncpu"}),
              Call("optional", "sysctl", {"-n", "hw.physmem"})>>
NetCalls == <<Call("optional", "ifconfig", {"-l"})>>
LastCalls == <<Call("optional", "hostname", {"-f"}),
               Call("optional", "ntpq", {"-pn"}),
               Call("optional", "cat", {"resolv.conf"}),
               Call("optional", "uptime", {}),
               Call("optional", "sysctl", {"-n", "vm.loadavg"}),
               Call("optional", "cat", {"resolv.conf"}),
               Call("optional", "ntpq", {"-pn"}),
               Call("optional", "date", {"+%Z"})>>

\* What the catalogue lists for sysctl.
SysctlArguments ==
    {"-n", "kern.osrelease", "hw.machine", "hw.ncpu", "hw.physmem", "vm.loadavg"}

\* Inspect calls List, Samba, Domain and Cups between its own commands.
LEMMA InspectParts ==
    /\ OwnCalls \in Seq(Good("Inspect")) /\ NetCalls \in Seq(Good("Inspect"))
    /\ LastCalls \in Seq(Good("Inspect"))
    /\ Within("list", ListCalls) \in Seq(Good("Inspect"))
    /\ Within("samba", SambaCalls) \in Seq(Good("Inspect"))
    /\ Within("domain", DomainCalls) \in Seq(Good("Inspect"))
    /\ Within("cups", CupsCalls) \in Seq(Good("Inspect"))
    /\ InspectCalls = OwnCalls \o Within("list", ListCalls) \o Within("samba", SambaCalls)
                       \o Within("domain", DomainCalls) \o NetCalls \o Within("cups", CupsCalls)
                       \o LastCalls
<1>1. /\ {"Inspect", "List", "Samba", "Domain", "Cups"} \subseteq Methods
      /\ CommandsFor("Inspect") = systemCommands
      /\ CommandsFor("List") = filesystemCommands /\ CommandsFor("Samba") = sambaCommands
      /\ CommandsFor("Domain") = domainCommands /\ CommandsFor("Cups") = cupsCommands
      /\ Invocation("hostname", {}) \in MinimalProbe["Inspect"]
      /\ Invocation("sysctl", {"-n", "kern.osrelease"}) \in MinimalProbe["Inspect"]
  BY DEF Methods, CommandsFor, MinimalProbe
<1>2. /\ Cmd("hostname", {"-f"}) \in systemCommands
      /\ Cmd("sysctl", SysctlArguments) \in systemCommands
      /\ Cmd("ifconfig", {"-l"}) \in systemCommands /\ Cmd("uptime", {}) \in systemCommands
      /\ Cmd("ntpq", {"-pn"}) \in systemCommands /\ Cmd("date", {"+%Z"}) \in systemCommands
      /\ Cmd("cat", {"resolv.conf"}) \in systemCommands
      /\ filesystemCommands \subseteq systemCommands /\ sambaCommands \subseteq systemCommands
      /\ domainCommands \subseteq systemCommands /\ cupsCommands \subseteq systemCommands
  BY DEF systemCommands, domainCommands, SysctlArguments
<1>3. Call("probe", "hostname", {}) \in Good("Inspect")
  BY <1>1, <1>2, RunnerSystem, CallIsGood DEF Needs
<1>4. Call("probe", "sysctl", {"-n", "kern.osrelease"}) \in Good("Inspect")
  <2>1. {"-n", "kern.osrelease"} \subseteq SysctlArguments
    BY DEF SysctlArguments
  <2>2. [path |-> "sysctl", args |-> {"-n", "kern.osrelease"}] \in AllowedInvocations
    BY RunnerSystem
  <2> QED
    BY <1>1, <1>2, <2>1, <2>2, CallIsGood DEF Needs
<1>5. Call("optional", "sysctl", {"-n", "hw.machine"}) \in Good("Inspect")
  <2>1. {"-n", "hw.machine"} \subseteq SysctlArguments
    BY DEF SysctlArguments
  <2>2. [path |-> "sysctl", args |-> {"-n", "hw.machine"}] \in AllowedInvocations
    BY RunnerSystem
  <2> QED
    BY <1>1, <1>2, <2>1, <2>2, OptionalIsGood
<1>6. Call("optional", "sysctl", {"-n", "hw.ncpu"}) \in Good("Inspect")
  <2>1. {"-n", "hw.ncpu"} \subseteq SysctlArguments
    BY DEF SysctlArguments
  <2>2. [path |-> "sysctl", args |-> {"-n", "hw.ncpu"}] \in AllowedInvocations
    BY RunnerSystem
  <2> QED
    BY <1>1, <1>2, <2>1, <2>2, OptionalIsGood
<1>7. Call("optional", "sysctl", {"-n", "hw.physmem"}) \in Good("Inspect")
  <2>1. {"-n", "hw.physmem"} \subseteq SysctlArguments
    BY DEF SysctlArguments
  <2>2. [path |-> "sysctl", args |-> {"-n", "hw.physmem"}] \in AllowedInvocations
    BY RunnerSystem
  <2> QED
    BY <1>1, <1>2, <2>1, <2>2, OptionalIsGood
<1>8. Call("optional", "ifconfig", {"-l"}) \in Good("Inspect")
  BY <1>1, <1>2, RunnerSystem, OptionalIsGood
<1>9. Call("optional", "hostname", {"-f"}) \in Good("Inspect")
  BY <1>1, <1>2, RunnerSystem, OptionalIsGood
<1>10. Call("optional", "ntpq", {"-pn"}) \in Good("Inspect")
  BY <1>1, <1>2, RunnerSystem, OptionalIsGood
<1>11. Call("optional", "cat", {"resolv.conf"}) \in Good("Inspect")
  BY <1>1, <1>2, RunnerFiles, OptionalIsGood
<1>12. Call("optional", "uptime", {}) \in Good("Inspect")
  BY <1>1, <1>2, RunnerSystem, OptionalIsGood
<1>13. Call("optional", "sysctl", {"-n", "vm.loadavg"}) \in Good("Inspect")
  <2>1. {"-n", "vm.loadavg"} \subseteq SysctlArguments
    BY DEF SysctlArguments
  <2>2. [path |-> "sysctl", args |-> {"-n", "vm.loadavg"}] \in AllowedInvocations
    BY RunnerSystem
  <2> QED
    BY <1>1, <1>2, <2>1, <2>2, OptionalIsGood
<1>14. Call("optional", "date", {"+%Z"}) \in Good("Inspect")
  BY <1>1, <1>2, RunnerSystem, OptionalIsGood
<1>15. OwnCalls \in Seq(Good("Inspect"))
  BY <1>3, <1>4, <1>5, <1>6, <1>7 DEF OwnCalls
<1>16. NetCalls \in Seq(Good("Inspect"))
  BY <1>8 DEF NetCalls
<1>17. LastCalls \in Seq(Good("Inspect"))
  BY <1>9, <1>10, <1>11, <1>12, <1>13, <1>14 DEF LastCalls
<1>18. /\ Within("list", ListCalls) \in Seq(Good("Inspect"))
       /\ Within("samba", SambaCalls) \in Seq(Good("Inspect"))
       /\ Within("domain", DomainCalls) \in Seq(Good("Inspect"))
       /\ Within("cups", CupsCalls) \in Seq(Good("Inspect"))
  BY <1>1, <1>2, ListIsGood, SambaIsGood, DomainIsGood, CupsIsGood, WithinIsGood DEF Sections
<1>19. InspectCalls = OwnCalls \o Within("list", ListCalls) \o Within("samba", SambaCalls)
                       \o Within("domain", DomainCalls) \o NetCalls \o Within("cups", CupsCalls)
                       \o LastCalls
  BY DEF InspectCalls, OwnCalls, NetCalls, LastCalls
<1> QED
  BY <1>15, <1>16, <1>17, <1>18, <1>19

\* So all of Inspect is listed.
LEMMA InspectIsGood == InspectCalls \in Seq(Good("Inspect"))
BY InspectParts, ConcatIsGood

\* Every method of the provider.
LEMMA CallsAreGood ==
    ASSUME NEW m \in Methods
    PROVE  Calls(m) \in Seq(Good(m))
BY ListIsGood, SambaIsGood, DomainIsGood, CupsIsGood, CapabilitiesIsGood, InspectIsGood
   DEF Methods, Calls

\* Appending calls moves none.
LEMMA ConcatKeeps ==
    ASSUME NEW m, NEW s \in Seq(Good(m)), NEW t \in Seq(Good(m)), NEW i \in DOMAIN s
    PROVE  s \o t \in Seq(Good(m)) /\ i \in DOMAIN (s \o t) /\ (s \o t)[i] = s[i]
OBVIOUS

\* Inspect starts with its own calls.
LEMMA InspectStarts ==
    ASSUME NEW i \in DOMAIN OwnCalls
    PROVE  i \in DOMAIN InspectCalls /\ InspectCalls[i] = OwnCalls[i]
<1> DEFINE G == Seq(Good("Inspect"))
           s1 == OwnCalls \o Within("list", ListCalls)
           s2 == s1 \o Within("samba", SambaCalls)
           s3 == s2 \o Within("domain", DomainCalls)
           s4 == s3 \o NetCalls
           s5 == s4 \o Within("cups", CupsCalls)
<1>1. s1 \in G /\ i \in DOMAIN s1 /\ s1[i] = OwnCalls[i]
  BY InspectParts, ConcatKeeps
<1> HIDE DEF s1
<1>2. s2 \in G /\ i \in DOMAIN s2 /\ s2[i] = OwnCalls[i]
  BY <1>1, InspectParts, ConcatKeeps
<1> HIDE DEF s2
<1>3. s3 \in G /\ i \in DOMAIN s3 /\ s3[i] = OwnCalls[i]
  BY <1>2, InspectParts, ConcatKeeps
<1> HIDE DEF s3
<1>4. s4 \in G /\ i \in DOMAIN s4 /\ s4[i] = OwnCalls[i]
  BY <1>3, InspectParts, ConcatKeeps
<1> HIDE DEF s4
<1>5. s5 \in G /\ i \in DOMAIN s5 /\ s5[i] = OwnCalls[i]
  BY <1>4, InspectParts, ConcatKeeps
<1> HIDE DEF s5
<1>6. InspectCalls = s5 \o LastCalls
  BY InspectParts DEF s1, s2, s3, s4, s5
<1>7. LastCalls \in G
  BY InspectParts
<1> QED
  BY <1>5, <1>6, <1>7, ConcatKeeps

\* Every command that a handler calls the minimal probe is a probe.
LEMMA ProbesAreCalls ==
    ASSUME NEW m \in Methods, NEW p \in MinimalProbe[m]
    PROVE  \E i \in DOMAIN Calls(m) : Calls(m)[i].need = "probe" /\ Command(Calls(m)[i]) = p
<1>1. ASSUME NEW path, NEW args
      PROVE  /\ Call("probe", path, args).need = "probe"
             /\ Command(Call("probe", path, args)) = Invocation(path, args)
  BY DEF Call, Command, Invocation
<1>2. CASE m = "Inspect"
  <2>1. /\ Calls(m) = InspectCalls
        /\ p \in {Invocation("hostname", {}), Invocation("sysctl", {"-n", "kern.osrelease"})}
    BY <1>2 DEF Calls, MinimalProbe
  <2>2. /\ 1 \in DOMAIN OwnCalls /\ OwnCalls[1] = Call("probe", "hostname", {})
        /\ 2 \in DOMAIN OwnCalls
        /\ OwnCalls[2] = Call("probe", "sysctl", {"-n", "kern.osrelease"})
    BY DEF OwnCalls
  <2> QED
    BY <1>1, <2>1, <2>2, InspectStarts
<1>3. CASE m = "List"
  <2>1. Calls(m) = ListCalls /\ p = Invocation("mount", {"-p"})
    BY <1>3 DEF Calls, MinimalProbe
  <2>2. 1 \in DOMAIN ListCalls /\ ListCalls[1] = Call("probe", "mount", {"-p"})
    BY DEF ListCalls
  <2> QED
    BY <1>1, <2>1, <2>2
<1>4. CASE m = "Samba"
  <2>1. Calls(m) = SambaCalls /\ p = Invocation("smbd", {"-V"})
    BY <1>4 DEF Calls, MinimalProbe
  <2>2. 1 \in DOMAIN SambaCalls /\ SambaCalls[1] = Call("probe", "smbd", {"-V"})
    BY DEF SambaCalls
  <2> QED
    BY <1>1, <2>1, <2>2
<1>5. CASE m = "Cups"
  <2>1. Calls(m) = CupsCalls /\ p = Invocation("cupsd", {"-t"})
    BY <1>5 DEF Calls, MinimalProbe
  <2>2. 2 \in DOMAIN CupsCalls /\ CupsCalls[2] = Call("probe", "cupsd", {"-t"})
    BY DEF CupsCalls
  <2> QED
    BY <1>1, <2>1, <2>2
<1>6. CASE m \in {"Domain", "Capabilities"}
  BY <1>6 DEF MinimalProbe
<1> QED
  BY <1>2, <1>3, <1>4, <1>5, <1>6 DEF Methods

\* What is used of the calls of a method from here on: they are allowed, and
\* no gate can skip a probe.
LEMMA CallFacts ==
    ASSUME NEW m \in Methods, NEW i \in DOMAIN Calls(m)
    PROVE  /\ i \in Nat /\ i > 0
           /\ commandAllowed(Operation[m], Calls(m)[i].path, Calls(m)[i].args)
           /\ allowedReadOnlyInvocation(Command(Calls(m)[i]))
           /\ Calls(m)[i].need \in Needs
           /\ Calls(m)[i].need = "probe" =>
                 /\ Command(Calls(m)[i]) \in MinimalProbe[m]
                 /\ \A j \in DOMAIN Calls(m) :
                       Calls(m)[j].need = "gate" => Calls(m)[j].section # Calls(m)[i].section
<1> DEFINE calls == Calls(m)
<1>1. /\ calls \in Seq(Good(m)) /\ i \in DOMAIN calls
      /\ \A j \in DOMAIN calls : calls[j] \in Good(m) /\ j \in Nat /\ j > 0
  <2>1. calls \in Seq(Good(m))
    BY CallsAreGood
  <2> HIDE DEF calls
  <2>2. \A j \in DOMAIN calls : calls[j] \in Good(m) /\ j \in Nat /\ j > 0
    BY <2>1
  <2> QED
    BY <2>1, <2>2 DEF calls
<1> HIDE DEF calls
<1>2. MinimalProbe["Domain"] = {}
  BY DEF MinimalProbe
<1>3. /\ calls[i].need \in Needs
      /\ calls[i].need = "probe" =>
            /\ Command(calls[i]) \in MinimalProbe[m] /\ m # "Domain"
            /\ calls[i].section = "main"
  BY <1>1, <1>2 DEF Good, CallsOf
<1>4. \A j \in DOMAIN calls : calls[j].need = "gate" => calls[j].section # "main" \/ m = "Domain"
  BY <1>1 DEF Good
<1>5. /\ commandAllowed(Operation[m], calls[i].path, calls[i].args)
      /\ allowedReadOnlyInvocation(Command(calls[i]))
  BY <1>1, GoodIsAllowed
<1> QED
  BY <1>1, <1>3, <1>4, <1>5 DEF calls

-----------------------------------------------------------------------------
(***************************************************************************)
(* What a method comes to when the same commands fail from its first call  *)
(* to its last.                                                            *)
(***************************************************************************)
\* The gate at j fails and takes the call at i with it.
Blocks(m, B, j, i) ==
    /\ j < i /\ Calls(m)[j].need = "gate" /\ Command(Calls(m)[j]) \in B
    /\ Calls(m)[j].section = Calls(m)[i].section

Reached(m, B) ==
    {i \in DOMAIN Calls(m) : \A j \in DOMAIN Calls(m) : ~Blocks(m, B, j, i)}

OkOf(m, B) == {Command(Calls(m)[i]) : i \in Reached(m, B)} \ B

ErrorOf(m, B) ==
    \E i \in DOMAIN Calls(m) : Calls(m)[i].need = "probe" /\ Command(Calls(m)[i]) \in B

Outcome(m, B) ==
    [error |-> ErrorOf(m, B), ok |-> IF ErrorOf(m, B) THEN {} ELSE OkOf(m, B)]

\* The first n calls have been decided, T is left and K has succeeded.
Decided(m, B, n, T, K) ==
    /\ T = {i \in DOMAIN Calls(m) :
              i > n /\ \A j \in DOMAIN Calls(m) : j <= n => ~Blocks(m, B, j, i)}
    /\ K = {Command(Calls(m)[i]) : i \in {x \in Reached(m, B) : x <= n}} \ B
    /\ \A i \in DOMAIN Calls(m) :
          i <= n /\ Calls(m)[i].need = "probe" => Command(Calls(m)[i]) \notin B

Progress(m, B, T, K) == \E n \in 0..Len(Calls(m)) : Decided(m, B, n, T, K)

\* The calls of a method are a sequence.
LEMMA CallPositions ==
    ASSUME NEW m \in Methods
    PROVE  DOMAIN Calls(m) = 1..Len(Calls(m)) /\ Len(Calls(m)) \in Nat
BY CallsAreGood

\* A method that has not started.
LEMMA ProgressStart ==
    ASSUME NEW m \in Methods, NEW B
    PROVE  Progress(m, B, DOMAIN Calls(m), {})
<1>1. 0 \in 0..Len(Calls(m)) /\ \A i \in DOMAIN Calls(m) : i \in Nat /\ i > 0
  BY CallPositions
<1>2. {x \in Reached(m, B) : x <= 0} = {}
  BY <1>1 DEF Reached
<1>3. DOMAIN Calls(m) = {i \in DOMAIN Calls(m) :
              i > 0 /\ \A j \in DOMAIN Calls(m) : j <= 0 => ~Blocks(m, B, j, i)}
  BY <1>1
<1>4. Decided(m, B, 0, DOMAIN Calls(m), {})
  BY <1>1, <1>2, <1>3 DEF Decided
<1> QED
  BY <1>1, <1>4 DEF Progress

\* A gate that was skipped takes nothing with it that is not skipped already.
LEMMA BlocksTransitive ==
    ASSUME NEW m \in Methods, NEW B, NEW i \in DOMAIN Calls(m), NEW j \in DOMAIN Calls(m),
           NEW k \in DOMAIN Calls(m), Blocks(m, B, i, j), Blocks(m, B, j, k)
    PROVE  Blocks(m, B, i, k)
<1>1. i \in Nat /\ j \in Nat /\ k \in Nat
  BY CallFacts
<1> QED
  BY <1>1 DEF Blocks

\* One call more.
LEMMA ProgressStep ==
    ASSUME NEW m \in Methods, NEW B, NEW T, NEW K, Progress(m, B, T, K), NEW i \in First(T),
           NEW succeeded, succeeded <=> Command(Calls(m)[i]) \notin B,
           ~Fails(Calls(m)[i], succeeded)
    PROVE  Progress(m, B, Remaining(Calls(m), T, i, succeeded),
                    IF succeeded THEN K \cup {Command(Calls(m)[i])} ELSE K)
<1> DEFINE D == DOMAIN Calls(m)
           c == Command(Calls(m)[i])
           rest == Remaining(Calls(m), T, i, succeeded)
<1>1. PICK n \in 0..Len(Calls(m)) : Decided(m, B, n, T, K)
  BY DEF Progress
<1>2. /\ i \in D /\ i > n /\ i \in T
      /\ \A j \in D : j <= n => ~Blocks(m, B, j, i)
      /\ \A j \in T : i <= j
  BY <1>1 DEF First, Decided
<1>3. D = 1..Len(Calls(m)) /\ Len(Calls(m)) \in Nat /\ n \in Nat /\ i \in Nat
  BY <1>2, CallPositions
\* The calls between are skipped.
<1>4. ASSUME NEW j \in D, n < j, j < i
      PROVE  \E l \in D : l <= n /\ Blocks(m, B, l, j)
  BY <1>1, <1>2, <1>3, <1>4 DEF Decided
<1>5. ASSUME NEW k \in D, \A l \in D : l <= n => ~Blocks(m, B, l, k), NEW j \in D, j < i
      PROVE  ~Blocks(m, B, j, k)
  <2>1. CASE j <= n
    BY <1>5, <2>1
  <2>2. CASE n < j
    <3>1. PICK l \in D : l <= n /\ Blocks(m, B, l, j)
      BY <1>4, <1>5, <2>2
    <3> QED
      BY <1>5, <3>1, BlocksTransitive
  <2> QED
    BY <1>3, <2>1, <2>2
<1>6. i \in Reached(m, B)
  <2>1. ASSUME NEW j \in D
        PROVE  ~Blocks(m, B, j, i)
    <3>1. CASE j < i
      BY <1>2, <1>5, <3>1
    <3>2. CASE ~(j < i)
      BY <3>2 DEF Blocks
    <3> QED
      BY <3>1, <3>2
  <2> QED
    BY <1>2, <2>1 DEF Reached
<1>7. rest = {k \in D : k > i /\ \A j \in D : j <= i => ~Blocks(m, B, j, k)}
  <2>1. ASSUME NEW k \in rest
        PROVE  k \in D /\ k > i /\ \A j \in D : j <= i => ~Blocks(m, B, j, k)
    <3>1. k \in T /\ k # i
      BY DEF Remaining
    <3>2. /\ k \in D /\ k > i
          /\ \A l \in D : l <= n => ~Blocks(m, B, l, k)
      BY <1>1, <1>2, <1>3, <3>1 DEF Decided
    <3>3. ~Blocks(m, B, i, k)
      BY DEF Remaining, Blocks
    <3> QED
      BY <1>3, <1>5, <3>2, <3>3
  <2>2. ASSUME NEW k \in D, k > i, \A j \in D : j <= i => ~Blocks(m, B, j, k)
        PROVE  k \in rest
    <3>1. k \in T /\ k # i
      BY <1>1, <1>2, <1>3, <2>2 DEF Decided
    <3>2. ~Blocks(m, B, i, k)
      BY <1>2, <1>3, <2>2
    <3>3. Calls(m)[i].need \in {"gate", "optional"} \/ succeeded
      BY <1>2, CallFacts DEF Fails, Needs
    <3> QED
      BY <2>2, <3>1, <3>2, <3>3 DEF Remaining, Blocks
  <2> QED
    BY <2>1, <2>2
<1>8. (IF succeeded THEN K \cup {c} ELSE K)
         = {Command(Calls(m)[k]) : k \in {x \in Reached(m, B) : x <= i}} \ B
  <2>1. ASSUME NEW k \in Reached(m, B)
        PROVE  k <= i <=> k <= n \/ k = i
    <3>1. k \in D
      BY DEF Reached
    <3>2. ~(n < k /\ k < i)
      BY <1>4, <3>1 DEF Reached
    <3> QED
      BY <1>2, <1>3, <3>1, <3>2
  <2>2. {x \in Reached(m, B) : x <= i} = {x \in Reached(m, B) : x <= n} \cup {i}
    BY <1>6, <2>1
  <2>3. K = {Command(Calls(m)[k]) : k \in {x \in Reached(m, B) : x <= n}} \ B
    BY <1>1 DEF Decided
  <2> QED
    BY <2>2, <2>3
<1>9. ASSUME NEW k \in D, k <= i, Calls(m)[k].need = "probe"
      PROVE  Command(Calls(m)[k]) \notin B
  <2>1. CASE k <= n
    BY <1>1, <1>9, <2>1 DEF Decided
  <2>2. CASE k = i
    BY <1>9, <2>2 DEF Fails
  <2>3. CASE n < k /\ k < i
    <3>1. PICK l \in D : l <= n /\ Blocks(m, B, l, k)
      BY <1>4, <2>3
    <3> QED
      BY <1>9, <3>1, CallFacts DEF Blocks
  <2> QED
    BY <1>3, <1>9, <2>1, <2>2, <2>3
<1>10. Decided(m, B, i, rest, IF succeeded THEN K \cup {c} ELSE K)
  BY <1>7, <1>8, <1>9 DEF Decided
<1>11. i \in 0..Len(Calls(m))
  BY <1>2, <1>3
<1> QED
  BY <1>10, <1>11 DEF Progress

\* A method that has come to its end has met no failing probe.
LEMMA ProgressEnd ==
    ASSUME NEW m \in Methods, NEW B, NEW K, Progress(m, B, {}, K)
    PROVE  K = OkOf(m, B) /\ ~ErrorOf(m, B) /\ Outcome(m, B) = [error |-> FALSE, ok |-> K]
<1> DEFINE D == DOMAIN Calls(m)
<1>1. PICK n \in 0..Len(Calls(m)) : Decided(m, B, n, {}, K)
  BY DEF Progress
<1>2. D = 1..Len(Calls(m)) /\ Len(Calls(m)) \in Nat /\ n \in Nat
  BY CallPositions
<1>3. ASSUME NEW i \in D, i > n
      PROVE  \E j \in D : Blocks(m, B, j, i)
  BY <1>1, <1>3 DEF Decided
<1>4. {x \in Reached(m, B) : x <= n} = Reached(m, B)
  BY <1>2, <1>3 DEF Reached
<1>5. K = OkOf(m, B)
  BY <1>1, <1>4 DEF Decided, OkOf
<1>6. ~ErrorOf(m, B)
  <2> SUFFICES ASSUME NEW i \in D, Calls(m)[i].need = "probe", Command(Calls(m)[i]) \in B
               PROVE  FALSE
    BY DEF ErrorOf
  <2>1. i > n
    BY <1>1, <1>2 DEF Decided
  <2>2. PICK j \in D : Blocks(m, B, j, i)
    BY <1>3, <2>1
  <2> QED
    BY <2>2, CallFacts DEF Blocks
<1>7. ErrorOf(m, B) = FALSE
  BY <1>6 DEF ErrorOf
<1> QED
  BY <1>5, <1>6, <1>7 DEF Outcome

\* What was captured on a host where B fails stands for that host.
LEMMA CapturedReplays ==
    ASSUME NEW m \in Methods, NEW B, NEW C, C \cap B = {},
           ~ErrorOf(m, B) => OkOf(m, B) \subseteq C
    PROVE  Outcome(m, CommandsOf(m) \ C) = Outcome(m, B)
<1> DEFINE D == DOMAIN Calls(m)
           R == CommandsOf(m) \ C
<1>1. \A i \in D : /\ Command(Calls(m)[i]) \in B => Command(Calls(m)[i]) \in R
                   /\ Command(Calls(m)[i]) \in R <=> Command(Calls(m)[i]) \notin C
  BY DEF CommandsOf
<1>2. ErrorOf(m, B) => ErrorOf(m, R)
  BY <1>1 DEF ErrorOf
<1>3. ASSUME ~ErrorOf(m, B)
      PROVE  ~ErrorOf(m, R) /\ OkOf(m, R) = OkOf(m, B)
  <2>1. \A i \in Reached(m, B) :
           i \in D /\ (Command(Calls(m)[i]) \in B <=> Command(Calls(m)[i]) \in R)
    BY <1>1, <1>3 DEF OkOf, Reached
  <2>2. Reached(m, R) \subseteq Reached(m, B)
    BY <1>1 DEF Reached, Blocks
  <2>3. ASSUME NEW i \in Reached(m, B), NEW j \in D, Blocks(m, R, j, i)
        PROVE  FALSE
    <3>1. i \in D
      BY DEF Reached
    <3>2. CASE j \in Reached(m, B)
      <4>1. Blocks(m, B, j, i)
        BY <2>1, <2>3, <3>2 DEF Blocks
      <4> QED
        BY <4>1 DEF Reached
    <3>3. CASE j \notin Reached(m, B)
      <4>1. PICK l \in D : Blocks(m, B, l, j)
        BY <3>3 DEF Reached
      <4>2. l \in Nat /\ j \in Nat /\ i \in Nat
        BY <3>1, CallFacts
      <4>3. Blocks(m, B, l, i)
        BY <2>3, <4>1, <4>2 DEF Blocks
      <4> QED
        BY <4>3 DEF Reached
    <3> QED
      BY <3>2, <3>3
  <2>4. Reached(m, R) = Reached(m, B)
    BY <2>1, <2>2, <2>3 DEF Reached
  <2>5. OkOf(m, R) = OkOf(m, B)
    BY <2>1, <2>4 DEF OkOf
  <2>6. ASSUME NEW i \in D, Calls(m)[i].need = "probe"
        PROVE  Command(Calls(m)[i]) \notin R
    <3>1. i \in Reached(m, B)
      BY <2>6, CallFacts DEF Reached, Blocks
    <3> QED
      BY <1>3, <2>1, <2>6, <3>1 DEF ErrorOf
  <2> QED
    BY <2>5, <2>6 DEF ErrorOf
<1>4. ErrorOf(m, R) = ErrorOf(m, B)
  BY <1>2, <1>3 DEF ErrorOf
<1>5. CASE ErrorOf(m, B)
  BY <1>4, <1>5 DEF Outcome
<1>6. CASE ~ErrorOf(m, B)
  BY <1>3, <1>4, <1>6 DEF Outcome
<1> QED
  BY <1>5, <1>6

-----------------------------------------------------------------------------
(***************************************************************************)
(* The inductive invariant.                                                *)
(***************************************************************************)
\* While a fixture is collected nobody is served; configurations over a
\* fixture serve when there is one, the others when none is needed.
ControlInv ==
    /\ stage \in {"none", "collect", "write", "open", "opened", "stopped"}
    /\ phase \in {"down", "idle", "collecting", "answered"}
    /\ phase = "down" <=> stage \notin {"none", "opened"}
    /\ turn \in 1..7 /\ (stage \in {"write", "open"} => turn = 7 /\ ok = {})
    /\ method \in Methods /\ changes \in Nat /\ DOMAIN original = Methods
    /\ answer # "none" <=> phase = "answered"
    /\ phase # "down" =>
          /\ adapter \in Adapters /\ executor \in Executors
          /\ agentUp \in BOOLEAN
          /\ agentUp => Remote
          /\ ~agentUp => executor = "mock"
          /\ stage = "opened" <=> OverFixture

\* A probe of the method that is served has still to come or has succeeded.
ProbeInv ==
    phase = "collecting" =>
       /\ todo \subseteq DOMAIN Calls(method)
       /\ Remote => agentUp
       /\ (Remote => executor # "mock") =>
             \A i \in DOMAIN Calls(method) :
                Calls(method)[i].need = "probe" => i \in todo \/ Command(Calls(method)[i]) \in ok

\* On a host that has not changed the methods so far have come to what the
\* failing commands make of them, and what succeeded is captured.
CollectedInv ==
    stage = "collect" =>
       /\ turn <= 6 => todo \subseteq DOMAIN Calls(Order[turn])
       /\ turn = 7 => todo = {} /\ ok = {}
       /\ Steady =>
             /\ captured \cap broken = {}
             /\ \A k \in 1..6 : k < turn =>
                   /\ original[Order[k]] = Outcome(Order[k], broken)
                   /\ ~ErrorOf(Order[k], broken) => OkOf(Order[k], broken) \subseteq captured
             /\ turn <= 6 => Progress(Order[turn], broken, todo, ok) /\ ok \subseteq captured

\* What is captured stands for the host.
FileInv ==
    Steady /\ stage \in {"write", "open", "opened"} =>
       \A m \in Methods : original[m] = Outcome(m, CommandsOf(m) \ captured)

\* The replay of a method is on its way to what the capture makes of it.
ReplayInv ==
    Steady /\ stage = "opened" /\ phase = "collecting" =>
       /\ broken = CommandsOf(method) \ captured
       /\ Progress(method, broken, todo, ok)

InventoryInv ==
    /\ ControlInv /\ ProbeInv /\ CollectedInv /\ FileInv /\ ReplayInv
    /\ ListsCoverProvider /\ AnswerFollowsProbe /\ SteadyHostReplays

\* Collect calls every method once.
LEMMA OrderFacts ==
    /\ \A k \in 1..6 : Order[k] \in Methods
    /\ \A j, k \in 1..6 : j # k => Order[j] # Order[k]
    /\ \A m \in Methods : \E k \in 1..6 : Order[k] = m
<1>1. /\ Order[1] = "Inspect" /\ Order[2] = "List" /\ Order[3] = "Samba"
      /\ Order[4] = "Domain" /\ Order[5] = "Cups" /\ Order[6] = "Capabilities"
  BY DEF Order
<1>2. \A k \in 1..6 : k \in {1, 2, 3, 4, 5, 6}
  OBVIOUS
<1>3. {1, 2, 3, 4, 5, 6} \subseteq 1..6
  OBVIOUS
<1>4. \A k \in 1..6 : Order[k] \in Methods
  BY <1>1, <1>2 DEF Methods
<1>5. \A j, k \in 1..6 : j # k => Order[j] # Order[k]
  BY <1>1, <1>2
<1>6. \A m \in Methods : \E k \in 1..6 : Order[k] = m
  BY <1>1, <1>3 DEF Methods
<1> QED
  BY <1>4, <1>5, <1>6

\* Collect has stored what a method returned, and the next one starts.
LEMMA ReturnStep ==
    ASSUME InventoryInv, stage = "collect", turn \in 1..6,
           NEW error, NEW commands, Return(error, commands),
           stage' = stage, broken' = broken, changes' = changes /\ (Steady' <=> Steady),
           Steady =>
              /\ captured \subseteq captured' /\ captured' \cap broken = {}
              /\ Outcome(Order[turn], broken) =
                    [error |-> error, ok |-> IF error THEN {} ELSE commands]
              /\ ~ErrorOf(Order[turn], broken) => OkOf(Order[turn], broken) \subseteq captured'
    PROVE  CollectedInv' /\ turn' \in 1..7 /\ DOMAIN original' = Methods
<1>1. /\ turn' = turn + 1 /\ ok' = {}
      /\ todo' = IF turn < 6 THEN DOMAIN Calls(Order[turn + 1]) ELSE {}
      /\ original' = [original EXCEPT ![Order[turn]] =
                        [error |-> error, ok |-> IF error THEN {} ELSE commands]]
  BY DEF Return
<1>2. DOMAIN original = Methods
  BY DEF InventoryInv, ControlInv
<1>3. turn' \in 1..7 /\ DOMAIN original' = Methods
  BY <1>1, <1>2
<1>4. turn' <= 6 => turn < 6 /\ turn' \in 1..6 /\ todo' = DOMAIN Calls(Order[turn'])
  BY <1>1, <1>3
<1>5. turn' = 7 => todo' = {} /\ ok' = {}
  BY <1>1
<1>6. ASSUME Steady, NEW k \in 1..6, k < turn'
      PROVE  /\ original'[Order[k]] = Outcome(Order[k], broken)
             /\ ~ErrorOf(Order[k], broken) => OkOf(Order[k], broken) \subseteq captured'
  <2>1. CASE k = turn
    BY <1>1, <1>2, <1>6, <2>1, OrderFacts
  <2>2. CASE k < turn
    <3>1. /\ original[Order[k]] = Outcome(Order[k], broken)
          /\ ~ErrorOf(Order[k], broken) => OkOf(Order[k], broken) \subseteq captured
      BY <1>6, <2>2 DEF InventoryInv, CollectedInv
    <3>2. Order[k] # Order[turn] /\ Order[k] \in Methods
      BY <2>2, OrderFacts
    <3>3. original'[Order[k]] = original[Order[k]]
      BY <1>1, <1>2, <3>2
    <3> QED
      BY <1>6, <3>1, <3>3
  <2> QED
    BY <1>1, <1>6, <2>1, <2>2
<1>7. turn' <= 6 => Progress(Order[turn'], broken, todo', ok') /\ ok' \subseteq captured'
  BY <1>1, <1>4, OrderFacts, ProgressStart
<1> QED
  BY <1>3, <1>4, <1>5, <1>6, <1>7 DEF CollectedInv

\* One command of the collector.
LEMMA CaptureStep ==
    ASSUME InventoryInv, Capture
    PROVE  CollectedInv' /\ turn' \in 1..7 /\ DOMAIN original' = Methods /\ refused' = refused
<1>1. PICK i \in First(todo) :
         LET calls == Calls(Order[turn])
             command == Command(calls[i])
             allowed == allowedReadOnlyInvocation(command)
             succeeded == allowed /\ command \notin broken /\ ~expired
         IN  /\ captured' = IF succeeded THEN captured \cup {command} ELSE captured \ {command}
             /\ refused' = IF allowed THEN refused ELSE refused \cup {command}
             /\ IF Fails(calls[i], succeeded)
                THEN Return(TRUE, {})
                ELSE /\ ok' = IF succeeded THEN ok \cup {command} ELSE ok
                     /\ todo' = Remaining(calls, todo, i, succeeded)
                     /\ UNCHANGED <<turn, original>>
  BY DEF Capture
<1> DEFINE m == Order[turn]
           calls == Calls(m)
           command == Command(calls[i])
           succeeded == command \notin broken /\ ~expired
<1>2. /\ stage = "collect" /\ stage' = stage /\ broken' = broken /\ changes' = changes
      /\ Steady' <=> Steady
      /\ turn \in 1..7 /\ i \in todo
  BY <1>1 DEF Capture, InventoryInv, ControlInv, First, Steady
<1>3. turn \in 1..6 /\ i \in DOMAIN calls
  BY <1>2 DEF InventoryInv, CollectedInv
<1>4. m \in Methods
  BY <1>3, OrderFacts
<1>5. allowedReadOnlyInvocation(command)
  BY <1>3, <1>4, CallFacts
<1>6. /\ captured' = IF succeeded THEN captured \cup {command} ELSE captured \ {command}
      /\ refused' = refused
      /\ IF Fails(calls[i], succeeded)
         THEN Return(TRUE, {})
         ELSE /\ ok' = IF succeeded THEN ok \cup {command} ELSE ok
              /\ todo' = Remaining(calls, todo, i, succeeded)
              /\ UNCHANGED <<turn, original>>
  BY <1>1, <1>5
<1>7. Steady => /\ captured \cap broken = {} /\ Progress(m, broken, todo, ok)
                     /\ ok \subseteq captured
  BY <1>2, <1>3 DEF InventoryInv, CollectedInv
<1> HIDE DEF m
<1>8. Steady => captured \subseteq captured' /\ captured' \cap broken = {}
  BY <1>6, <1>7 DEF Steady
<1>9. CASE Fails(calls[i], succeeded)
  <2>1. calls[i].need = "probe" /\ (Steady => command \in broken)
    BY <1>9 DEF Fails, Steady
  <2>2. Steady => ErrorOf(m, broken) = TRUE
    BY <1>3, <2>1 DEF ErrorOf
  <2>3. Steady => Outcome(m, broken) = [error |-> TRUE, ok |-> {}]
    BY <2>2 DEF Outcome
  <2>4. Return(TRUE, {})
    BY <1>6, <1>9
  <2> QED
    BY <1>2, <1>3, <1>6, <1>8, <2>2, <2>3, <2>4, ReturnStep DEF m
<1>10. CASE ~Fails(calls[i], succeeded)
  <2>1. /\ ok' = IF succeeded THEN ok \cup {command} ELSE ok
        /\ todo' = Remaining(calls, todo, i, succeeded)
        /\ turn' = turn /\ original' = original
    BY <1>6, <1>10
  <2>2. ASSUME Steady
        PROVE  Progress(m, broken, todo', ok')
    <3>1. succeeded <=> command \notin broken
      BY <2>2 DEF Steady
    <3> QED
      BY <1>4, <1>7, <1>10, <2>1, <2>2, <3>1, ProgressStep
  <2>3. Steady => ok' \subseteq captured'
    <3>1. CASE succeeded
      BY <1>6, <1>7, <2>1, <3>1
    <3>2. CASE ~succeeded
      BY <1>6, <1>7, <1>8, <2>1, <3>2
    <3> QED
      BY <3>1, <3>2
  <2>4. todo' \subseteq DOMAIN calls
    BY <1>2, <1>3, <2>1 DEF Remaining, InventoryInv, CollectedInv, m
  <2>5. Steady => \A k \in 1..6 : k < turn =>
           /\ original[Order[k]] = Outcome(Order[k], broken)
           /\ ~ErrorOf(Order[k], broken) => OkOf(Order[k], broken) \subseteq captured'
    BY <1>2, <1>8 DEF InventoryInv, CollectedInv
  <2>6. CollectedInv'
    BY <1>2, <1>3, <1>8, <2>1, <2>2, <2>3, <2>4, <2>5 DEF CollectedInv, m
  <2> QED
    BY <1>2, <1>6, <2>1, <2>6 DEF InventoryInv, ControlInv
<1> QED
  BY <1>9, <1>10

\* The collector keeps the invariant.
LEMMA CollectorStep ==
    ASSUME InventoryInv, CollectorNext, UNCHANGED <<configuration, exchange>>
    PROVE  InventoryInv'
<1>1. stage \in {"collect", "write"} /\ phase = "down" /\ answer = "none"
  BY DEF InventoryInv, ControlInv, CollectorNext, Capture, CollectMethod, HostChanges, Expire,
     Sanitize, SanitizeRefuses, WriteFile
<1>2. /\ phase' = "down" /\ answer' = "none" /\ denied' = denied /\ method' = method
  BY <1>1 DEF configuration, exchange
<1>3. ProbeInv' /\ ReplayInv' /\ AnswerFollowsProbe' /\ SteadyHostReplays'
  BY <1>2 DEF ProbeInv, ReplayInv, AnswerFollowsProbe, SteadyHostReplays
<1>4. SUFFICES /\ stage' \in {"collect", "write", "open", "stopped"}
               /\ turn' \in 1..7 /\ (stage' \in {"write", "open"} => turn' = 7 /\ ok' = {})
               /\ changes' \in Nat /\ DOMAIN original' = Methods
               /\ CollectedInv' /\ FileInv' /\ refused' = refused
  <2>1. ListsCoverProvider'
    BY <1>2, <1>4 DEF InventoryInv, ListsCoverProvider
  <2>2. ControlInv'
    BY <1>2, <1>4 DEF InventoryInv, ControlInv
  <2> QED
    BY <1>3, <1>4, <2>1, <2>2 DEF InventoryInv
<1>5. turn \in 1..7 /\ changes \in Nat /\ DOMAIN original = Methods
  BY DEF InventoryInv, ControlInv
<1>6. CASE Capture
  <2>1. stage' = "collect" /\ changes' = changes /\ (Steady' <=> Steady)
    BY <1>6 DEF Capture, Steady
  <2> QED
    BY <1>5, <1>6, <2>1, CaptureStep DEF FileInv
<1>7. CASE CollectMethod
  <2>0. turn \in 1..6
    BY <1>5, <1>7 DEF CollectMethod
  <2>1. /\ stage = "collect" /\ todo = {} /\ turn \in 1..6 /\ Return(FALSE, ok)
        /\ stage' = stage /\ broken' = broken /\ changes' = changes /\ captured' = captured
        /\ Steady' <=> Steady
        /\ refused' = refused
    BY <1>7, <2>0 DEF CollectMethod, Steady
  <2> DEFINE m == Order[turn]
  <2>2. ASSUME Steady
        PROVE  /\ captured \cap broken = {}
               /\ Outcome(m, broken) = [error |-> FALSE, ok |-> ok]
               /\ OkOf(m, broken) \subseteq captured
    <3>1. /\ captured \cap broken = {} /\ Progress(m, broken, {}, ok)
          /\ ok \subseteq captured
      BY <2>1, <2>2 DEF InventoryInv, CollectedInv
    <3>2. m \in Methods
      BY <2>1, OrderFacts
    <3> HIDE DEF m
    <3> QED
      BY <3>1, <3>2, ProgressEnd
  <2>3. CollectedInv' /\ turn' \in 1..7 /\ DOMAIN original' = Methods
    BY <2>1, <2>2, ReturnStep
  <2> QED
    BY <1>5, <2>1, <2>3 DEF FileInv
<1>8. CASE HostChanges
  <2>1. /\ stage = "collect" /\ stage' = stage /\ turn' = turn /\ todo' = todo /\ ok' = ok
        /\ changes' = changes + 1 /\ refused' = refused /\ original' = original
    BY <1>8 DEF HostChanges
  <2>2. changes' \in Nat /\ ~Steady'
    BY <1>5, <2>1 DEF Steady
  <2>3. CollectedInv'
    BY <2>1, <2>2 DEF InventoryInv, CollectedInv
  <2> QED
    BY <1>5, <2>1, <2>2, <2>3 DEF FileInv
<1>9. CASE Expire
  <2>1. /\ stage = "collect" /\ stage' = stage /\ turn' = turn /\ todo' = todo /\ ok' = ok
        /\ changes' = changes /\ refused' = refused /\ original' = original
        /\ ~Steady'
    BY <1>9 DEF Expire, provider, Steady
  <2>2. CollectedInv'
    BY <2>1 DEF InventoryInv, CollectedInv
  <2> QED
    BY <1>5, <2>1, <2>2 DEF FileInv
<1>10. CASE Sanitize
  <2>1. /\ stage = "collect" /\ stage' = "write" /\ turn = 7 /\ turn' = turn /\ ok' = ok
        /\ changes' = changes /\ (Steady' <=> Steady) /\ refused' = refused /\ original' = original
        /\ captured' = captured
    BY <1>10 DEF Sanitize, provider, Steady
  <2>2. ok = {}
    BY <2>1 DEF InventoryInv, CollectedInv
  <2>3. ASSUME Steady, NEW m \in Methods
        PROVE  original[m] = Outcome(m, CommandsOf(m) \ captured)
    <3>1. PICK k \in 1..6 : Order[k] = m
      BY OrderFacts
    <3>2. /\ captured \cap broken = {} /\ original[m] = Outcome(m, broken)
          /\ ~ErrorOf(m, broken) => OkOf(m, broken) \subseteq captured
      BY <2>1, <2>3, <3>1 DEF InventoryInv, CollectedInv
    <3> QED
      BY <3>2, CapturedReplays
  <2> QED
    BY <1>5, <2>1, <2>2, <2>3 DEF FileInv, CollectedInv
<1>11. CASE SanitizeRefuses
  <2>1. /\ stage' = "stopped" /\ turn' = turn /\ changes' = changes /\ (Steady' <=> Steady)
        /\ refused' = refused /\ original' = original
    BY <1>11 DEF SanitizeRefuses, Steady
  <2> QED
    BY <1>5, <2>1 DEF FileInv, CollectedInv
<1>12. CASE WriteFile
  <2>1. /\ stage = "write" /\ stage' = "open" /\ turn' = turn /\ ok' = ok
        /\ changes' = changes /\ (Steady' <=> Steady) /\ refused' = refused /\ original' = original
        /\ captured' = captured
    BY <1>12 DEF WriteFile, provider, Steady
  <2>2. turn = 7 /\ ok = {} /\ FileInv
    BY <2>1 DEF InventoryInv, ControlInv
  <2> QED
    BY <1>5, <2>1, <2>2 DEF FileInv, CollectedInv
<1> QED
  BY <1>6, <1>7, <1>8, <1>9, <1>10, <1>11, <1>12 DEF CollectorNext

\* A step of a request leaves the fixture and the configuration alone.
LEMMA ServeFrame ==
    ASSUME InventoryInv, phase # "down", UNCHANGED <<fixture, configuration, method>>,
           phase' \in {"idle", "collecting", "answered"},
           answer' # "none" <=> phase' = "answered", denied' = {}
    PROVE  ControlInv' /\ CollectedInv' /\ FileInv' /\ ListsCoverProvider'
<1>1. /\ stage' = stage /\ turn' = turn /\ changes' = changes /\ refused' = refused
      /\ Steady' <=> Steady
      /\ captured' = captured /\ original' = original /\ method' = method
      /\ adapter' = adapter /\ executor' = executor /\ agentUp' = agentUp
  BY DEF fixture, configuration, Steady
<1>2. stage \in {"none", "opened"}
  BY DEF InventoryInv, ControlInv
<1>3. ControlInv'
  BY <1>1, <1>2 DEF InventoryInv, ControlInv, Remote, OverFixture
<1> QED
  BY <1>1, <1>2, <1>3 DEF InventoryInv, CollectedInv, FileInv, ListsCoverProvider

\* One command of the method that is served.
LEMMA RunStep ==
    ASSUME InventoryInv, Run
    PROVE  InventoryInv'
<1>1. PICK i \in First(todo) :
         LET call == Calls(method)[i]
             succeeded == Succeeds(call)
         IN  /\ ok' = IF succeeded THEN ok \cup {Command(call)} ELSE ok
             /\ denied' = IF Permitted(call) THEN denied ELSE denied \cup {Command(call)}
             /\ IF Fails(call, succeeded)
                THEN /\ todo' = {}
                     /\ Reply("503", IF late THEN "timeout" ELSE "execution_failed")
                ELSE /\ todo' = Remaining(Calls(method), todo, i, succeeded)
                     /\ UNCHANGED <<phase, answer, code>>
  BY DEF Run
<1> DEFINE m == method
           call == Calls(m)[i]
           succeeded == Succeeds(call)
<1>2. /\ phase = "collecting" /\ UNCHANGED <<fixture, configuration, method, broken, late>>
      /\ denied = {} /\ answer = "none" /\ m \in Methods /\ i \in todo
      /\ todo \subseteq DOMAIN Calls(m)
  BY <1>1 DEF Run, InventoryInv, ListsCoverProvider, ControlInv, ProbeInv, First
<1>3. /\ changes' = changes /\ captured' = captured /\ original' = original /\ method' = m
      /\ Steady' <=> Steady
      /\ adapter' = adapter /\ executor' = executor /\ agentUp' = agentUp /\ broken' = broken
      /\ stage' = stage
  BY <1>2 DEF fixture, configuration, Steady
<1>4. i \in DOMAIN Calls(m)
  BY <1>2
<1>5. /\ commandAllowed(Operation[m], call.path, call.args)
      /\ call.need = "probe" =>
            /\ Command(call) \in MinimalProbe[m]
            /\ \A j \in DOMAIN Calls(m) :
                  Calls(m)[j].need = "gate" => Calls(m)[j].section # call.section
  BY <1>2, <1>4, CallFacts
<1>6. Permitted(call)
  BY <1>5 DEF Permitted
<1>7. denied' = {}
  BY <1>1, <1>2, <1>6
<1>8. ~succeeded => Command(call) \in broken \/ (OnHost /\ late)
  BY <1>6 DEF Succeeds
<1>9. stage = "opened" => (succeeded <=> Command(call) \notin broken)
  <2>1. stage = "opened" => ~OnHost
    BY <1>2 DEF InventoryInv, ControlInv, OverFixture, OnHost, Remote, Remotes
  <2> QED
    BY <2>1, <1>6 DEF Succeeds
<1>10. stage = "opened" /\ Steady =>
          broken = CommandsOf(m) \ captured /\ Progress(m, broken, todo, ok)
  BY <1>2 DEF InventoryInv, ReplayInv
<1>11. stage = "opened" <=> OverFixture
  BY <1>2 DEF InventoryInv, ControlInv
<1>12. CASE Fails(call, succeeded)
  <2>1. /\ phase' = "answered" /\ answer' = "503"
        /\ code' = IF late THEN "timeout" ELSE "execution_failed"
    BY <1>1, <1>12 DEF Reply
  <2>2. ControlInv' /\ CollectedInv' /\ FileInv' /\ ListsCoverProvider'
    BY <1>2, <1>7, <2>1, ServeFrame
  <2>3. ~succeeded /\ call.need = "probe" /\ Command(call) \in MinimalProbe[m]
    BY <1>5, <1>12 DEF Fails
  <2>4. AnswerFollowsProbe'
    BY <1>3, <1>8, <2>1, <2>3 DEF AnswerFollowsProbe
  <2>5. ASSUME OverFixture, Steady
        PROVE  original[m].error
    <3>1. /\ Command(call) \in broken /\ broken = CommandsOf(m) \ captured
          /\ original[m] = Outcome(m, CommandsOf(m) \ captured)
      BY <1>2, <1>9, <1>10, <1>11, <2>3, <2>5 DEF InventoryInv, FileInv
    <3>2. ErrorOf(m, CommandsOf(m) \ captured)
      BY <1>4, <2>3, <3>1 DEF ErrorOf
    <3> QED
      BY <3>1, <3>2 DEF Outcome
  <2>6. SteadyHostReplays'
    BY <1>3, <2>1, <2>5 DEF SteadyHostReplays, OverFixture
  <2>7. ProbeInv' /\ ReplayInv'
    BY <2>1 DEF ProbeInv, ReplayInv
  <2> QED
    BY <2>2, <2>4, <2>6, <2>7 DEF InventoryInv
<1>13. CASE ~Fails(call, succeeded)
  <2>1. /\ phase' = "collecting" /\ answer' = "none"
        /\ todo' = Remaining(Calls(m), todo, i, succeeded)
        /\ ok' = IF succeeded THEN ok \cup {Command(call)} ELSE ok
    BY <1>1, <1>2, <1>13
  <2>2. ControlInv' /\ CollectedInv' /\ FileInv' /\ ListsCoverProvider'
    BY <1>2, <1>7, <2>1, ServeFrame
  <2>3. AnswerFollowsProbe' /\ SteadyHostReplays'
    BY <2>1 DEF AnswerFollowsProbe, SteadyHostReplays
  <2>4. ReplayInv'
    <3>1. SUFFICES ASSUME stage = "opened", Steady
                   PROVE  Progress(m, broken, todo', ok') /\ broken = CommandsOf(m) \ captured
      BY <1>3 DEF ReplayInv
    <3> QED
      BY <1>2, <1>9, <1>10, <1>13, <2>1, <3>1, ProgressStep
  <2>5. todo' \subseteq DOMAIN Calls(m)
    BY <1>2, <2>1 DEF Remaining
  <2>6. ASSUME Remote => executor # "mock", NEW j \in DOMAIN Calls(m), Calls(m)[j].need = "probe"
        PROVE  j \in todo' \/ Command(Calls(m)[j]) \in ok'
    <3>1. j \in todo \/ Command(Calls(m)[j]) \in ok
      BY <1>2, <2>6 DEF InventoryInv, ProbeInv
    <3>2. CASE j = i
      <4>1. succeeded
        BY <1>13, <2>6, <3>2 DEF Fails
      <4> QED
        BY <2>1, <3>2, <4>1
    <3>3. CASE j # i /\ j \in todo
      <4>1. call.need = "gate" => call.section # Calls(m)[j].section
        BY <1>2, <1>4, <2>6, CallFacts
      <4>2. call.need \in {"gate", "optional"} \/ succeeded
        BY <1>2, <1>4, <1>13, CallFacts DEF Fails, Needs
      <4> QED
        BY <2>1, <3>3, <4>1, <4>2 DEF Remaining
    <3> QED
      BY <2>1, <3>1, <3>2, <3>3
  <2>7. ProbeInv'
    BY <1>2, <1>3, <2>5, <2>6 DEF ProbeInv, Remote, InventoryInv
  <2> QED
    BY <2>2, <2>3, <2>4, <2>7 DEF InventoryInv
<1> QED
  BY <1>12, <1>13

\* The answer of a collection that came to its end.
LEMMA AnswerStep ==
    ASSUME InventoryInv, Answer
    PROVE  InventoryInv'
<1>1. /\ phase = "collecting" /\ todo = {}
      /\ UNCHANGED <<fixture, configuration, method, collection>>
      /\ phase' = "answered"
      /\ \/ Remote /\ ~Decodes /\ answer' = "503" /\ code' = "missing_field"
         \/ ~(Remote /\ ~Decodes) /\ answer' = "200" /\ code' = ""
  BY DEF Answer, Reply
<1>2. /\ changes' = changes /\ captured' = captured /\ original' = original /\ method' = method
      /\ Steady' <=> Steady
      /\ adapter' = adapter /\ executor' = executor /\ agentUp' = agentUp /\ stage' = stage
      /\ broken' = broken /\ ok' = ok /\ denied' = denied
  BY <1>1 DEF fixture, configuration, collection, provider, Steady
<1>3. ControlInv' /\ CollectedInv' /\ FileInv' /\ ListsCoverProvider'
  <2>1. denied' = {}
    BY <1>2 DEF InventoryInv, ListsCoverProvider
  <2> QED
    BY <1>1, <2>1, ServeFrame
<1>4. /\ method \in Methods /\ executor \in Executors
  BY <1>1 DEF InventoryInv, ControlInv
<1>5. ASSUME Remote => executor # "mock"
      PROVE  MinimalProbe[method] \subseteq ok
  <2> SUFFICES ASSUME NEW p \in MinimalProbe[method]
               PROVE  p \in ok
    OBVIOUS
  <2>1. PICK i \in DOMAIN Calls(method) :
           Calls(method)[i].need = "probe" /\ Command(Calls(method)[i]) = p
    BY <1>4, ProbesAreCalls
  <2> QED
    BY <1>1, <1>5, <2>1 DEF InventoryInv, ProbeInv
\* Field names and the check of the version do not stand in the way.
<1>6. ASSUME Remote, executor # "mock"
      PROVE  Decodes
  <2>1. expectedField(method) \in Fields
    BY <1>4, <1>6 DEF expectedField, Fields, fixtureField, inventoryField, Executors
  <2>2. MinimalProbe["Samba"] = {Invocation("smbd", {"-V"})}
    BY DEF MinimalProbe
  <2> QED
    BY <1>5, <1>6, <2>1, <2>2 DEF Decodes, Invocation
<1>7. executor = "mock" => ~Decodes
  BY DEF Decodes, Fields
<1>8. AnswerFollowsProbe'
  BY <1>1, <1>2, <1>5, <1>6, <1>7 DEF AnswerFollowsProbe, Remote
<1>9. ASSUME OverFixture, Steady
      PROVE  original[method] = [error |-> FALSE, ok |-> ok]
  <2>1. /\ Progress(method, CommandsOf(method) \ captured, {}, ok)
        /\ original[method] = Outcome(method, CommandsOf(method) \ captured)
    BY <1>1, <1>4, <1>9 DEF InventoryInv, ControlInv, ReplayInv, FileInv
  <2> QED
    BY <1>4, <2>1, ProgressEnd
<1>10. SteadyHostReplays'
  BY <1>1, <1>2, <1>9 DEF SteadyHostReplays, OverFixture
<1>11. ProbeInv' /\ ReplayInv'
  BY <1>1 DEF ProbeInv, ReplayInv
<1> QED
  BY <1>3, <1>8, <1>10, <1>11 DEF InventoryInv

\* The other steps of a request.
LEMMA RequestStep ==
    ASSUME InventoryInv, ServeSample \/ AgentRefuses \/ Collect \/ Deadline \/ Abandon
    PROVE  InventoryInv'
<1>1. phase \in {"idle", "collecting"} /\ UNCHANGED <<fixture, configuration, method>>
  BY DEF ServeSample, AgentRefuses, Collect, Deadline, Abandon
<1>2. /\ changes' = changes /\ captured' = captured /\ original' = original /\ method' = method
      /\ Steady' <=> Steady
      /\ adapter' = adapter /\ executor' = executor /\ agentUp' = agentUp /\ stage' = stage
  BY <1>1 DEF fixture, configuration, Steady
<1>3. denied = {} /\ answer = "none" /\ method \in Methods
  BY <1>1 DEF InventoryInv, ListsCoverProvider, ControlInv
<1>4. stage = "opened" <=> OverFixture
  BY <1>1 DEF InventoryInv, ControlInv
<1>5. CASE ServeSample
  <2>1. /\ adapter = "mock" /\ phase' = "answered" /\ answer' = "200" /\ code' = "sample"
        /\ denied' = denied
    BY <1>5 DEF ServeSample, Reply, collection
  <2>2. ControlInv' /\ CollectedInv' /\ FileInv' /\ ListsCoverProvider'
    BY <1>1, <1>3, <2>1, ServeFrame
  <2>3. ~OverFixture
    BY <1>1, <2>1 DEF OverFixture, InventoryInv, ControlInv, Remote, Remotes
  <2>4. AnswerFollowsProbe' /\ SteadyHostReplays'
    BY <1>2, <2>1, <2>3 DEF AnswerFollowsProbe, SteadyHostReplays, OverFixture
  <2> QED
    BY <2>1, <2>2, <2>4 DEF InventoryInv, ProbeInv, ReplayInv
<1>6. CASE AgentRefuses
  <2>1. /\ phase' = "answered" /\ answer' = "503" /\ code' = "capability_unavailable"
        /\ denied' = denied
        /\ \/ ~agentUp
           \/ OnHost /\ Catalog[Operation[method]].capability \notin Capabilities
    BY <1>6 DEF AgentRefuses, Reply, collection, OnHost
  <2>2. ControlInv' /\ CollectedInv' /\ FileInv' /\ ListsCoverProvider'
    BY <1>1, <1>3, <2>1, ServeFrame
  <2>3. AnswerFollowsProbe' /\ SteadyHostReplays'
    BY <1>2, <2>1 DEF AnswerFollowsProbe, SteadyHostReplays, OnHost, Remote
  <2> QED
    BY <2>1, <2>2, <2>3 DEF InventoryInv, ProbeInv, ReplayInv
<1>7. CASE Collect
  <2>1. /\ phase = "idle" /\ phase' = "collecting" /\ ok' = {} /\ denied' = {} /\ answer' = answer
        /\ todo' = IF Remote /\ executor = "mock" THEN {} ELSE DOMAIN Calls(method)
        /\ OverFixture => broken' = CommandsOf(method) \ captured
        /\ Remote => agentUp
    BY <1>7 DEF Collect
  <2>2. ControlInv' /\ CollectedInv' /\ FileInv' /\ ListsCoverProvider'
    BY <1>1, <1>3, <2>1, ServeFrame
  <2>3. AnswerFollowsProbe' /\ SteadyHostReplays'
    BY <1>3, <2>1 DEF AnswerFollowsProbe, SteadyHostReplays
  <2>4. ProbeInv'
    BY <1>2, <2>1 DEF ProbeInv, Remote
  <2>5. ReplayInv'
    <3>1. SUFFICES ASSUME stage = "opened"
                   PROVE  /\ broken' = CommandsOf(method) \ captured
                          /\ Progress(method, broken', todo', ok')
      BY <1>2 DEF ReplayInv
    <3>2. ~(Remote /\ executor = "mock")
      BY <1>4, <3>1 DEF OverFixture, Remote, Remotes
    <3> QED
      BY <1>3, <1>4, <2>1, <3>1, <3>2, ProgressStart
  <2> QED
    BY <2>2, <2>3, <2>4, <2>5 DEF InventoryInv
<1>8. CASE Deadline
  <2>1. /\ phase = "collecting" /\ phase' = phase /\ answer' = answer /\ denied' = denied
        /\ todo' = todo /\ ok' = ok /\ broken' = broken
    BY <1>8 DEF Deadline, provider
  <2>2. ControlInv' /\ CollectedInv' /\ FileInv' /\ ListsCoverProvider'
    BY <1>1, <1>3, <2>1, ServeFrame
  <2>3. AnswerFollowsProbe' /\ SteadyHostReplays'
    BY <1>3, <2>1 DEF AnswerFollowsProbe, SteadyHostReplays
  <2>4. ProbeInv' /\ ReplayInv'
    BY <1>2, <2>1 DEF InventoryInv, ProbeInv, ReplayInv, Remote
  <2> QED
    BY <2>2, <2>3, <2>4 DEF InventoryInv
<1>9. CASE Abandon
  <2>1. phase' = "answered" /\ answer' = "503" /\ code' = "timeout" /\ denied' = denied
    BY <1>9 DEF Abandon, Reply
  <2>2. ControlInv' /\ CollectedInv' /\ FileInv' /\ ListsCoverProvider'
    BY <1>1, <1>3, <2>1, ServeFrame
  <2>3. AnswerFollowsProbe' /\ SteadyHostReplays'
    BY <2>1 DEF AnswerFollowsProbe, SteadyHostReplays
  <2> QED
    BY <2>1, <2>2, <2>3 DEF InventoryInv, ProbeInv, ReplayInv
<1> QED
  BY <1>5, <1>6, <1>7, <1>8, <1>9

\* The process that opens the fixture.
LEMMA OpenStep ==
    ASSUME InventoryInv, Open \/ OpenRefuses
    PROVE  InventoryInv'
<1>1. /\ stage = "open" /\ phase = "down" /\ answer = "none" /\ denied = {} /\ refused = {}
      /\ method \in Methods
  BY DEF Open, OpenRefuses, InventoryInv, ControlInv, ListsCoverProvider
<1>2. CASE Open
  <2>1. /\ stage' = "opened" /\ phase' = "idle" /\ turn' = turn /\ changes' = changes
        /\ Steady' <=> Steady
        /\ refused' = refused /\ captured' = captured /\ original' = original
        /\ method' = method /\ denied' = denied /\ answer' = answer
    BY <1>2 DEF Open, Steady
  <2>2. PICK c \in ConfigurationsOver(TRUE) :
           adapter' = c.adapter /\ executor' = c.executor /\ agentUp' = c.up
    BY <1>2 DEF Open
  <2>3. /\ adapter' \in Adapters /\ executor' \in Executors /\ agentUp' \in BOOLEAN
        /\ OverFixture'
        /\ agentUp' => Remote'
        /\ ~agentUp' => executor' = "mock"
    BY <2>2 DEF ConfigurationsOver, Remote, OverFixture
  <2>4. ControlInv'
    <3>1. turn' \in 1..7 /\ changes' \in Nat /\ DOMAIN original' = Methods
      BY <2>1 DEF InventoryInv, ControlInv
    <3> QED
      BY <1>1, <2>1, <2>3, <3>1 DEF ControlInv
  <2> QED
    BY <1>1, <2>1, <2>4 DEF InventoryInv, ProbeInv, CollectedInv, FileInv, ReplayInv,
       ListsCoverProvider, AnswerFollowsProbe, SteadyHostReplays
<1>3. CASE OpenRefuses
  <2>1. /\ stage' = "stopped" /\ phase' = phase /\ turn' = turn /\ changes' = changes
        /\ Steady' <=> Steady
        /\ refused' = refused /\ original' = original
        /\ method' = method /\ denied' = denied /\ answer' = answer
    BY <1>3 DEF OpenRefuses, exchange, Steady
  <2>2. ControlInv'
    BY <1>1, <2>1 DEF InventoryInv, ControlInv
  <2> QED
    BY <1>1, <2>1, <2>2 DEF InventoryInv, ProbeInv, CollectedInv, FileInv, ReplayInv,
       ListsCoverProvider, AnswerFollowsProbe, SteadyHostReplays
<1> QED
  BY <1>2, <1>3

\* The next request.
LEMMA NextRequestStep ==
    ASSUME InventoryInv, NextRequest
    PROVE  InventoryInv'
<1>1. /\ phase = "answered" /\ phase' = "idle" /\ method' \in Methods /\ answer' = "none"
      /\ denied' = {} /\ ok' = {}
      /\ stage' = stage /\ turn' = turn /\ changes' = changes /\ refused' = refused
      /\ Steady' <=> Steady
      /\ captured' = captured /\ original' = original
      /\ adapter' = adapter /\ executor' = executor /\ agentUp' = agentUp
  BY DEF NextRequest, fixture, configuration, Steady
<1>2. stage \in {"none", "opened"}
  BY <1>1 DEF InventoryInv, ControlInv
<1>3. ControlInv'
  BY <1>1, <1>2 DEF InventoryInv, ControlInv, Remote, OverFixture
<1> QED
  BY <1>1, <1>2, <1>3 DEF InventoryInv, ProbeInv, CollectedInv, FileInv, ReplayInv,
     ListsCoverProvider, AnswerFollowsProbe, SteadyHostReplays

\* The invariant holds at the start.
LEMMA InventoryStart == Init => InventoryInv
<1> SUFFICES ASSUME Init
             PROVE  InventoryInv
  OBVIOUS
<1>1. /\ turn = 1 /\ ok = {} /\ changes = 0 /\ refused = {} /\ captured = {}
      /\ DOMAIN original = Methods /\ denied = {} /\ answer = "none"
      /\ \/ stage = "none" /\ todo = {} /\ phase = "idle"
         \/ stage = "collect" /\ todo = DOMAIN Calls(Order[1]) /\ phase = "down"
  BY DEF Init, FixtureInit
<1>2. method \in Methods
  BY DEF Init, Methods
<1>3. ASSUME phase = "idle"
      PROVE  /\ adapter \in Adapters /\ executor \in Executors /\ agentUp \in BOOLEAN
             /\ agentUp => Remote
             /\ ~agentUp => executor = "mock"
             /\ ~OverFixture
  <2>1. PICK c \in ConfigurationsOver(FALSE) :
           adapter = c.adapter /\ executor = c.executor /\ agentUp = c.up
    BY <1>1, <1>3 DEF Init
  <2> QED
    BY <2>1 DEF ConfigurationsOver, Remote, OverFixture
<1>4. ControlInv
  BY <1>1, <1>2, <1>3 DEF ControlInv
<1>5. CollectedInv
  <2>1. Order[1] \in Methods /\ turn \in 1..6
    BY <1>1, OrderFacts
  <2>2. Progress(Order[1], broken, DOMAIN Calls(Order[1]), {})
    BY <2>1, ProgressStart
  <2> QED
    BY <1>1, <2>2 DEF CollectedInv
<1> QED
  BY <1>1, <1>4, <1>5 DEF InventoryInv, ProbeInv, FileInv, ReplayInv, ListsCoverProvider,
     AnswerFollowsProbe, SteadyHostReplays

\* Every step keeps the invariant.
LEMMA InventoryStep == InventoryInv /\ [Next]_vars => InventoryInv'
<1> SUFFICES ASSUME InventoryInv, [Next]_vars
             PROVE  InventoryInv'
  OBVIOUS
<1>1. CASE UNCHANGED vars
  BY <1>1 DEF vars, fixture, provider, configuration, exchange, InventoryInv, ControlInv, ProbeInv,
     CollectedInv, FileInv, ReplayInv, ListsCoverProvider, AnswerFollowsProbe, SteadyHostReplays,
     Remote, OverFixture, OnHost, Steady
<1> QED
  BY <1>1, CollectorStep, OpenStep, RequestStep, RunStep, AnswerStep, NextRequestStep DEF Next

\* The inductive invariant of collection, fixture and request.
THEOREM InventoryInvariant == Spec => []InventoryInv
  BY InventoryStart, InventoryStep, PTL DEF Spec

\* The catalogue (commandAllowed) and the ExecRunner (allowedReadOnlyInvocation)
\* refuse no command that the provider issues, for a request or a collection.
THEOREM ListsTheorem == Spec => []ListsCoverProvider
<1>1. InventoryInv => ListsCoverProvider
  BY DEF InventoryInv
<1> QED
  BY <1>1, InventoryInvariant, PTL

\* A handler answers 200 only after the minimal probe of this very collection
\* succeeded, and answers 503 behind an agent that is up only for a probe that
\* fails or a deadline.
THEOREM AnswerTheorem == Spec => []AnswerFollowsProbe
<1>1. InventoryInv => AnswerFollowsProbe
  BY DEF InventoryInv
<1> QED
  BY <1>1, InventoryInvariant, PTL

\* A fixture of a host that did not change while Collect ran, and within its
\* time, replays every method as the host answered it, error or values, for
\* every set of commands that failed there.
THEOREM FixtureReplayTheorem == Spec => []SteadyHostReplays
<1>1. InventoryInv => SteadyHostReplays
  BY DEF InventoryInv
<1> QED
  BY <1>1, InventoryInvariant, PTL

-----------------------------------------------------------------------------
\* The part of the type that the invariant does not give.
Codes == {"", "sample", "capability_unavailable", "missing_field", "timeout", "execution_failed"}

ServedType ==
    /\ adapter \in Adapters /\ executor \in Executors /\ agentUp \in BOOLEAN
    /\ phase # "down" => ok \subseteq CommandsOf(method) \ broken
    /\ late \in BOOLEAN /\ answer \in {"none", "200", "503"} /\ code \in Codes

StoredType ==
    /\ changes \in 0..MaxChanges /\ expired \in BOOLEAN /\ captured \subseteq AllCommands
    /\ \A m \in Methods : original[m].error \in BOOLEAN
    /\ file \in {"none", "partial", "sanitized"} /\ (stage = "opened" => file = "sanitized")

\* What is left to show of the type.
LEMMA TypeParts ==
    ASSUME InventoryInv
    PROVE  TypeOK <=> ServedType /\ StoredType /\ todo \subseteq Nat
BY DEF TypeOK, FixtureTypeOK, ServedType, StoredType, InventoryInv, ControlInv,
   ListsCoverProvider, Codes

\* The same after a step.
LEMMA TypePartsNext ==
    ASSUME InventoryInv', ServedType', StoredType', todo' \subseteq Nat
    PROVE  TypeOK'
BY DEF TypeOK, FixtureTypeOK, ServedType, StoredType, InventoryInv, ControlInv,
   ListsCoverProvider, Codes

\* The types at the start.
LEMMA InventoryTypeStart == Init => TypeOK
<1> SUFFICES ASSUME Init
             PROVE  TypeOK
  OBVIOUS
<1>1. InventoryInv
  BY InventoryStart
<1>2. /\ ok = {} /\ changes = 0 /\ expired = FALSE /\ captured = {} /\ file = "none"
      /\ late = FALSE
      /\ original = [m \in Methods |-> Nothing] /\ answer = "none" /\ code = ""
      /\ todo = {} \/ todo = DOMAIN Calls(Order[1])
      /\ stage # "opened"
  BY DEF Init, FixtureInit
<1>3. StoredType
  <2>1. changes \in 0..MaxChanges
    <3>1. MaxChanges \in Nat /\ changes = 0
      BY <1>2, FixtureConstants
    <3> QED
      BY <3>1
  <2>2. \A m \in Methods : original[m].error = FALSE
    BY <1>2 DEF Nothing
  <2> QED
    BY <1>2, <2>1, <2>2 DEF StoredType
<1>4. adapter \in Adapters /\ executor \in Executors /\ agentUp \in BOOLEAN
  BY DEF Init, ConfigurationsOver, Adapters, Executors
<1>5. ServedType
  BY <1>2, <1>4 DEF ServedType, Codes
<1>6. todo \subseteq Nat
  <2>1. Order[1] \in Methods
    BY OrderFacts
  <2> QED
    BY <1>2, <2>1, CallFacts
<1> QED
  BY <1>1, <1>3, <1>5, <1>6, TypeParts

\* The collector keeps the types.
LEMMA CollectorType ==
    ASSUME InventoryInv, InventoryInv', TypeOK, CollectorNext, UNCHANGED <<configuration, exchange>>
    PROVE  TypeOK'
<1>1. ServedType /\ StoredType /\ todo \subseteq Nat
  BY TypeParts
<1>2. /\ adapter' = adapter /\ executor' = executor /\ agentUp' = agentUp
      /\ phase' = phase /\ late' = late /\ answer' = answer /\ code' = code
  BY DEF configuration, exchange
<1>3. phase = "down"
  BY DEF InventoryInv, ControlInv, CollectorNext, Capture, CollectMethod, HostChanges, Expire,
     Sanitize, SanitizeRefuses, WriteFile
<1>4. ServedType'
  BY <1>1, <1>2, <1>3 DEF ServedType
<1>5. ASSUME NEW error \in BOOLEAN, NEW commands, Return(error, commands), turn \in 1..6
      PROVE  /\ \A m \in Methods : original'[m].error \in BOOLEAN
             /\ todo' \subseteq Nat
  <2>1. /\ todo' = {} \/ (turn + 1 \in 1..6 /\ todo' = DOMAIN Calls(Order[turn + 1]))
        /\ original' = [original EXCEPT ![Order[turn]] =
                          [error |-> error, ok |-> IF error THEN {} ELSE commands]]
    BY <1>5 DEF Return
  <2>2. todo' \subseteq Nat
    BY <2>1, OrderFacts, CallFacts
  <2>3. ASSUME NEW m \in Methods
        PROVE  original'[m].error \in BOOLEAN
    <3>1. \/ original'[m] = original[m]
          \/ original'[m] = [error |-> error, ok |-> IF error THEN {} ELSE commands]
      BY <2>1 DEF InventoryInv, ControlInv
    <3> QED
      BY <1>1, <3>1 DEF StoredType
  <2> QED
    BY <2>2, <2>3
<1>6. CASE Capture
  <2>1. PICK i \in First(todo) :
           /\ \/ captured' = captured \cup {Command(Calls(Order[turn])[i])}
              \/ captured' = captured \ {Command(Calls(Order[turn])[i])}
           /\ \/ Return(TRUE, {})
              \/ /\ \E s \in BOOLEAN : todo' = Remaining(Calls(Order[turn]), todo, i, s)
                 /\ original' = original
    <3>1. PICK i \in First(todo) :
             LET calls == Calls(Order[turn])
                 command == Command(calls[i])
                 allowed == allowedReadOnlyInvocation(command)
                 succeeded == allowed /\ command \notin broken /\ ~expired
             IN  /\ captured' = IF succeeded THEN captured \cup {command} ELSE captured \ {command}
                 /\ IF Fails(calls[i], succeeded)
                    THEN Return(TRUE, {})
                    ELSE /\ todo' = Remaining(calls, todo, i, succeeded)
                         /\ original' = original
      BY <1>6 DEF Capture
    <3>2. (/\ allowedReadOnlyInvocation(Command(Calls(Order[turn])[i]))
           /\ Command(Calls(Order[turn])[i]) \notin broken
           /\ ~expired) \in BOOLEAN
      OBVIOUS
    <3> QED
      BY <3>1, <3>2
  <2>2. /\ stage = "collect" /\ stage' = stage /\ file' = file
        /\ changes' = changes /\ expired' = expired
    BY <1>6 DEF Capture
  <2>3. turn \in 1..6 /\ i \in DOMAIN Calls(Order[turn]) /\ Order[turn] \in Methods
    <3>1. i \in todo /\ turn \in 1..7
      BY DEF First, InventoryInv, ControlInv
    <3>2. turn \in 1..6 /\ i \in DOMAIN Calls(Order[turn])
      BY <2>2, <3>1 DEF InventoryInv, CollectedInv
    <3> QED
      BY <3>2, OrderFacts
  <2>4. Command(Calls(Order[turn])[i]) \in AllCommands
    BY <2>3 DEF AllCommands, CommandsOf
  <2>5. captured' \subseteq AllCommands
    BY <1>1, <2>1, <2>4 DEF StoredType
  <2>6. todo' \subseteq Nat /\ \A m \in Methods : original'[m].error \in BOOLEAN
    <3>1. CASE Return(TRUE, {})
      BY <1>5, <2>3, <3>1
    <3>2. CASE /\ \E s \in BOOLEAN : todo' = Remaining(Calls(Order[turn]), todo, i, s)
               /\ original' = original
      BY <1>1, <3>2 DEF Remaining, StoredType
    <3> QED
      BY <2>1, <3>1, <3>2
  <2>7. StoredType'
    BY <1>1, <2>2, <2>5, <2>6 DEF StoredType
  <2> QED
    BY <1>4, <2>6, <2>7, TypePartsNext
<1>7. CASE CollectMethod
  <2>1. /\ Return(FALSE, ok) /\ stage' = stage /\ changes' = changes /\ captured' = captured
        /\ file' = file /\ expired' = expired
    BY <1>7 DEF CollectMethod
  <2>2. turn \in 1..6
    BY <1>7 DEF CollectMethod, InventoryInv, ControlInv
  <2>3. todo' \subseteq Nat /\ \A m \in Methods : original'[m].error \in BOOLEAN
    BY <1>5, <2>1, <2>2
  <2>4. StoredType'
    BY <1>1, <2>1, <2>3 DEF StoredType
  <2> QED
    BY <1>4, <2>3, <2>4, TypePartsNext
<1>8. CASE HostChanges
  <2>1. /\ stage' = stage /\ todo' = todo /\ changes < MaxChanges /\ changes' = changes + 1
        /\ captured' = captured /\ original' = original /\ file' = file /\ expired' = expired
    BY <1>8 DEF HostChanges
  <2>2. changes' \in 0..MaxChanges
    BY <1>1, <2>1, FixtureConstants DEF StoredType
  <2>3. StoredType'
    BY <1>1, <2>1, <2>2 DEF StoredType
  <2> QED
    BY <1>1, <1>4, <2>1, <2>3, TypePartsNext
<1>9. CASE Expire \/ Sanitize \/ SanitizeRefuses \/ WriteFile
  <2>1. /\ todo' = todo /\ changes' = changes /\ captured' = captured /\ original' = original
        /\ expired' = expired \/ expired' = TRUE
        /\ stage' # "opened" /\ (file' = file \/ file' \in {"partial", "sanitized"})
    BY <1>9 DEF Expire, Sanitize, SanitizeRefuses, WriteFile, provider
  <2>2. StoredType'
    BY <1>1, <2>1 DEF StoredType
  <2> QED
    BY <1>1, <1>4, <2>1, <2>2, TypePartsNext
<1> QED
  BY <1>6, <1>7, <1>8, <1>9 DEF CollectorNext

\* Serving a request keeps the types.
LEMMA ServeType ==
    ASSUME InventoryInv, InventoryInv', TypeOK,
           \/ Open \/ OpenRefuses \/ ServeSample \/ AgentRefuses \/ Collect \/ Run
           \/ Deadline \/ Abandon \/ Answer \/ NextRequest
    PROVE  TypeOK'
<1>1. ServedType /\ StoredType /\ todo \subseteq Nat
  BY TypeParts
<1>2. CASE Open
  <2>1. /\ stage' = "opened" /\ file = "sanitized" /\ file' = file /\ changes' = changes
        /\ expired' = expired
        /\ captured' = captured /\ original' = original /\ todo' = todo /\ ok' = ok
        /\ broken' = {} /\ late' = late /\ answer' = answer /\ code' = code
    BY <1>2 DEF Open
  <2>2. ok = {}
    BY <1>2 DEF Open, InventoryInv, ControlInv
  <2>3. adapter' \in Adapters /\ executor' \in Executors /\ agentUp' \in BOOLEAN
    BY <1>2 DEF Open, ConfigurationsOver
  <2>4. StoredType'
    BY <1>1, <2>1 DEF StoredType
  <2>5. ServedType'
    BY <1>1, <2>1, <2>2, <2>3 DEF ServedType
  <2> QED
    BY <1>1, <2>1, <2>4, <2>5, TypePartsNext
<1>3. CASE OpenRefuses
  <2>1. /\ stage' = "stopped" /\ UNCHANGED <<changes, expired, captured, original, file>>
        /\ UNCHANGED <<provider, configuration, exchange>>
    BY <1>3 DEF OpenRefuses
  <2>2. StoredType'
    BY <1>1, <2>1 DEF StoredType
  <2>3. ServedType' /\ todo' = todo
    BY <1>1, <2>1 DEF ServedType, provider, configuration, exchange
  <2> QED
    BY <1>1, <2>2, <2>3, TypePartsNext
<1>4. ASSUME UNCHANGED <<fixture, configuration>>
      PROVE  /\ StoredType'
             /\ adapter' \in Adapters /\ executor' \in Executors /\ agentUp' \in BOOLEAN
  BY <1>1, <1>4 DEF StoredType, ServedType, fixture, configuration
<1>5. CASE ServeSample \/ AgentRefuses \/ Answer
  <2>1. /\ UNCHANGED <<fixture, configuration, method, collection>>
        /\ answer' \in {"200", "503"} /\ code' \in Codes /\ phase # "down"
    BY <1>5 DEF ServeSample, AgentRefuses, Answer, Reply, Codes
  <2>2. ServedType' /\ todo' = todo
    BY <1>1, <1>4, <2>1 DEF ServedType, collection, provider
  <2> QED
    BY <1>1, <1>4, <2>1, <2>2, TypePartsNext
<1>6. CASE Collect \/ NextRequest
  <2>1. /\ UNCHANGED <<fixture, configuration>> /\ ok' = {} /\ late' = FALSE
        /\ answer' \in {answer, "none"} /\ code' \in {code, ""}
        /\ todo' \in {todo, {}, DOMAIN Calls(method)}
    BY <1>6 DEF Collect, NextRequest
  <2>2. todo' \subseteq Nat
    BY <1>1, <2>1, CallFacts DEF InventoryInv, ControlInv
  <2>3. ServedType'
    BY <1>1, <1>4, <2>1 DEF ServedType, Codes
  <2> QED
    BY <1>4, <2>1, <2>2, <2>3, TypePartsNext
<1>7. CASE Deadline
  <2>1. /\ UNCHANGED <<fixture, configuration, method, phase, provider, answer, code>>
        /\ late' = TRUE
    BY <1>7 DEF Deadline
  <2>2. ServedType' /\ todo' = todo
    BY <1>1, <1>4, <2>1 DEF ServedType, provider
  <2> QED
    BY <1>1, <1>4, <2>1, <2>2, TypePartsNext
<1>8. CASE Abandon
  <2>1. /\ UNCHANGED <<fixture, configuration, method, broken, ok, late>> /\ todo' = {}
        /\ phase = "collecting" /\ answer' = "503" /\ code' = "timeout"
    BY <1>8 DEF Abandon, Reply
  <2>2. ServedType'
    BY <1>1, <1>4, <2>1 DEF ServedType, Codes
  <2> QED
    BY <1>4, <2>1, <2>2, TypePartsNext
<1>9. CASE Run
  <2>1. PICK i \in First(todo) :
           /\ ok' = IF Succeeds(Calls(method)[i]) THEN ok \cup {Command(Calls(method)[i])} ELSE ok
           /\ \/ /\ todo' = {} /\ answer' = "503"
                 /\ code' \in {"timeout", "execution_failed"}
              \/ /\ todo' \subseteq todo /\ answer' = answer /\ code' = code
    BY <1>9 DEF Run, Reply, Remaining
  <2>2. UNCHANGED <<fixture, configuration, method, broken, late>> /\ phase = "collecting"
    BY <1>9 DEF Run
  <2>3. i \in DOMAIN Calls(method)
    BY <2>2 DEF First, InventoryInv, ProbeInv
  <2>4. Command(Calls(method)[i]) \in CommandsOf(method)
    BY <2>3 DEF CommandsOf
  <2>5. Succeeds(Calls(method)[i]) => Command(Calls(method)[i]) \notin broken
    BY DEF Succeeds
  <2>6. ok' \subseteq CommandsOf(method) \ broken
    BY <1>1, <2>1, <2>2, <2>4, <2>5 DEF ServedType
  <2>7. ServedType' /\ todo' \subseteq Nat
    BY <1>1, <1>4, <2>1, <2>2, <2>6 DEF ServedType, Codes
  <2> QED
    BY <1>4, <2>2, <2>7, TypePartsNext
<1> QED
  BY <1>2, <1>3, <1>5, <1>6, <1>7, <1>8, <1>9

\* Type correctness of Inventory and of the collector.
THEOREM InventoryTypeCorrect == Spec => []TypeOK
<1>1. InventoryInv /\ InventoryInv' /\ TypeOK /\ [Next]_vars => TypeOK'
  <2> SUFFICES ASSUME InventoryInv, InventoryInv', TypeOK, [Next]_vars
               PROVE  TypeOK'
    OBVIOUS
  <2>1. CASE UNCHANGED vars
    <3>1. UNCHANGED <<stage, turn, todo, ok, broken, changes, expired, refused, captured,
                      original, file, adapter, executor, agentUp, method, phase, denied, late,
                      answer, code>>
      BY <2>1 DEF vars, fixture, provider, configuration, exchange
    <3>2. ServedType /\ StoredType /\ todo \subseteq Nat
      BY TypeParts
    <3>3. ServedType'
      BY <3>1, <3>2 DEF ServedType
    <3>4. StoredType'
      BY <3>1, <3>2 DEF StoredType
    <3> QED
      BY <3>1, <3>2, <3>3, <3>4, TypePartsNext
  <2> QED
    BY <2>1, CollectorType, ServeType DEF Next
<1> QED
  BY <1>1, InventoryTypeStart, InventoryInvariant, PTL DEF Spec
=============================================================================
