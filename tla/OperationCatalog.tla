-------------------------- MODULE OperationCatalog --------------------------
(***************************************************************************)
(* The closed catalogue of the agent (agent/protocol.go): what each        *)
(* operation may carry, which commands it may run and how a payload is     *)
(* validated.  Of an OperationSpec the model keeps the fields something    *)
(* reads: version, access, capability, commands and payload schema.        *)
(*                                                                         *)
(* A payload is a function from field names to values; a value is a record *)
(* of its JSON type, its text and the length of the text.                  *)
(***************************************************************************)
EXTENDS Naturals

CONSTANT Capabilities    \* a non-empty SAMBA_ADMIN_AGENT_CAPABILITIES

ASSUME SomeCapabilities == Capabilities # {}

NoArguments == <<>>      \* the empty function: nothing is allowed or carried

Value(type, text, len) == [type |-> type, text |-> text, len |-> len]
Null == Value("null", "", 0)

\* FieldRule: an empty enum allows every text, a length of zero any length.
Rule(type, required, enum, max) ==
    [type |-> type, required |-> required, enum |-> enum, max |-> max]

-----------------------------------------------------------------------------
readOperation(capability, fields, arguments) ==
    [version |-> 1, access |-> "read-only", capability |-> capability,
     arguments |-> arguments, fields |-> fields]

\* The commands of an inventory, folded into one set of arguments per path.
Folded(commands) ==
    [path \in {c.path : c \in commands} |->
        UNION {c.args : c \in {x \in commands : x.path = path}}]

readInventoryOperation(capability, version, fields, commands) ==
    [version |-> version, access |-> "read-only", capability |-> capability,
     arguments |-> Folded(commands), fields |-> fields]

mutatingOperation(capability, fields) ==
    [version |-> 1, access |-> "mutating", capability |-> capability,
     arguments |-> NoArguments, fields |-> fields]

Cmd(path, args) == [path |-> path, args |-> args]

filesystemCommands ==
    {Cmd("mount", {"-p"}), Cmd("df", {"-k"}), Cmd("cat", {"fstab"})}

sambaCommands ==
    {Cmd("smbd", {"-V"}), Cmd("pkg", {"query", "%n-%v", "samba423", "info"}),
     Cmd("testparm", {"-s"}), Cmd("smbstatus", {"--shares", "--locks"})}

domainCommands ==
    {Cmd("testparm", {"-s"}), Cmd("cat", {"resolv.conf"}), Cmd("wbinfo", {"--ping-dc"})}

cupsCommands ==
    {Cmd("pkg", {"query", "%n-%v", "cups"}), Cmd("cupsd", {"-t"}),
     Cmd("lpstat", {"-p", "-v"})}

systemCommands ==
    {Cmd("hostname", {"-f"}),
     Cmd("sysctl", {"-n", "kern.osrelease", "hw.machine", "hw.ncpu", "hw.physmem",
                    "vm.loadavg"}),
     Cmd("ifconfig", {"-l"}), Cmd("uptime", {}), Cmd("ntpq", {"-pn"}),
     Cmd("date", {"+%Z"})}
        \cup filesystemCommands \cup sambaCommands \cup domainCommands \cup cupsCommands

capabilityCommands ==
    sambaCommands \cup domainCommands \cup {Cmd("cat", {"fstab"}), Cmd("cupsd", {"-t"})}

ServiceIds == {"svc-smbd", "svc-winbindd", "svc-cupsd"}

servicePayload(actions) ==
    [serviceId |-> Rule("string", TRUE, ServiceIds, 32),
     action    |-> Rule("string", TRUE, actions, 32)]

Service(capability) ==
    mutatingOperation(capability,
                      servicePayload({"start", "stop", "restart", "reload", "health-check"}))

Catalog ==
    [system_inspect         |-> readInventoryOperation("system.inspect", 2,
                                   [dryRun |-> Rule("boolean", FALSE, {}, 0)], systemCommands),
     capabilities_inspect   |-> readInventoryOperation("capabilities.inspect", 1, NoArguments,
                                                       capabilityCommands),
     filesystem_inspect     |-> readInventoryOperation("filesystem.inspect", 2, NoArguments,
                                                       filesystemCommands),
     samba_inspect          |-> readInventoryOperation("samba.inspect", 2, NoArguments,
                                                       sambaCommands),
     domain_member_diagnose |-> readInventoryOperation("domain.member.diagnose", 2, NoArguments,
                                                       domainCommands),
     cups_inspect           |-> readInventoryOperation("cups.inspect", 2, NoArguments,
                                                       cupsCommands),
     samba_config_validate  |-> readOperation("samba.testparm", NoArguments,
                                              [testparm |-> {"-s"}]),
     quota_read             |-> readOperation("quota.ufs.read", NoArguments, [quota |-> {"-v"}]),
     service_status         |-> readOperation("service.status", servicePayload({"health-check"}),
                                   [service |-> {"samba_server", "winbindd", "cupsd", "status"}]),
     acl_read               |-> readOperation("acl.nfsv4.read",
                                   [path |-> Rule("string", TRUE, {}, 1024)], [getfacl |-> {}]),
     share_create           |-> mutatingOperation("share.write",
                                   [share  |-> Rule("object", TRUE, {}, 0),
                                    dryRun |-> Rule("boolean", FALSE, {}, 0)]),
     share_update           |-> mutatingOperation("share.write", NoArguments),
     share_disable          |-> mutatingOperation("share.write", NoArguments),
     samba_config_apply     |-> mutatingOperation("samba.config.write",
                                   [path    |-> Rule("string", TRUE, {}, 1024),
                                    content |-> Rule("string", TRUE, {}, 1048576)]),
     samba_service_reload   |-> Service("samba.service.reload"),
     samba_service_restart  |-> Service("samba.service.restart"),
     service_restart        |-> Service("service.restart"),
     service_start          |-> Service("service.start"),
     service_stop           |-> Service("service.stop"),
     service_reload         |-> Service("service.reload"),
     acl_apply              |-> mutatingOperation("acl.nfsv4.write", NoArguments),
     quota_apply            |-> mutatingOperation("quota.ufs.write", NoArguments),
     logging_test           |-> mutatingOperation("syslog.tls", NoArguments),
     backup_create          |-> mutatingOperation("backup.create", NoArguments),
     rollback_execute       |-> mutatingOperation("rollback.execute",
                                   [sourceJobId |-> Rule("string", FALSE, {}, 128),
                                    backupId    |-> Rule("string", FALSE, {}, 128),
                                    reason      |-> Rule("string", FALSE, {}, 1024)])]

LookupOperation(name) == name \in DOMAIN Catalog

IsMutation(name) == Catalog[name].access = "mutating"

-----------------------------------------------------------------------------
(***************************************************************************)
(* PayloadSchema.Validate                                                  *)
(***************************************************************************)
validateField(value, rule) ==
    /\ value.type = rule.type
    /\ rule.type = "string" =>
          /\ rule.max > 0 => value.len <= rule.max
          /\ rule.enum # {} => value.text \in rule.enum

\* A field that is present and null satisfies a required field.
Validate(fields, payload) ==
    /\ \A f \in DOMAIN fields :
          /\ fields[f].required => f \in DOMAIN payload
          /\ f \in DOMAIN payload /\ payload[f] # Null => validateField(payload[f], fields[f])
    /\ DOMAIN payload \subseteq DOMAIN fields

\* What the agent checks before it starts to listen.
ValidateCatalog ==
    \A name \in DOMAIN Catalog :
       /\ Catalog[name].version >= 1
       /\ Catalog[name].access \in {"read-only", "mutating"}
       /\ \A path \in DOMAIN Catalog[name].arguments : "" \notin Catalog[name].arguments[path]
       /\ \A f \in DOMAIN Catalog[name].fields :
             LET rule == Catalog[name].fields[f]
             IN  /\ rule.type \in {"string", "boolean", "number", "object", "array"}
                 /\ rule.enum # {} => rule.type = "string"

ASSUME CatalogueIsValid == ValidateCatalog

-----------------------------------------------------------------------------
(***************************************************************************)
(* The policy on commands: commandAllowed of executor_readonly.go.  A path *)
(* without arguments in the catalogue takes none.                          *)
(***************************************************************************)
commandAllowed(operation, path, args) ==
    LET allowed == Catalog[operation].arguments
    IN  path \in DOMAIN allowed /\ args \subseteq allowed[path]
=============================================================================
