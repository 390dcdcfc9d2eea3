----------------------------- MODULE Inventory ------------------------------
(***************************************************************************)
(* A request for an inventory, from the handler of the API through the     *)
(* adapter that the configuration selected (httpapi/server.go, app.go,     *)
(* adapters/agent), the agent and its executor (executor_readonly.go,      *)
(* executor_fixture.go) to the commands of the provider, and back.  The    *)
(* handlers domain and domainTest call Domain, cups and printers call      *)
(* Cups; the other methods have one handler each.                          *)
(*                                                                         *)
(* The gates of the agent that do not depend on the operation are in       *)
(* AgentServer; here the agent is up or down.                              *)
(***************************************************************************)
EXTENDS OperationCatalog, FixtureCollector

CONSTANTS
    MaxBroken        \* commands that fail on a host at the same time

ASSUME InventoryConstants == MaxBroken \in Nat \ {0}

Adapters == {"mock", "fixture", "agent", "freebsd-readonly"}
Executors == {"mock", "fixture", "readonly-freebsd"}

Operation == [Inspect |-> "system_inspect", List |-> "filesystem_inspect",
              Samba |-> "samba_inspect", Domain |-> "domain_member_diagnose",
              Cups |-> "cups_inspect", Capabilities |-> "capabilities_inspect"]

VARIABLES
    adapter, executor,  \* of the configuration; both processes share it
    agentUp,
    method, phase,      \* the request: down, idle, collecting or answered
    denied,             \* commands the catalogue refused
    late,               \* the deadline of the operation has passed
    answer, code

configuration == <<adapter, executor, agentUp>>
collection == <<provider, denied, late>>
exchange == <<method, phase, denied, late, answer, code>>
vars == <<fixture, provider, configuration, exchange>>

Remotes == {"agent", "freebsd-readonly"}
Remote == adapter \in Remotes
OverFixture == "fixture" \in {adapter, executor}

TypeOK ==
    /\ adapter \in Adapters /\ executor \in Executors /\ agentUp \in BOOLEAN
    /\ method \in Methods /\ phase \in {"down", "idle", "collecting", "answered"}
    /\ FixtureTypeOK
    /\ phase # "down" => ok \in SUBSET (CommandsOf(method) \ broken)
    /\ todo \subseteq Nat /\ denied \subseteq AllCommands
    /\ late \in BOOLEAN
    /\ answer \in {"none", "200", "503"} /\ (answer # "none" <=> phase = "answered")
    /\ code \in {"", "sample", "capability_unavailable", "missing_field",
                 "timeout", "execution_failed"}

\* The configurations that run over a fixture, or do not; the executor of an
\* agent that is down or that nobody asks is no matter.
ConfigurationsOver(fixtures) ==
    {c \in [adapter : Adapters, executor : Executors, up : BOOLEAN] :
        /\ c.adapter \notin Remotes => ~c.up
        /\ ~c.up => c.executor = "mock"
        /\ fixtures <=> "fixture" \in {c.adapter, c.executor}}

\* A configuration over a fixture is started when there is one.
Init ==
    /\ FixtureInit
    /\ IF stage = "none"
       THEN /\ \E c \in ConfigurationsOver(FALSE) :
                  adapter = c.adapter /\ executor = c.executor /\ agentUp = c.up
            /\ phase = "idle" /\ method \in Methods
       ELSE /\ adapter = "fixture" /\ executor = "mock" /\ agentUp = FALSE
            /\ phase = "down" /\ method = "Inspect"
    /\ denied = {} /\ late = FALSE
    /\ answer = "none" /\ code = ""

-----------------------------------------------------------------------------
(***************************************************************************)
(* What the two ends agree on by name only: the field of the answer.       *)
(***************************************************************************)
\* (mutation: the field of the file systems is singular)
inventoryFieldSingular(m) ==
    [Inspect |-> "system", List |-> "filesystem", Samba |-> "samba",
     Domain |-> "domain", Cups |-> "cups", Capabilities |-> "capabilities"][m]

\* inventoryField of the read-only executor
inventoryField(m) ==
    [Inspect |-> "system", List |-> "filesystems", Samba |-> "samba",
     Domain |-> "domain", Cups |-> "cups", Capabilities |-> "capabilities"][m]

\* the keys the fixture executor fills in
fixtureField(m) ==
    [Inspect |-> "system", List |-> "filesystems", Samba |-> "samba",
     Domain |-> "domain", Cups |-> "cups", Capabilities |-> "capabilities"][m]

\* what adapters/agent asks for
expectedField(m) ==
    [Inspect |-> "system", List |-> "filesystems", Samba |-> "samba",
     Domain |-> "domain", Cups |-> "cups", Capabilities |-> "capabilities"][m]

Fields == CASE executor = "mock"    -> {}
            [] executor = "fixture" -> {fixtureField(method)}
            [] OTHER                -> {inventoryField(method)}

Reply(status, c) ==
    /\ phase' = "answered" /\ answer' = status /\ code' = c

-----------------------------------------------------------------------------
(***************************************************************************)
(* The process opens its fixture, or does not start.                       *)
(***************************************************************************)
Open ==
    /\ stage = "open" /\ file = "sanitized"
    /\ stage' = "opened" /\ phase' = "idle" /\ broken' = {}
    /\ \E c \in ConfigurationsOver(TRUE) :
          adapter' = c.adapter /\ executor' = c.executor /\ agentUp' = c.up
    /\ UNCHANGED <<turn, changes, expired, refused, captured, original, file, todo, ok, method,
                   denied, late, answer, code>>

OpenRefuses ==
    /\ stage = "open" /\ file = "partial"
    /\ stage' = "stopped"
    /\ UNCHANGED <<turn, changes, expired, refused, captured, original, file, provider,
                   configuration, exchange>>

-----------------------------------------------------------------------------
(***************************************************************************)
(* The request reaches the handler.                                        *)
(***************************************************************************)
\* The provider of adapters/mock has a sample for every method.
ServeSample ==
    /\ phase = "idle" /\ adapter = "mock"
    /\ Reply("200", "sample")
    /\ UNCHANGED <<fixture, configuration, method, collection>>

\* No agent behind the socket, or a capability that is not enabled.
AgentRefuses ==
    /\ phase = "idle" /\ Remote
    /\ \/ ~agentUp
       \/ /\ executor = "readonly-freebsd"
          /\ Catalog[Operation[method]].capability \notin Capabilities
    /\ Reply("503", "capability_unavailable")
    /\ UNCHANGED <<fixture, configuration, method, collection>>

Collect ==
    /\ phase = "idle" /\ adapter # "mock"
    /\ Remote => /\ agentUp
                 /\ executor = "readonly-freebsd" =>
                       Catalog[Operation[method]].capability \in Capabilities
    /\ phase' = "collecting"
    /\ todo' = IF Remote /\ executor = "mock" THEN {} ELSE DOMAIN Calls(method)
    /\ broken' \in IF OverFixture THEN {CommandsOf(method) \ captured}
                   ELSE UpTo(MaxBroken, CommandsOf(method))
    /\ ok' = {} /\ denied' = {} /\ late' = FALSE
    /\ UNCHANGED <<fixture, configuration, method, answer, code>>

-----------------------------------------------------------------------------
(***************************************************************************)
(* The provider in the executor, one command at a time.                    *)
(***************************************************************************)
OnHost == Remote /\ executor = "readonly-freebsd"

\* catalogRunner.Run refuses what the catalogue does not list; a replayed
\* command is in the fixture or is not, whatever the deadline.
Permitted(call) ==
    OnHost => commandAllowed(Operation[method], call.path, call.args)

Succeeds(call) ==
    /\ Permitted(call)
    /\ Command(call) \notin broken
    /\ OnHost => ~late

Run ==
    /\ phase = "collecting"
    /\ \E i \in First(todo) :
       LET call == Calls(method)[i]
           succeeded == Succeeds(call)
       IN  /\ ok' = IF succeeded THEN ok \cup {Command(call)} ELSE ok
           /\ denied' = IF Permitted(call) THEN denied ELSE denied \cup {Command(call)}
           /\ IF Fails(call, succeeded)
              THEN /\ todo' = {}
                   /\ Reply("503", IF late THEN "timeout" ELSE "execution_failed")
              ELSE /\ todo' = Remaining(Calls(method), todo, i, succeeded)
                   /\ UNCHANGED <<phase, answer, code>>
    /\ UNCHANGED <<fixture, configuration, method, broken, late>>

\* TimeoutSeconds of the operation has passed: every command from here on
\* fails at once.
Deadline ==
    /\ phase = "collecting" /\ OnHost /\ ~late
    /\ late' = TRUE
    /\ UNCHANGED <<fixture, configuration, method, phase, provider, denied, answer, code>>

\* The API gives up on the request (RequestTimeout) or the socket breaks.
Abandon ==
    /\ phase = "collecting" /\ Remote
    /\ todo' = {}
    /\ Reply("503", "timeout")
    /\ UNCHANGED <<fixture, configuration, method, broken, ok, denied, late>>

\* The adapter of the agent wants its field, and of Samba a version.
Decodes ==
    /\ expectedField(method) \in Fields
    /\ method = "Samba" => [path |-> "smbd", args |-> {"-V"}] \in ok

Answer ==
    /\ phase = "collecting" /\ todo = {}
    /\ IF Remote /\ ~Decodes THEN Reply("503", "missing_field") ELSE Reply("200", "")
    /\ UNCHANGED <<fixture, configuration, method, collection>>

\* The next request, perhaps for something else.
NextRequest ==
    /\ phase = "answered"
    /\ phase' = "idle" /\ method' \in Methods /\ answer' = "none" /\ code' = ""
    /\ broken' = {} /\ ok' = {} /\ denied' = {} /\ late' = FALSE
    /\ UNCHANGED <<fixture, configuration, todo>>

Next ==
    \/ CollectorNext /\ UNCHANGED <<configuration, exchange>>
    \/ Open \/ OpenRefuses
    \/ ServeSample \/ AgentRefuses \/ Collect \/ Run \/ Deadline \/ Abandon \/ Answer
    \/ NextRequest

Spec == Init /\ [][Next]_vars

-----------------------------------------------------------------------------
(***************************************************************************)
(* Properties.                                                             *)
(***************************************************************************)
Invocation(path, args) == [path |-> path, args |-> args]

\* The probe of each inventory, as the messages of the handlers name it.
MinimalProbe ==
    [Inspect |-> {Invocation("hostname", {}), Invocation("sysctl", {"-n", "kern.osrelease"})},
     List |-> {Invocation("mount", {"-p"})}, Samba |-> {Invocation("smbd", {"-V"})},
     Cups |-> {Invocation("cupsd", {"-t"})}, Domain |-> {}, Capabilities |-> {}]

\* The lists of the catalogue and of the ExecRunner let every command through
\* that the provider issues, for each inventory and for the collector,
\* whichever path through the provider the failures select.
ListsCoverProvider == denied = {} /\ refused = {}

\* samba, cups, filesystems and system answer 200 only if the minimal probe
\* succeeded in the collection of that very request, and a host on which it
\* works gets its answer: nothing between the provider and the handler
\* (deadline, executor, catalogue, names of fields, checks of the adapter)
\* turns a missing probe into a 200 or a good collection into a 503.
AnswerFollowsProbe ==
    /\ answer = "200" /\ code # "sample" => MinimalProbe[method] \subseteq ok
    /\ answer = "503" /\ adapter # "mock" /\ agentUp /\ (Remote => executor # "mock")
          /\ (OnHost => Catalog[Operation[method]].capability \in Capabilities)
          => code = "timeout" \/ MinimalProbe[method] \cap broken # {}

\* An inventory over a fixture is answered as the host answered the collector,
\* with the same error or with values from the same commands, if nothing
\* changed on the host while it was collected and the collection ended in its
\* time: capturing, sanitizing and looking a command up by its vector lose
\* nothing.
SteadyHostReplays ==
    answer # "none" /\ OverFixture /\ Steady =>
       /\ answer = "200" => original[method] = [error |-> FALSE, ok |-> ok]
       /\ code = "execution_failed" => original[method].error

\* Also when the time was over in the middle of the collection, and a command
\* that had succeeded failed in a later run: the replay then answers less than
\* the collector saw, and never what it did not see.
ReplayInventsNothing ==
    answer = "200" /\ code # "sample" /\ OverFixture /\ changes = 0 =>
       ~original[method].error /\ ok \subseteq original[method].ok
=============================================================================
