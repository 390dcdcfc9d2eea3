-------------------------- MODULE FixtureCollector --------------------------
(***************************************************************************)
(* How a fixture comes about: the collector runs the provider on the host  *)
(* and captures every command (fixturecollector and its command), Sanitize *)
(* removes what identifies the host, and the result is written to a new    *)
(* file.  Inventory opens the file and runs the same provider over it.     *)
(***************************************************************************)
EXTENDS HostProvider

CONSTANTS
    MaxCollected,  \* commands that fail on the host when the collection starts
    MaxChanges     \* times the host changes while it is collected

ASSUME FixtureConstants == MaxCollected \in Nat \ {0} /\ MaxChanges \in Nat

\* The order in which Collect calls the provider.
Order == <<"Inspect", "List", "Samba", "Domain", "Cups", "Capabilities">>

\* The sets of at most n of these commands.
UpTo(n, commands) == {{}} \cup {{f[i] : i \in 1..n} : f \in [1..n -> commands]}

\* Before a method has returned.
Nothing == [error |-> FALSE, ok |-> {}]

VARIABLES
    stage,        \* "none", "collect", "write", "open", "opened" or "stopped"
    turn,         \* position in Order
    todo, ok,     \* of a method of the provider: calls left, commands that succeeded
    broken,       \* the commands that fail
    changes,
    expired,      \* the time for the whole collection, 5 minutes, is over
    refused,      \* commands that the ExecRunner refused
    captured,     \* commands whose last captured result is a success
    original,     \* what each method returned
    file          \* "none", "partial" or "sanitized"

fixture == <<stage, turn, changes, expired, refused, captured, original, file>>
provider == <<todo, ok, broken>>

FixtureTypeOK ==
    /\ stage \in {"none", "collect", "write", "open", "opened", "stopped"}
    /\ turn \in 1..7 /\ changes \in 0..MaxChanges /\ expired \in BOOLEAN
    /\ refused \subseteq AllCommands /\ captured \subseteq AllCommands
    /\ \A m \in Methods : original[m].error \in BOOLEAN
    /\ file \in {"none", "partial", "sanitized"} /\ (stage = "opened" => file = "sanitized")

\* Nothing changed on the host, and the collection ended, or still is, in its
\* time.
Steady == changes = 0 /\ ~expired

\* Nobody needs a fixture, or one is collected on a host with some faults.
FixtureInit ==
    /\ turn = 1 /\ ok = {} /\ changes = 0 /\ expired = FALSE /\ refused = {} /\ captured = {}
    /\ original = [m \in Methods |-> Nothing] /\ file = "none"
    /\ \/ stage = "none" /\ todo = {} /\ broken = {}
       \/ /\ stage = "collect" /\ todo = DOMAIN Calls(Order[1])
          /\ broken \in UpTo(MaxCollected, AllCommands)

\* The method under way returns, and the next one of Order starts.
Return(error, commands) ==
    /\ original' = [original EXCEPT ![Order[turn]] =
                      [error |-> error, ok |-> IF error THEN {} ELSE commands]]
    /\ turn' = turn + 1 /\ ok' = {}
    /\ todo' = IF turn < 6 THEN DOMAIN Calls(Order[turn + 1]) ELSE {}

\* (mutation: of the runs of a command the first success is replayed)
CaptureKeepsSuccess ==
    /\ stage = "collect"
    /\ \E i \in First(todo) :
       LET calls == Calls(Order[turn])
           command == Command(calls[i])
           allowed == allowedReadOnlyInvocation(command)
           succeeded == allowed /\ command \notin broken /\ ~expired
       IN  /\ captured' = IF succeeded THEN captured \cup {command} ELSE captured
           /\ refused' = IF allowed THEN refused ELSE refused \cup {command}
           /\ IF Fails(calls[i], succeeded)
              THEN Return(TRUE, {})
              ELSE /\ ok' = IF succeeded THEN ok \cup {command} ELSE ok
                   /\ todo' = Remaining(calls, todo, i, succeeded)
                   /\ UNCHANGED <<turn, original>>
    /\ UNCHANGED <<stage, broken, changes, expired, file>>

\* CaptureRunner.Run over ExecRunner.Run: a refused command is captured as
\* an error, and so is one that runs when the time is over.  Of the runs of a
\* command the last one is replayed (New).
Capture ==
    /\ stage = "collect"
    /\ \E i \in First(todo) :
       LET calls == Calls(Order[turn])
           command == Command(calls[i])
           allowed == allowedReadOnlyInvocation(command)
           succeeded == allowed /\ command \notin broken /\ ~expired
       IN  /\ captured' = IF succeeded THEN captured \cup {command} ELSE captured \ {command}
           /\ refused' = IF allowed THEN refused ELSE refused \cup {command}
           /\ IF Fails(calls[i], succeeded)
              THEN Return(TRUE, {})
              ELSE /\ ok' = IF succeeded THEN ok \cup {command} ELSE ok
                   /\ todo' = Remaining(calls, todo, i, succeeded)
                   /\ UNCHANGED <<turn, original>>
    /\ UNCHANGED <<stage, broken, changes, expired, file>>

\* Collect stores what the method returned and calls the next one.
CollectMethod ==
    /\ stage = "collect" /\ todo = {} /\ turn <= 6
    /\ Return(FALSE, ok)
    /\ UNCHANGED <<stage, broken, changes, expired, refused, captured, file>>

\* Something on the host starts to fail, or works again.
HostChanges ==
    /\ stage = "collect" /\ changes < MaxChanges
    /\ \E c \in AllCommands : broken' = IF c \in broken THEN broken \ {c} ELSE broken \cup {c}
    /\ changes' = changes + 1
    /\ UNCHANGED <<stage, turn, todo, ok, expired, refused, captured, original, file>>

\* The context of the command passes its deadline: every command from here on
\* fails, and the collection goes on.
Expire ==
    /\ stage = "collect" /\ ~expired
    /\ expired' = TRUE
    /\ UNCHANGED <<stage, turn, provider, changes, refused, captured, original, file>>

\* (mutation: the names of the sysctls look like DNS names and are replaced)
SanitizeVectors ==
    /\ stage = "collect" /\ turn = 7
    /\ stage' = "write"
    /\ captured' = {c \in captured : c.path # "sysctl"}
    /\ UNCHANGED <<turn, provider, changes, expired, refused, original, file>>

\* Everything but the vectors of the commands is rewritten.
Sanitize ==
    /\ stage = "collect" /\ turn = 7
    /\ stage' = "write"
    /\ UNCHANGED <<turn, provider, changes, expired, refused, captured, original, file>>

\* A private key or a ticket cache in the output: nothing is written.
SanitizeRefuses ==
    /\ stage = "collect" /\ turn = 7
    /\ stage' = "stopped"
    /\ UNCHANGED <<turn, provider, changes, expired, refused, captured, original, file>>

\* The file is new (O_EXCL); a crash or a full disk leaves a part of it.
WriteFile ==
    /\ stage = "write" /\ file = "none"
    /\ stage' = "open" /\ file' \in {"partial", "sanitized"}
    /\ UNCHANGED <<turn, provider, changes, expired, refused, captured, original>>

CollectorNext ==
    \/ Capture \/ CollectMethod \/ HostChanges \/ Expire
    \/ Sanitize \/ SanitizeRefuses \/ WriteFile
=============================================================================
