---------------------------- MODULE HostProvider ----------------------------
(***************************************************************************)
(* The methods of the read-only FreeBSD provider (adapters/freebsd) as the *)
(* sequences of commands they run.  Parsing and formatting are left out:   *)
(* of a command only whether it succeeded matters here.  A command that    *)
(* exits with an error, is missing, or prints more than the limit fails.   *)
(*                                                                         *)
(* need says what the provider does when the command fails:                *)
(*   "optional"  it goes on without the value;                             *)
(*   "gate"      it leaves the section, without an error;                  *)
(*   "probe"     the method returns an error.                              *)
(***************************************************************************)
EXTENDS Naturals, Sequences

Call(need, path, args) ==
    [path |-> path, args |-> args, need |-> need, section |-> "main"]

Command(call) == [path |-> call.path, args |-> call.args]

ListCalls ==
    <<Call("probe", "mount", {"-p"}),
      Call("optional", "df", {"-k"}),
      Call("optional", "cat", {"fstab"})>>

SambaCalls ==
    <<Call("probe", "smbd", {"-V"}),
      Call("optional", "pkg", {"query", "%n-%v", "samba423"}),
      Call("optional", "pkg", {"info", "samba423"}),
      Call("optional", "testparm", {"-s"}),
      Call("optional", "smbstatus", {"--shares"}),
      Call("optional", "smbstatus", {"--locks"})>>

DomainCalls ==
    <<Call("gate", "testparm", {"-s"}),
      Call("optional", "cat", {"resolv.conf"}),
      Call("optional", "wbinfo", {"--ping-dc"})>>

CupsCalls ==
    <<Call("optional", "pkg", {"query", "%n-%v", "cups"}),
      Call("probe", "cupsd", {"-t"}),
      Call("optional", "lpstat", {"-p"}),
      Call("optional", "lpstat", {"-v"})>>

\* A method called by another one, which ignores its error: the value is
\* empty and the caller goes on.
Inner(section, call) ==
    [path |-> call.path, args |-> call.args, section |-> section,
     need |-> IF call.need = "probe" THEN "gate" ELSE call.need]

Within(section, calls) == [i \in DOMAIN calls |-> Inner(section, calls[i])]

\* Inspect: the fields of SystemInfo in the order they are evaluated;
\* resolv.conf and ntpq are read twice.
InspectCalls ==
    <<Call("probe", "hostname", {}),
      Call("probe", "sysctl", {"-n", "kern.osrelease"}),
      Call("optional", "sysctl", {"-n", "hw.machine"}),
      Call("optional", "sysctl", {"-n", "hw.ncpu"}),
      Call("optional", "sysctl", {"-n", "hw.physmem"})>>
    \o Within("list", ListCalls) \o Within("samba", SambaCalls)
    \o Within("domain", DomainCalls)
    \o <<Call("optional", "ifconfig", {"-l"})>>
    \o Within("cups", CupsCalls)
    \o <<Call("optional", "hostname", {"-f"}),
         Call("optional", "ntpq", {"-pn"}),
         Call("optional", "cat", {"resolv.conf"}),
         Call("optional", "uptime", {}),
         Call("optional", "sysctl", {"-n", "vm.loadavg"}),
         Call("optional", "cat", {"resolv.conf"}),
         Call("optional", "ntpq", {"-pn"}),
         Call("optional", "date", {"+%Z"})>>

CapabilitiesCalls ==
    Within("samba", SambaCalls)
    \o <<Call("optional", "cat", {"fstab"}), Call("optional", "cupsd", {"-t"})>>
    \o Within("domain", DomainCalls)

Methods == {"Inspect", "List", "Samba", "Domain", "Cups", "Capabilities"}

Calls(method) ==
    CASE method = "Inspect"      -> InspectCalls
      [] method = "List"         -> ListCalls
      [] method = "Samba"        -> SambaCalls
      [] method = "Domain"       -> DomainCalls
      [] method = "Cups"         -> CupsCalls
      [] method = "Capabilities" -> CapabilitiesCalls

CommandsOf(m) == {Command(Calls(m)[i]) : i \in DOMAIN Calls(m)}
AllCommands == UNION {CommandsOf(m) : m \in Methods}

\* What a method has still to do is a set of positions in its calls; the one
\* that comes first is the next.
First(todo) == {i \in todo : \A j \in todo : i <= j}

\* The positions that are left when the call at i has succeeded or not.
Remaining(calls, todo, i, succeeded) ==
    {j \in todo \ {i} : \/ succeeded \/ calls[i].need = "optional"
                       \/ calls[j].section # calls[i].section}

\* The method returns an error.
Fails(call, succeeded) == ~succeeded /\ call.need = "probe"

-----------------------------------------------------------------------------
(***************************************************************************)
(* allowedReadOnlyInvocation: the list of the ExecRunner, which the        *)
(* fixture collector uses instead of the catalogue.                        *)
(***************************************************************************)
Only(path, sets) == {[path |-> path, args |-> a] : a \in sets}

AllowedInvocations ==
    Only("hostname", {{}, {"-f"}}) \cup Only("df", {{"-k"}})
    \cup Only("cat", {{"resolv.conf"}, {"fstab"}, {"smb4.conf"}, {"rc.conf"}})
    \cup Only("date", {{"+%Z"}}) \cup Only("mount", {{"-p"}}) \cup Only("ifconfig", {{"-l"}})
    \cup Only("sysctl", {{"-n", k} : k \in {"kern.osrelease", "hw.machine", "hw.ncpu",
                            "hw.physmem", "vm.loadavg", "kern.boottime", "hw.pagesize",
                            "vm.stats.vm.v_page_count", "vm.stats.vm.v_free_count"}})
    \cup Only("uptime", {{}})
    \cup Only("pkg", UNION {{{"query", "%n-%v", p}, {"info", "-q", p}, {"info", p}} :
                               p \in {"samba423", "cups"}})
    \cup Only("smbd", {{"-V"}}) \cup Only("testparm", {{"-s"}})
    \cup Only("smbstatus", {{"--shares"}, {"--locks"}, {"--processes"}})
    \cup Only("wbinfo", {{"--ping-dc"}, {"--online-status"}, {"--domain-name"}, {"--own-domain"}})
    \cup Only("lpstat", {{"-p"}, {"-v"}, {"-o"}}) \cup Only("cupsd", {{"-t"}})
    \cup Only("ntpq", {{"-pn"}}) \cup Only("quota", {{"-v"}})
    \cup Only("service", {{s, "status"} : s \in {"samba_server", "cupsd", "winbindd"}})

\* (mutation: ntpq is not in the list)
allowedReadOnlyInvocationNoNTP(command) ==
    command \in AllowedInvocations /\ command.path # "ntpq"

allowedReadOnlyInvocation(command) == command \in AllowedInvocations
=============================================================================
