---- MODULE Invocation ----
(***************************************************************************)
(* How one transport invocation of gitway turns its command line, the       *)
(* user@host argument and ssh_config(5) into a connection: the order in     *)
(* which the three are laid over one another, and the route they give.  It   *)
(* comes after a `gitway config show` of the same host, whose answer is kept *)
(* to be compared with what the session does.                               *)
(*                                                                          *)
(* An option's value is represented by where it came from.                  *)
(***************************************************************************)
EXTENDS Naturals

CONSTANTS
    Options,   \* options that both the command line and ssh_config can set
    Goals      \* what the invocation is for, a subset of AllGoals

\* Each stands for the options treated like it: port for the certificate, the
\* timeouts, the attempts and the host-key policy, algorithms for the four
\* algorithm lists.  A goal is --test or a remote command, or neither.
AllOptions == {"user", "port", "identity", "algorithms"}
AllGoals   == {"run", "noCommand"}

ASSUME OptionsAssumption == Options \subseteq AllOptions
ASSUME GoalsAssumption == Goals \subseteq AllGoals

VARIABLES
    flags,       \* the options given on the command line
    prefix,      \* whether the host argument has a non-empty user@ part
    noConfig,    \* whether --no-config was given
    configFile,  \* ssh_config: "ok" or "broken"
    config,      \* the options its matching blocks set
    denied,      \* whether the algorithm flag names a denylisted algorithm
    jump,        \* ProxyJump as given by "cli" and by "config"
    proxy,       \* ProxyCommand as given by "cli" and by "config"
    goal,        \* whether there is something to do
    shown,       \* what config show said of the host
    pc,          \* where the invocation is
    resolved,    \* whether a resolved ssh_config is at hand
    from,        \* the builder: the source of each option's value
    command,     \* the effective ProxyCommand, and where it came from
    chain,       \* the effective jump chain, and where it came from
    route        \* how the session was opened

given == <<flags, prefix, noConfig, configFile, config, denied, jump, proxy, goal>>
vars == <<given, shown, pc, resolved, from, command, chain, route>>

\* An identity file may come from both the command line and ssh_config.
Sources == {"cli", "prefix", "config", "both", "default"}

\* A ProxyJump: `none` alone, a chain of hosts, a chain of several hops one of
\* which is called none, or text that is no chain.
Chains  == {"hosts", "mixed"}
Jumps   == Chains \cup {"unset", "none", "malformed"}
Proxies == {"unset", "none", "template"}
Givers  == {"cli", "config"}

\* Nothing given, from nowhere.
Unset == [value |-> "unset", source |-> "default"]

\* An answer of config show with nothing in it.
Answer(status) ==
    [status |-> status, options |-> {}, command |-> "unset", jump |-> "unset",
     hops |-> FALSE]

PcStates == {"show", "resolve", "applyConfig", "applyFlags", "algorithms", "proxies",
             "dispatch", "connect", "session", "usage"}

TypeOK ==
    /\ flags \in SUBSET Options /\ config \in SUBSET Options
    /\ prefix \in BOOLEAN /\ noConfig \in BOOLEAN /\ denied \in BOOLEAN
    /\ configFile \in {"ok", "broken"}
    /\ jump \in [Givers -> Jumps]
    /\ proxy \in [Givers -> Proxies]
    /\ goal \in Goals
    /\ shown \in [status : {"none", "error", "ok"}, options : SUBSET Options,
                   command : Proxies, jump : Jumps, hops : BOOLEAN]
    /\ pc \in PcStates
    /\ resolved \in BOOLEAN
    /\ from \in [Options -> Sources]
    /\ command \in [value : Proxies, source : Givers \cup {"default"}]
    /\ chain \in [value : Chains \cup {"unset"}, source : Givers \cup {"default"}]
    /\ route \in [value : {"closed", "command", "jump", "direct"},
                  source : Givers \cup {"default"}]

Init ==
    /\ flags \in SUBSET Options /\ config \in SUBSET Options
    /\ prefix \in BOOLEAN /\ noConfig \in BOOLEAN
    /\ denied \in (IF "algorithms" \in flags THEN BOOLEAN ELSE {FALSE})
    /\ configFile \in {"ok", "broken"}
    /\ jump \in [Givers -> Jumps]
    /\ proxy \in [Givers -> Proxies]
    /\ goal \in Goals
    /\ shown = Answer("none")
    /\ pc = "show"
    /\ resolved = FALSE
    /\ from = [o \in Options |-> "default"]
    /\ command = Unset /\ chain = Unset
    /\ route = [value |-> "closed", source |-> "default"]

Advance(at, to) == pc = at /\ pc' = to

----------------------------------------------------------------------------
(* config show *)

\* The hops are shown of a chain that is neither `none` nor malformed.
ShownHops == jump["config"] \in Chains

\* What both forms of output say: the resolved options, both directives as they
\* stand in the file, and the hops.
Printed ==
    [status |-> "ok", options |-> config, command |-> proxy["config"],
     jump |-> jump["config"], hops |-> ShownHops]

\* As Show, with a chain for every ProxyJump that is set.
ShowMutant ==
    /\ Advance("show", "resolve")
    /\ shown' = IF configFile = "broken" THEN Answer("error")
                ELSE [Printed EXCEPT !.hops = jump["config"] # "unset"]
    /\ UNCHANGED <<given, resolved, from, command, chain, route>>

\* A file that cannot be read or parsed is an error here.
Show ==
    /\ Advance("show", "resolve")
    /\ shown' = IF configFile = "broken" THEN Answer("error") ELSE Printed
    /\ UNCHANGED <<given, resolved, from, command, chain, route>>

----------------------------------------------------------------------------
(* Building the configuration *)

\* --no-config reads nothing; a broken file is warned about and ignored.
Resolve ==
    /\ Advance("resolve", "applyConfig")
    /\ resolved' = (~noConfig /\ configFile = "ok")
    /\ UNCHANGED <<given, shown, from, command, chain, route>>

ApplyConfig ==
    /\ Advance("applyConfig", "applyFlags")
    /\ from' = [o \in Options |-> IF resolved /\ o \in config THEN "config" ELSE from[o]]
    /\ UNCHANGED <<given, shown, resolved, command, chain, route>>

\* A flag's value laid over what the builder has: -i adds to it.
Over(o) == IF o = "identity" /\ from[o] = "config" THEN "both" ELSE "cli"

\* As ApplyFlags, the user@ part laid over -l.
ApplyFlagsMutant ==
    /\ Advance("applyFlags", "algorithms")
    /\ from' = [o \in Options |->
                  IF o = "user" /\ prefix THEN "prefix"
                  ELSE IF o \in flags \ {"algorithms"} THEN Over(o) ELSE from[o]]
    /\ UNCHANGED <<given, shown, resolved, command, chain, route>>

\* The command line goes over ssh_config, except for the identity file, which is
\* added to those of ssh_config; for the user, -l goes before user@.
ApplyFlags ==
    /\ Advance("applyFlags", "algorithms")
    /\ from' = [o \in Options |->
                  IF o \in flags \ {"algorithms"} THEN Over(o)
                  ELSE IF o = "user" /\ prefix THEN "prefix" ELSE from[o]]
    /\ UNCHANGED <<given, shown, resolved, command, chain, route>>

\* A denylisted algorithm is a hard error, the rest of the list or not.
ApplyAlgorithms ==
    /\ Advance("algorithms", IF denied THEN "usage" ELSE "proxies")
    /\ from' = [o \in Options |->
                  IF o = "algorithms" /\ o \in flags /\ ~denied THEN "cli" ELSE from[o]]
    /\ UNCHANGED <<given, shown, resolved, command, chain, route>>

----------------------------------------------------------------------------
(* The route *)

\* The first giver, in order, that says something.
Effective(d) ==
    IF d["cli"] # "unset" THEN [value |-> d["cli"], source |-> "cli"]
    ELSE IF resolved /\ d["config"] # "unset"
         THEN [value |-> d["config"], source |-> "config"]
         ELSE Unset

\* ProxyCommand and ProxyJump are each taken from the command line, else from
\* ssh_config; a sole `none` empties the chain, but stays in the command.
ResolveProxyDirectives ==
    /\ pc = "proxies"
    /\ command' = Effective(proxy)
    /\ LET j == Effective(jump)
       IN  /\ pc' = IF j.value = "malformed" THEN "usage" ELSE "dispatch"
           /\ chain' = IF j.value \in Chains THEN j ELSE Unset
    /\ UNCHANGED <<given, shown, resolved, from, route>>

\* As Dispatch, leaving it to the server to refuse an empty command.
DispatchMutant ==
    /\ Advance("dispatch", "connect")
    /\ UNCHANGED <<given, shown, resolved, from, command, chain, route>>

\* --test needs no command; without it an empty one is refused.
Dispatch ==
    /\ Advance("dispatch", IF goal = "noCommand" THEN "usage" ELSE "connect")
    /\ UNCHANGED <<given, shown, resolved, from, command, chain, route>>

\* As ConnectSession, running whatever ProxyCommand is set.
ConnectSessionMutant ==
    /\ Advance("connect", "session")
    /\ route' = IF command.value # "unset" THEN [value |-> "command", source |-> command.source]
                ELSE IF chain.value \in Chains THEN [value |-> "jump", source |-> chain.source]
                ELSE [value |-> "direct", source |-> "default"]
    /\ UNCHANGED <<given, shown, resolved, from, command, chain>>

\* As ConnectSession, with a chain before a command and a value of the wrong kind.
ConnectSessionMutantKind ==
    /\ Advance("connect", "session")
    /\ route' = IF chain.value \in Chains THEN [value |-> "hosts", source |-> chain.source]
                ELSE [value |-> "direct", source |-> "default"]
    /\ UNCHANGED <<given, shown, resolved, from, command, chain>>

\* A ProxyCommand other than `none` wins over a chain, a chain over a direct
\* connection.
ConnectSession ==
    /\ Advance("connect", "session")
    /\ route' = IF command.value = "template" THEN [value |-> "command", source |-> command.source]
                ELSE IF chain.value \in Chains THEN [value |-> "jump", source |-> chain.source]
                ELSE [value |-> "direct", source |-> "default"]
    /\ UNCHANGED <<given, shown, resolved, from, command, chain>>

----------------------------------------------------------------------------

Next ==
    \/ Show \/ Resolve \/ ApplyConfig \/ ApplyFlags \/ ApplyAlgorithms
    \/ ResolveProxyDirectives \/ Dispatch \/ ConnectSession

Spec == Init /\ [][Next]_vars /\ WF_vars(Next)

----------------------------------------------------------------------------
(* Properties *)

\* The user's configuration is read, and read without error.
ConfigRead == ~noConfig /\ configFile = "ok"

\* FR-48 and the comments of run: command line, then user@, then ssh_config,
\* then the default, for every option of a session that is opened; identity files
\* of the command line and of ssh_config are both there, and neither is lost.
ExpectedSource(o) ==
    IF o \in flags
    THEN IF o = "identity" /\ ConfigRead /\ o \in config THEN "both" ELSE "cli"
    ELSE IF o = "user" /\ prefix THEN "prefix"
    ELSE IF ConfigRead /\ o \in config THEN "config" ELSE "default"

Precedence ==
    pc = "session" =>
        /\ \A o \in Options : from[o] = ExpectedSource(o)
        /\ route.source = "config" => ConfigRead

\* config show tells the truth about a plain `gitway host`, nothing else given:
\* the session takes from ssh_config exactly the options that were printed and
\* the route they imply, a ProxyJump shown without hops is refused, and a file
\* show cannot read counts for nothing.
Plain == flags = {} /\ ~prefix /\ ~noConfig /\ jump["cli"] = "unset" /\ proxy["cli"] = "unset"

ShowPredictsSession ==
    /\ Plain /\ pc = "session" =>
          /\ {o \in Options : from[o] = "config"} = shown.options
          /\ route.value = IF shown.command = "template" THEN "command"
                           ELSE IF shown.hops THEN "jump" ELSE "direct"
    /\ Plain /\ pc = "usage" /\ goal # "noCommand" =>
          shown.jump \notin {"unset", "none"} /\ ~shown.hops

\* `none` is never run as a program and never turns a proxy on: a route through
\* a proxy has a directive that names one.
NoneOpensNothing ==
    /\ route.value = "command" => proxy[route.source] = "template"
    /\ route.value = "jump" => jump[route.source] \in Chains

\* Every invocation ends, and it ends in a usage error exactly when the command
\* line, or a jump chain that was read, is unusable.  An ssh_config that cannot be
\* parsed is not among the causes: run warns of it and goes on ("it shouldn't brick
\* the connection either"), whatever docs/exit-codes.md lists under code 2; see
\* BrokenConfigIsUsageError.
EndsRight ==
    <>(/\ pc \in {"session", "usage"}
       /\ pc = "usage" <=>
            \/ denied
            \/ goal = "noCommand"
            \/ jump["cli"] = "malformed"
            \/ jump["cli"] = "unset" /\ ConfigRead /\ jump["config"] = "malformed")

\* What docs/exit-codes.md says of code 2, "unparseable `~/.ssh/config` file", and
\* run does not do: no session is opened with a broken ssh_config that was to be
\* read.
BrokenConfigIsUsageError == pc = "session" => noConfig \/ configFile = "ok"

====
