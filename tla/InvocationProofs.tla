---- MODULE InvocationProofs ----
(***************************************************************************)
(* Proofs about Invocation, for any options and goals: its types, whose     *)
(* value each option has, that config show foretells the session, that      *)
(* `none` opens no proxy, and which invocations end in a usage error.       *)
(* The invariant says for each step of `run` what has been decided by then. *)
(***************************************************************************)
EXTENDS Invocation, TLAPS

\* ssh_config is at hand from Resolve on; a denylisted algorithm is a flag.
ReadInv ==
    /\ pc \notin {"show", "resolve"} => (resolved <=> ConfigRead)
    /\ denied => "algorithms" \in flags
    /\ pc \in {"proxies", "dispatch", "connect", "session"} => ~denied

\* The layers: ssh_config first, the command line and user@ over it, and the
\* algorithm flags last.
LayerInv ==
    /\ pc \in {"show", "resolve", "applyConfig"} => \A o \in Options : from[o] = "default"
    /\ pc = "applyFlags" =>
          \A o \in Options :
              from[o] = IF ConfigRead /\ o \in config THEN "config" ELSE "default"
    /\ pc = "algorithms" =>
          \A o \in Options : o # "algorithms" => from[o] = ExpectedSource(o)
    /\ pc = "algorithms" =>
          \A o \in Options : o = "algorithms" =>
              from[o] = IF ConfigRead /\ o \in config THEN "config" ELSE "default"
    /\ pc \in {"proxies", "dispatch", "connect", "session"} =>
          \A o \in Options : from[o] = ExpectedSource(o)

\* What was shown stays what the file says.
ShownInv ==
    pc # "show" => shown = IF configFile = "broken" THEN Answer("error") ELSE Printed

\* The two directives, once resolved.
DirectiveInv ==
    pc \in {"dispatch", "connect", "session"} =>
        /\ command = Effective(proxy)
        /\ chain = IF Effective(jump).value \in Chains THEN Effective(jump) ELSE Unset
        /\ Effective(jump).value # "malformed"

\* The route, and what is known once there is none.
RouteInv ==
    /\ pc # "session" => route = [value |-> "closed", source |-> "default"]
    /\ pc = "session" =>
          route = IF command.value = "template"
                  THEN [value |-> "command", source |-> command.source]
                  ELSE IF chain.value \in Chains
                  THEN [value |-> "jump", source |-> chain.source]
                  ELSE [value |-> "direct", source |-> "default"]
    /\ pc \in {"connect", "session"} => goal # "noCommand"
    /\ pc = "usage" => denied \/ goal = "noCommand" \/ Effective(jump).value = "malformed"

Inv == TypeOK /\ ReadInv /\ LayerInv /\ ShownInv /\ DirectiveInv /\ RouteInv

\* Types of what a directive resolves to.
LEMMA EffectiveType ==
    ASSUME TypeOK
    PROVE  /\ Effective(proxy) \in [value : Proxies, source : Givers \cup {"default"}]
           /\ Effective(jump) \in [value : Jumps, source : Givers \cup {"default"}]
<1>1. Unset \in [value : {"unset"}, source : {"default"}]
  BY DEF Unset
<1>2. /\ proxy["cli"] \in Proxies /\ proxy["config"] \in Proxies
      /\ jump["cli"] \in Jumps /\ jump["config"] \in Jumps
  BY DEF TypeOK, Givers
<1> QED
  BY <1>1, <1>2 DEF Effective, Proxies, Jumps, Givers

\* The invariant holds before the invocation.
LEMMA InitInv == Init => Inv
<1> SUFFICES ASSUME Init
             PROVE  Inv
  OBVIOUS
<1>1. TypeOK
  <2>1. shown \in [status : {"none", "error", "ok"}, options : SUBSET Options,
                   command : Proxies, jump : Jumps, hops : BOOLEAN]
    BY DEF Init, Answer, Proxies, Jumps
  <2>2. denied \in BOOLEAN
    BY DEF Init
  <2>3. /\ command \in [value : Proxies, source : Givers \cup {"default"}]
        /\ chain \in [value : Chains \cup {"unset"}, source : Givers \cup {"default"}]
        /\ route \in [value : {"closed", "command", "jump", "direct"},
                      source : Givers \cup {"default"}]
    BY DEF Init, Unset, Proxies
  <2> QED
    BY <2>1, <2>2, <2>3 DEF Init, TypeOK, PcStates, Sources
<1>2. ReadInv
  BY DEF Init, ReadInv
<1>3. LayerInv /\ ShownInv /\ DirectiveInv /\ RouteInv
  BY DEF Init, LayerInv, ShownInv, DirectiveInv, RouteInv
<1> QED
  BY <1>1, <1>2, <1>3 DEF Inv

\* Every step keeps the invariant.
LEMMA NextInv == Inv /\ [Next]_vars => Inv'
<1> SUFFICES ASSUME Inv, [Next]_vars
             PROVE  Inv'
  OBVIOUS
<1> USE DEF Inv, Advance, given
<1>1. CASE Show
  <2>1. /\ pc = "show" /\ pc' = "resolve"
        /\ shown' = IF configFile = "broken" THEN Answer("error") ELSE Printed
        /\ UNCHANGED <<flags, prefix, noConfig, configFile, config, denied, jump, proxy,
                       goal, resolved, from, command, chain, route>>
    BY <1>1 DEF Show
  <2>2. /\ Answer("error") \in [status : {"none", "error", "ok"}, options : SUBSET Options,
                                command : Proxies, jump : Jumps, hops : BOOLEAN]
        /\ Printed \in [status : {"none", "error", "ok"}, options : SUBSET Options,
                        command : Proxies, jump : Jumps, hops : BOOLEAN]
    BY DEF TypeOK, Answer, Printed, ShownHops, Givers, Proxies, Jumps
  <2>3. TypeOK'
    BY <2>1, <2>2 DEF TypeOK, PcStates
  <2>4. ShownInv'
    BY <2>1 DEF ShownInv, Answer, Printed, ShownHops
  <2>5. ReadInv' /\ LayerInv' /\ DirectiveInv' /\ RouteInv'
    BY <2>1 DEF ReadInv, LayerInv, DirectiveInv, RouteInv
  <2> QED
    BY <2>3, <2>4, <2>5
<1>2. CASE Resolve
  <2>1. /\ pc = "resolve" /\ pc' = "applyConfig"
        /\ resolved' = (~noConfig /\ configFile = "ok")
        /\ UNCHANGED <<flags, prefix, noConfig, configFile, config, denied, jump, proxy,
                       goal, shown, from, command, chain, route>>
    BY <1>2 DEF Resolve
  <2>2. TypeOK'
    BY <2>1 DEF TypeOK, PcStates
  <2>3. ReadInv' /\ LayerInv' /\ DirectiveInv' /\ RouteInv'
    BY <2>1 DEF ReadInv, LayerInv, DirectiveInv, RouteInv, ConfigRead
  <2>4. ShownInv'
    BY <2>1 DEF ShownInv, Answer, Printed, ShownHops
  <2> QED
    BY <2>2, <2>3, <2>4
<1>3. CASE ApplyConfig
  <2>1. /\ pc = "applyConfig" /\ pc' = "applyFlags"
        /\ from' = [o \in Options |-> IF resolved /\ o \in config THEN "config" ELSE from[o]]
        /\ UNCHANGED <<flags, prefix, noConfig, configFile, config, denied, jump, proxy,
                       goal, shown, resolved, command, chain, route>>
    BY <1>3 DEF ApplyConfig
  <2>2. TypeOK'
    BY <2>1 DEF TypeOK, PcStates, Sources
  <2>3. ReadInv' /\ LayerInv' /\ DirectiveInv' /\ RouteInv'
    BY <2>1 DEF ReadInv, LayerInv, DirectiveInv, RouteInv, ConfigRead
  <2>4. ShownInv'
    BY <2>1 DEF ShownInv, Answer, Printed, ShownHops
  <2> QED
    BY <2>2, <2>3, <2>4
<1>4. CASE ApplyFlags
  <2>1. /\ pc = "applyFlags" /\ pc' = "algorithms"
        /\ from' = [o \in Options |->
                      IF o \in flags \ {"algorithms"} THEN Over(o)
                      ELSE IF o = "user" /\ prefix THEN "prefix" ELSE from[o]]
        /\ UNCHANGED <<flags, prefix, noConfig, configFile, config, denied, jump, proxy,
                       goal, shown, resolved, command, chain, route>>
    BY <1>4 DEF ApplyFlags
  <2>2. TypeOK'
    BY <2>1 DEF TypeOK, PcStates, Sources, Over
  <2>3. ReadInv' /\ DirectiveInv' /\ RouteInv'
    BY <2>1 DEF ReadInv, DirectiveInv, RouteInv, ConfigRead
  <2>4. LayerInv'
    BY <2>1 DEF LayerInv, ConfigRead, ExpectedSource, Over
  <2>5. ShownInv'
    BY <2>1 DEF ShownInv, Answer, Printed, ShownHops
  <2> QED
    BY <2>2, <2>3, <2>4, <2>5
<1>5. CASE ApplyAlgorithms
  <2>1. /\ pc = "algorithms" /\ pc' = IF denied THEN "usage" ELSE "proxies"
        /\ from' = [o \in Options |->
                      IF o = "algorithms" /\ o \in flags /\ ~denied THEN "cli" ELSE from[o]]
        /\ UNCHANGED <<flags, prefix, noConfig, configFile, config, denied, jump, proxy,
                       goal, shown, resolved, command, chain, route>>
    BY <1>5 DEF ApplyAlgorithms
  <2>2. TypeOK'
    BY <2>1 DEF TypeOK, PcStates, Sources
  <2>3. ReadInv' /\ DirectiveInv' /\ RouteInv'
    BY <2>1 DEF ReadInv, DirectiveInv, RouteInv, ConfigRead
  <2>4. LayerInv'
    BY <2>1 DEF LayerInv, ConfigRead, ExpectedSource
  <2>5. ShownInv'
    BY <2>1 DEF ShownInv, Answer, Printed, ShownHops
  <2> QED
    BY <2>2, <2>3, <2>4, <2>5
<1>6. CASE ResolveProxyDirectives
  <2> DEFINE j == Effective(jump)
  <2>1. /\ pc = "proxies" /\ pc' = IF j.value = "malformed" THEN "usage" ELSE "dispatch"
        /\ command' = Effective(proxy)
        /\ chain' = IF j.value \in Chains THEN j ELSE Unset
        /\ UNCHANGED <<flags, prefix, noConfig, configFile, config, denied, jump, proxy,
                       goal, shown, resolved, from, route>>
    BY <1>6 DEF ResolveProxyDirectives
  <2>2. /\ command' \in [value : Proxies, source : Givers \cup {"default"}]
        /\ chain' \in [value : Chains \cup {"unset"}, source : Givers \cup {"default"}]
    BY <2>1, EffectiveType DEF Unset
  <2>3. TypeOK'
    BY <2>1, <2>2 DEF TypeOK, PcStates
  <2>4. Effective(jump)' = Effective(jump) /\ Effective(proxy)' = Effective(proxy)
    BY <2>1 DEF Effective
  <2>5. ReadInv' /\ LayerInv'
    BY <2>1 DEF ReadInv, LayerInv, ConfigRead, ExpectedSource
  <2>6. DirectiveInv' /\ RouteInv'
    BY <2>1, <2>4 DEF DirectiveInv, RouteInv
  <2>7. ShownInv'
    BY <2>1 DEF ShownInv, Answer, Printed, ShownHops
  <2> QED
    BY <2>3, <2>5, <2>6, <2>7
<1>7. CASE Dispatch
  <2>1. /\ pc = "dispatch" /\ pc' = IF goal = "noCommand" THEN "usage" ELSE "connect"
        /\ UNCHANGED <<flags, prefix, noConfig, configFile, config, denied, jump, proxy,
                       goal, shown, resolved, from, command, chain, route>>
    BY <1>7 DEF Dispatch
  <2>2. TypeOK'
    BY <2>1 DEF TypeOK, PcStates
  <2>3. ReadInv' /\ LayerInv' /\ DirectiveInv' /\ RouteInv'
    BY <2>1 DEF ReadInv, LayerInv, DirectiveInv, RouteInv, ConfigRead, ExpectedSource,
                Effective
  <2>4. ShownInv'
    BY <2>1 DEF ShownInv, Answer, Printed, ShownHops
  <2> QED
    BY <2>2, <2>3, <2>4
<1>8. CASE ConnectSession
  <2>1. /\ pc = "connect" /\ pc' = "session"
        /\ route' = IF command.value = "template"
                    THEN [value |-> "command", source |-> command.source]
                    ELSE IF chain.value \in Chains
                    THEN [value |-> "jump", source |-> chain.source]
                    ELSE [value |-> "direct", source |-> "default"]
        /\ UNCHANGED <<flags, prefix, noConfig, configFile, config, denied, jump, proxy,
                       goal, shown, resolved, from, command, chain>>
    BY <1>8 DEF ConnectSession
  <2>2. route' \in [value : {"closed", "command", "jump", "direct"},
                    source : Givers \cup {"default"}]
    BY <2>1 DEF TypeOK
  <2>3. TypeOK'
    BY <2>1, <2>2 DEF TypeOK, PcStates
  <2>4. ReadInv' /\ LayerInv' /\ DirectiveInv' /\ RouteInv'
    BY <2>1 DEF ReadInv, LayerInv, DirectiveInv, RouteInv, ConfigRead, ExpectedSource,
                Effective
  <2>5. ShownInv'
    BY <2>1 DEF ShownInv, Answer, Printed, ShownHops
  <2> QED
    BY <2>3, <2>4, <2>5
<1>9. CASE UNCHANGED vars
  BY <1>9 DEF vars, TypeOK, ReadInv, LayerInv, ShownInv, DirectiveInv, RouteInv,
              ConfigRead, ExpectedSource, Effective, Answer, Printed, ShownHops
<1> QED
  BY <1>1, <1>2, <1>3, <1>4, <1>5, <1>6, <1>7, <1>8, <1>9 DEF Next

\* Inv holds in every state.
LEMMA Invariance == Spec => []Inv
BY InitInv, NextInv, PTL DEF Spec

\* Every variable of Invocation keeps its type.
THEOREM TypeCorrect == Spec => []TypeOK
<1>1. Inv => TypeOK
  BY DEF Inv
<1> QED
  BY <1>1, Invariance, PTL

\* Every option of an open session has its value from the command line, else from
\* user@, else from an ssh_config that was read, whatever the options.
THEOREM PrecedenceSound == Spec => []Precedence
<1>1. Inv => Precedence
  <2> SUFFICES ASSUME Inv, pc = "session"
               PROVE  /\ \A o \in Options : from[o] = ExpectedSource(o)
                      /\ route.source = "config" => ConfigRead
    BY DEF Precedence
  <2>1. \A o \in Options : from[o] = ExpectedSource(o)
    BY DEF Inv, LayerInv
  <2>2. route.source = "config" =>
            Effective(proxy).source = "config" \/ Effective(jump).source = "config"
    BY DEF Inv, RouteInv, DirectiveInv, Unset
  <2>3. \A d : Effective(d).source = "config" => resolved
    BY DEF Effective, Unset
  <2> QED
    BY <2>1, <2>2, <2>3 DEF Inv, ReadInv
<1> QED
  BY <1>1, Invariance, PTL

\* `none` is never run and opens no proxy.
THEOREM NoneSound == Spec => []NoneOpensNothing
<1>1. Inv => NoneOpensNothing
  <2> SUFFICES ASSUME Inv
               PROVE  NoneOpensNothing
    OBVIOUS
  <2>1. ASSUME NEW d, Effective(d).value # "unset"
        PROVE  d[Effective(d).source] = Effective(d).value
    BY <2>1 DEF Effective, Unset
  <2>2. ASSUME route.value = "command"
        PROVE  proxy[route.source] = "template"
    <3>1. Effective(proxy).value = "template" /\ route.source = Effective(proxy).source
      BY <2>2 DEF Inv, RouteInv, DirectiveInv
    <3> QED
      BY <2>1, <3>1
  <2>3. ASSUME route.value = "jump"
        PROVE  jump[route.source] \in Chains
    <3>1. Effective(jump).value \in Chains /\ route.source = Effective(jump).source
      BY <2>3 DEF Inv, RouteInv, DirectiveInv, Unset, Chains
    <3> QED
      BY <2>1, <3>1 DEF Chains
  <2> QED
    BY <2>2, <2>3 DEF NoneOpensNothing
<1> QED
  BY <1>1, Invariance, PTL

\* What config show printed is what a plain session of the host does.
THEOREM ShowSound == Spec => []ShowPredictsSession
<1>1. Inv => ShowPredictsSession
  <2> SUFFICES ASSUME Inv, Plain
               PROVE  ShowPredictsSession
    BY DEF ShowPredictsSession
  <2>0. /\ \A o \in Options : ExpectedSource(o) =
              IF configFile = "ok" /\ o \in config THEN "config" ELSE "default"
        /\ ~denied /\ configFile \in {"ok", "broken"}
        /\ config \subseteq Options
    BY DEF Inv, ReadInv, TypeOK, Plain, ExpectedSource, ConfigRead
  <2>1. pc \notin {"show", "resolve"} => (resolved <=> configFile = "ok")
    BY DEF Inv, ReadInv, Plain, ConfigRead
  <2>2. ASSUME pc = "session"
        PROVE  {o \in Options : from[o] = "config"} = shown.options
    <3>1. \A o \in Options : from[o] = "config" <=> configFile = "ok" /\ o \in config
      BY <2>0, <2>2 DEF Inv, LayerInv
    <3>2. shown.options = IF configFile = "broken" THEN {} ELSE config
      BY <2>2 DEF Inv, ShownInv, Answer, Printed
    <3> QED
      BY <2>0, <3>1, <3>2
  <2>3. ASSUME pc = "session"
        PROVE  route.value = IF shown.command = "template" THEN "command"
                             ELSE IF shown.hops THEN "jump" ELSE "direct"
    <3>1. CASE configFile = "ok"
      <4>1. shown = Printed
        BY <2>3, <3>1 DEF Inv, ShownInv
      <4>2. Effective(proxy).value = proxy["config"] /\ Effective(jump).value = jump["config"]
        BY <2>1, <2>3, <3>1 DEF Effective, Unset, Plain
      <4>3. shown.command = proxy["config"] /\ (shown.hops <=> jump["config"] \in Chains)
        BY <4>1, Zenon DEF Printed, ShownHops
      <4> QED
        BY <2>3, <4>2, <4>3 DEF Inv, RouteInv, DirectiveInv, Unset, Chains
    <3>2. CASE configFile = "broken"
      <4>1. shown.command = "unset" /\ shown.hops = FALSE
        BY <2>3, <3>2 DEF Inv, ShownInv, Answer
      <4>2. Effective(proxy).value = "unset" /\ Effective(jump).value = "unset"
        BY <2>1, <2>3, <3>2 DEF Effective, Unset, Plain
      <4> QED
        BY <2>3, <4>1, <4>2 DEF Inv, RouteInv, DirectiveInv, Unset, Chains
    <3> QED
      BY <2>0, <3>1, <3>2
  <2>4. ASSUME pc = "usage", goal # "noCommand"
        PROVE  shown.jump \notin {"unset", "none"} /\ ~shown.hops
    <3>1. Effective(jump).value = "malformed"
      BY <2>0, <2>4 DEF Inv, RouteInv
    <3>2. configFile = "ok" /\ jump["config"] = "malformed"
      BY <2>1, <2>4, <3>1 DEF Effective, Unset, Plain
    <3>3. shown = Printed
      BY <2>4, <3>2 DEF Inv, ShownInv
    <3>4. shown.jump = jump["config"] /\ (shown.hops <=> jump["config"] \in Chains)
      BY <3>3, Zenon DEF Printed, ShownHops
    <3> QED
      BY <3>2, <3>4 DEF Chains
  <2> QED
    BY <2>2, <2>3, <2>4 DEF ShowPredictsSession
<1> QED
  BY <1>1, Invariance, PTL

\* An invocation that ends in a usage error was given a denylisted algorithm, no
\* command, or a malformed jump chain that counts; no session is opened in spite
\* of one.  (That every invocation ends is left to the model checker.)
UsageRight ==
    pc \in {"session", "usage"} =>
        (pc = "usage" <=>
            \/ denied
            \/ goal = "noCommand"
            \/ jump["cli"] = "malformed"
            \/ jump["cli"] = "unset" /\ ConfigRead /\ jump["config"] = "malformed")

\* The verdict on a command line is the right one, whatever the options.
THEOREM UsageSound == Spec => []UsageRight
<1>1. Inv => UsageRight
  <2> SUFFICES ASSUME Inv, pc \in {"session", "usage"}
               PROVE  UsageRight
    BY DEF UsageRight
  <2>1. resolved <=> ConfigRead
    BY DEF Inv, ReadInv
  <2>2. Effective(jump).value = "malformed" <=>
            \/ jump["cli"] = "malformed"
            \/ jump["cli"] = "unset" /\ resolved /\ jump["config"] = "malformed"
    BY DEF Effective, Unset
  <2> QED
    BY <2>1, <2>2 DEF Inv, ReadInv, DirectiveInv, RouteInv, UsageRight
<1> QED
  BY <1>1, Invariance, PTL

====
