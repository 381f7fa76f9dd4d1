------------------------------- MODULE Config -------------------------------
(***************************************************************************)
(* Loading the configuration (internal/config: Load, loadRawConfig and     *)
(* build) and the decision of /probe about one target under the modules    *)
(* that result.                                                            *)
(*                                                                         *)
(* loadRawConfig and build each loop over a Go map, whose order is not     *)
(* specified, and stop at the first module with an error.  Lists whose     *)
(* order does not matter are sets; YAML is external, except that a list    *)
(* that is absent (nil) and one that is empty are different things.        *)
(***************************************************************************)
EXTENDS Targets, FiniteSets

CONSTANTS
    Cases,      \* configuration files and values of the flag to try
    Requests    \* requests to /probe to try

Nil       == {NoPort}       \* an absent list of ports
MaxPort   == 65535
DefaultModuleName == "default"

\* Names of algorithms by what x/crypto/ssh makes of them.
Kinds == {"ciphers", "kex_algorithms", "macs", "host_key_algorithms"}
Known == {"supported", "insecure"}          \* SupportedAlgorithms and InsecureAlgorithms
Defaults == {"supported"}                   \* the default list of a kind

\* A path, by whether the file that it names is there; "none" if it is empty.
Paths == {"none", "file", "missing"}

\* What YAML may decode a module to.
RawModules ==
    [KnownHostsFile : Paths, AllowedTargets : SUBSET Patterns, AllowedPorts : SUBSET Int,
     TargetPort : Int, Strip : BOOLEAN, Algorithms : [Kinds -> SUBSET STRING]]

ASSUME CasesAssumption ==
    \A c \in Cases :
      /\ c.allowAll \in BOOLEAN
      /\ c.file.decodes \in BOOLEAN
      /\ c.file.KnownHostsFile \in Paths
      /\ c.file.AllowedTargets \subseteq Patterns
      /\ c.file.AllowedPorts \subseteq Int /\ c.file.TargetPort \in Int
      /\ c.file.Strip \in BOOLEAN
      /\ c.file.Modules \in [DOMAIN c.file.Modules -> RawModules]

ASSUME RequestsAssumption ==
    \A r \in Requests : r.text \in HostNames /\ r.extra \in BOOLEAN /\ r.port \in Int

EmptyModule ==
    [KnownHostsFile |-> "none", AllowedTargets |-> {}, AllowedPorts |-> Nil, TargetPort |-> 0,
     Strip |-> FALSE, Algorithms |-> [k \in Kinds |-> {}]]

VARIABLES
    input,              \* the configuration file and the flag
    pc,
    cfg,                \* rawConfig.Modules, as resolved so far
    allowAllTargets,    \* rawConfig.allowAllTargets
    pending,            \* modules the current loop has not come to
    modules,            \* what build has built
    err,                \* the error that Load returns
    request, code       \* a request and its answer: 200 if the target is probed

vars == <<input, pc, cfg, allowAllTargets, pending, modules, err, request, code>>

file == input.file

Init ==
    /\ input \in Cases
    /\ pc = "read"
    /\ cfg = [name \in {} |-> EmptyModule] /\ modules = [name \in {} |-> EmptyModule]
    /\ allowAllTargets = FALSE
    /\ pending = {}
    /\ err = "none"
    /\ request = <<>> /\ code = 0

-----------------------------------------------------------------------------
\* The error of reading or decoding the file.
fail(what) ==
    /\ pc' = "failed"
    /\ err' = what
    /\ UNCHANGED <<input, cfg, allowAllTargets, pending, modules, request, code>>

readFails == pc = "read" /\ ~file.decodes /\ fail("config_file")

decode ==
    /\ pc = "read" /\ file.decodes
    /\ pc' = "inherit"
    /\ cfg' = IF DOMAIN file.Modules = {} THEN [name \in {DefaultModuleName} |-> EmptyModule]
              ELSE file.Modules
    /\ pending' = DOMAIN cfg'
    /\ allowAllTargets' = (input.allowAll /\ file.AllowedTargets = {})
    /\ UNCHANGED <<input, modules, err, request, code>>

\* Variant of inheritPorts for which an empty list is an absent one.
InheritPortsIfEmpty(mod, port) ==
    LET ports == IF mod.AllowedPorts \in {Nil, {}} THEN file.AllowedPorts ELSE mod.AllowedPorts
    IN  IF ports \in {Nil, {}} THEN {port} ELSE ports

inheritPorts(mod, port) ==
    LET ports == IF mod.AllowedPorts = Nil THEN file.AllowedPorts ELSE mod.AllowedPorts
    IN  IF ports \in {Nil, {}} THEN {port} ELSE ports

\* A module with what it inherits from the defaults of the file.
inherit(mod) ==
    LET port == IF mod.TargetPort # 0 THEN mod.TargetPort
                ELSE IF file.TargetPort # 0 THEN file.TargetPort ELSE 22
    IN  [mod EXCEPT !.KnownHostsFile = IF @ = "none" THEN file.KnownHostsFile ELSE @,
                    !.AllowedTargets = IF @ = {} THEN file.AllowedTargets ELSE @,
                    !.Strip = @ \/ file.Strip,
                    !.TargetPort = port,
                    !.AllowedPorts = inheritPorts(mod, port)]

\* Variant of validateAlgorithms that asks for one known name.
ValidateOneAlgorithm(names) == names = {} \/ names \cap Known # {}

validateAlgorithms(names) == names \subseteq Known

\* The first check that a resolved module does not pass.
moduleError(mod) ==
    IF mod.KnownHostsFile = "none"                           THEN "known_hosts_file"
    ELSE IF \E p \in mod.AllowedPorts : p \notin 1..MaxPort  THEN "allowed_ports"
    ELSE IF mod.TargetPort \notin mod.AllowedPorts           THEN "target_port"
    ELSE IF \E k \in Kinds : ~validateAlgorithms(mod.Algorithms[k]) THEN "algorithms"
    ELSE "none"

\* One turn of loadRawConfig's loop.
resolveModule(name) ==
    /\ pc = "inherit" /\ name \in pending
    /\ LET mod == inherit(cfg[name]) IN
       \/ moduleError(mod) # "none" /\ fail(moduleError(mod))
       \/ /\ moduleError(mod) = "none"
          /\ cfg' = [cfg EXCEPT ![name] = mod]
          /\ pending' = pending \ {name}
          /\ UNCHANGED <<input, pc, allowAllTargets, modules, err, request, code>>

startBuild ==
    /\ pc = "inherit" /\ pending = {}
    /\ pc' = "build"
    /\ pending' = DOMAIN cfg
    /\ UNCHANGED <<input, cfg, allowAllTargets, modules, err, request, code>>

\* One turn of build's loop; knownhosts.New may fail on a file that is not there.
buildModule(name) ==
    /\ pc = "build" /\ name \in pending
    /\ LET matchers == resolveAllowedTargets(cfg[name].AllowedTargets, allowAllTargets) IN
       \/ cfg[name].KnownHostsFile = "missing" /\ fail("known_hosts")
       \/ /\ cfg[name].KnownHostsFile # "missing"
          /\ matchers \in {{}, {Invalid}}
          /\ fail("allowed_targets")
       \/ /\ cfg[name].KnownHostsFile # "missing"
          /\ matchers \notin {{}, {Invalid}}
          /\ modules' = [n \in DOMAIN modules \cup {name} |->
                           IF n = name THEN [cfg[name] EXCEPT !.AllowedTargets = matchers]
                           ELSE modules[n]]
          /\ pending' = pending \ {name}
          /\ UNCHANGED <<input, pc, cfg, allowAllTargets, err, request, code>>

buildReturns ==
    /\ pc = "build" /\ pending = {}
    /\ pc' = "loaded"
    /\ UNCHANGED <<input, cfg, allowAllTargets, pending, modules, err, request, code>>

-----------------------------------------------------------------------------
\* The checks of /probe, before the limit on concurrent probes.
answer(r) ==
    IF r.module \notin DOMAIN modules \/ Malformed(r) THEN 400
    ELSE LET mod    == modules[r.module]
             target == ensurePort(r, mod.TargetPort)
         IN  IF /\ target.port \in mod.AllowedPorts
                /\ targetAllowed(target.host, mod.AllowedTargets)
             THEN 200 ELSE 403

Request ==
    /\ pc = "loaded" /\ code = 0
    /\ request' \in Requests
    /\ code' = answer(request')
    /\ UNCHANGED <<input, pc, cfg, allowAllTargets, pending, modules, err>>

\* The algorithms a probe advertises: those of the module or else the defaults, of
\* which x/crypto silently drops the ones it does not know.
orDefault(algorithms) == IF algorithms = {} THEN Defaults ELSE algorithms
Advertised(mod, kind) == orDefault(mod.Algorithms[kind]) \cap Known

Done == (pc = "failed" \/ code # 0) /\ UNCHANGED vars

Next ==
    \/ readFails \/ decode
    \/ \E name \in pending : resolveModule(name) \/ buildModule(name)
    \/ startBuild \/ buildReturns
    \/ Request
    \/ Done

Spec == Init /\ [][Next]_vars

-----------------------------------------------------------------------------
(***************************************************************************)
(* Properties, stated on the file as it was written.                       *)
(***************************************************************************)
Names == IF DOMAIN file.Modules = {} THEN {DefaultModuleName} ELSE DOMAIN file.Modules
Written(name) == IF DOMAIN file.Modules = {} THEN EmptyModule ELSE file.Modules[name]

PatternsFor(name) ==
    IF Written(name).AllowedTargets # {} THEN Written(name).AllowedTargets
    ELSE file.AllowedTargets

PortFor(name) ==
    CHOOSE p \in {Written(name).TargetPort, file.TargetPort, 22} :
      \/ p = Written(name).TargetPort /\ p # 0
      \/ p = file.TargetPort /\ p # 0 /\ Written(name).TargetPort = 0
      \/ p = 22 /\ Written(name).TargetPort = 0 /\ file.TargetPort = 0

PortsFor(name) ==
    LET given == {ports \in {Written(name).AllowedPorts} : ports # Nil}
    IN  IF given = {{}} \/ (given = {} /\ file.AllowedPorts \in {Nil, {}}) THEN {PortFor(name)}
        ELSE UNION (IF given = {} THEN {file.AllowedPorts} ELSE given)

\* A module that can be loaded: it has a known_hosts file that is there, patterns that mean
\* something or the permission to do without, its port among its ports, and algorithms
\* that are implemented.
Valid(name) ==
    /\ IF Written(name).KnownHostsFile = "none" THEN file.KnownHostsFile = "file"
       ELSE Written(name).KnownHostsFile = "file"
    /\ IF PatternsFor(name) = {} THEN input.allowAll
       ELSE \A p \in PatternsFor(name) : ~Meaningless(p)
    /\ PortFor(name) \in PortsFor(name) /\ PortsFor(name) \subseteq 1..MaxPort
    /\ \A k \in Kinds : Written(name).Algorithms[k] \subseteq Known

\* Whether a file loads does not depend on the order of its modules, and a single bad
\* module keeps all others from taking effect: it loads, with all its modules, exactly
\* if each of them is valid by itself (config.go:84-163, module.go:21-78).
LoadedIffAllValid ==
    /\ pc = "loaded" => DOMAIN modules = Names /\ \A name \in Names : Valid(name)
    /\ pc = "failed" => err # "none" /\ (~file.decodes \/ \E name \in Names : ~Valid(name))

\* A request that is well formed, for a port of its module.
PortConfigured(r) ==
    /\ r.module \in Names
    /\ ~r.extra /\ ~SameName(r.text, <<Empty>>) /\ r.port # BadPort
    /\ (IF r.port = NoPort THEN PortFor(r.module) ELSE r.port) \in PortsFor(r.module)

HostConfigured(r) ==
    IF PatternsFor(r.module) = {} THEN input.allowAll
    ELSE \E p \in PatternsFor(r.module) : Denotes(p, r.text)

\* A target is probed exactly if the file says so: on a port of the module, at a host that
\* one of the module's patterns, or of the default ones if it has none, stands for; and any
\* host only with the flag and without patterns (config.go:106-136, target.go:16-127,
\* probehttp.go:85-100, 177-209).  IPv4 literals that read like a name of a pattern are
\* left to HostnamePatternsMatchOnlyHostnames.
ProbedIffConfigured ==
    code # 0 =>
      /\ PortConfigured(request) /\ HostConfigured(request) => code = 200
      /\ code = 200 =>
           /\ PortConfigured(request)
           /\ \/ HostConfigured(request)
              \/ \E p \in PatternsFor(request.module) : SpellsIP(p, request.text)

\* ssh_transport_exporter.example.yaml:6-7 says that "hostname patterns match only hostname
\* targets": under a list, an IP target is probed only for an address or a block in it.
\* The matchers of hostname patterns compare text (target.go:72, 85-92).
HostnamePatternsMatchOnlyHostnames ==
    (code = 200 /\ PatternsFor(request.module) # {} /\ IPTarget(request.text)) =>
        \E p \in PatternsFor(request.module) : ~HostnamePattern(p) /\ Covers(p, request.text)

\* A probe advertises exactly the algorithms its module lists, or the defaults: none is
\* dropped silently (config.go:40-54, probe.go:182-188).
AdvertisedAsConfigured ==
    pc = "loaded" =>
      \A name \in DOMAIN modules, k \in Kinds :
        Advertised(modules[name], k) =
            IF Written(name).Algorithms[k] = {} THEN Defaults ELSE Written(name).Algorithms[k]

\* README.md:287-288 says that "`--allow-all-targets` only relaxes that when no list is
\* configured anywhere"; config.go:107 looks at the default list only.
AllowAllOnlyWithoutLists ==
    (pc = "loaded" /\ \E name \in Names : PatternsFor(name) # {}) =>
        \A name \in DOMAIN modules : allowAllMatcher \notin modules[name].AllowedTargets
=============================================================================
