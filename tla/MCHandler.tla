----------------------------- MODULE MCHandler -----------------------------
(***************************************************************************)
(* Instances of Handler for TLC.                                           *)
(***************************************************************************)
EXTENDS Handler, TLC

\* The two configurations disagree on everything the handler checks: the second
\* moves the default module to other hosts and ports and adds a module.
Module(port, ports, hosts) ==
    [TargetPort |-> port, AllowedPorts |-> ports, AllowedTargets |-> hosts]

Before == ("default" :> Module(22, {22}, {"a"}))
After  == ("default" :> Module(2222, {2222}, {"b"})) @@ ("lab" :> Module(22, {22}, {"a"}))

TwoConfigs == {Before, After}

Query(module, target, host, port, scrapeTimeout) ==
    [module |-> module, target |-> target, host |-> host, port |-> port,
     scrapeTimeout |-> scrapeTimeout]

\* Enough to reach every outcome: allowed before, after, in the new module only, by
\* the two configurations mixed but by neither alone, and by none at all; and every
\* kind of scrape timeout around Timeout = 4 and TimeoutOffset = 1.
SomeQueries ==
    {Query("default", "host", "b", 2222, NoHeader),
     Query("default", "host", "b", 22, NoHeader),
     Query("lab", "host", "a", NoPort, NoHeader),
     Query("nosuch", "host", "a", NoPort, NoHeader),
     Query("default", "malformed", "none", NoPort, NoHeader),
     Query("default", "missing", "none", NoPort, NoHeader)}
    \cup {Query("none", "host", "a", NoPort, s) : s \in {NoHeader, Unusable} \cup 0..6}
=============================================================================
