----------------------------- MODULE MCConfig -----------------------------
(***************************************************************************)
(* Instances of Config for TLC: families of cases that each vary what can  *)
(* interact and keep the rest plain.                                       *)
(***************************************************************************)
EXTENDS Config, TLC

A == {Pattern(<<"a">>, NoSlash)}

\* A file that loads, and a request that is allowed under it.
PlainFile == [decodes |-> TRUE, KnownHostsFile |-> "file", AllowedTargets |-> A,
              AllowedPorts |-> Nil, TargetPort |-> 0, Strip |-> FALSE,
              Modules |-> [name \in {} |-> EmptyModule]]
PlainRequest == [module |-> "default", text |-> <<"a">>, extra |-> FALSE, port |-> NoPort]

Case(f, allowAll) == [file |-> f, allowAll |-> allowAll]
Only(mod) == "default" :> mod

\* Inheritance of ports, around the boundaries of their range.
PortLists == {Nil, {}, {22}, {22, 2222}, {0, 22}, {22, 65536}, {65535}}
PortCases ==
    {Case([PlainFile EXCEPT !.AllowedPorts = ports, !.TargetPort = port,
             !.Modules = Only([EmptyModule EXCEPT !.AllowedPorts = mports, !.TargetPort = mport])],
          FALSE) :
       ports \in PortLists, mports \in PortLists, port \in {0, 22, 2222},
       mport \in {-5, 0, 2222, 65535, 65536}}

\* Two modules, of which either may have a list, a bad list or none, and the flag.
Lists == {{}, A, {Pattern(<<"b">>, NoSlash)}, {Pattern(<<"*">>, NoSlash)}}
ListCases ==
    {Case([PlainFile EXCEPT !.AllowedTargets = top, !.KnownHostsFile = kh, !.Strip = strip,
             !.Modules = ("default" :> [EmptyModule EXCEPT !.AllowedTargets = one])
                      @@ ("lab" :> [EmptyModule EXCEPT !.AllowedTargets = two,
                                                       !.KnownHostsFile = labkh])],
          allowAll) :
       top \in Lists, one \in Lists, two \in Lists, kh \in {"none", "file"},
       labkh \in {"none", "file", "missing"}, strip \in BOOLEAN, allowAll \in BOOLEAN}

\* Each list of algorithms absent, of known names, or with an unknown one among them.
AlgorithmCases ==
    {Case([PlainFile EXCEPT !.Modules = Only([EmptyModule EXCEPT !.Algorithms = lists])], FALSE) :
       lists \in [Kinds -> {{}, {"supported", "insecure"}, {"supported", "unknown"}}]}

\* Every pattern of up to three labels, and below every target of up to three.
Texts(labels) == UNION {[1..n -> labels] : n \in 1..3}
Literals == {<<l>> : l \in DOMAIN IPv6}
PatternTexts == Texts({Empty, "a", "A", "*", "0"}) \cup Literals
                  \cup {<<"1", "0">>, <<"1", "1">>, <<"**", "a">>, <<"**">>, <<"*", "**">>}
Slashed(text) == IF ParseAddr(text) # NoAddr THEN {NoSlash} \cup 0..3 ELSE {NoSlash, 1}

PatternCases ==
    UNION {{Case([PlainFile EXCEPT !.AllowedTargets = {Pattern(text, slash)}], FALSE) :
              slash \in Slashed(text)} : text \in PatternTexts}

AllCases == PortCases \cup ListCases \cup AlgorithmCases \cup PatternCases
              \cup {Case([PlainFile EXCEPT !.decodes = FALSE], FALSE)}

TargetTexts == Texts({Empty, "a", "A", "0"}) \cup Literals
                 \cup {<<"1", "0">>, <<"1", "1">>, <<"0", "1">>}
AllRequests ==
    {[PlainRequest EXCEPT !.text = text] : text \in TargetTexts}
      \cup [module : {"default", "lab", "nosuch"}, text : {<<"a">>}, extra : BOOLEAN,
            port : {NoPort, BadPort, 22, 2222}]
=============================================================================
