------------------------------ MODULE Targets ------------------------------
(***************************************************************************)
(* Target patterns (internal/config/target.go), the normalisation of host  *)
(* names (internal/normalize) and the target of a request                  *)
(* (internal/probehttp, ensurePort and targetAllowed).                     *)
(*                                                                         *)
(* A host name is the sequence of its labels, so that a trailing dot is an *)
(* empty last label and the empty string is <<Empty>>.  IPv4 literals are  *)
(* shortened to two octets of one bit each, and are names too; an IPv6     *)
(* literal has no dots and is one label, with three bits.                  *)
(***************************************************************************)
EXTENDS Integers, SequencesExt

Empty   == "empty"  \* the label without characters
NoSlash == -1       \* a pattern without "/<prefix length>"
NoPort  == -1       \* a target without ":<port>"
BadPort == -2       \* a port that strconv.Atoi does not accept

\* A name has at least one label, if only the empty one.
HostNames == Seq(STRING) \ {<<>>}

\* A pattern as written: the name and the length that follows a slash, if any.
Pattern(text, slash) == [text |-> text, slash |-> slash]
Patterns == [text : HostNames, slash : Nat \cup {NoSlash}]

ToLower(label) == IF label = "A" THEN "a" ELSE label

\* IPv6 literals: two spellings of one address, another address, and one with a zone.
IPv6 == [l \in {"::1", "0::1", "::0", "::1%z"} |->
           [bits |-> IF l = "::0" THEN <<"0", "0", "0">> ELSE <<"0", "0", "1">>,
            zone |-> l = "::1%z"]]

NoAddr == [bits |-> <<>>, zone |-> FALSE]

\* netip.ParseAddr
ParseAddr(text) ==
    IF Len(text) = 2 /\ ToSet(text) \subseteq {"0", "1"} THEN [bits |-> text, zone |-> FALSE]
    ELSE IF Len(text) = 1 /\ text[1] \in DOMAIN IPv6 THEN IPv6[text[1]]
    ELSE NoAddr

\* normalize.Hostname: lower case, without one trailing dot.
Hostname(text) ==
    LET t == IF Len(text) > 1 /\ Last(text) = Empty THEN Front(text) ELSE text
    IN  [i \in DOMAIN t |-> ToLower(t[i])]

-----------------------------------------------------------------------------
Matcher(kind, text, n) == [kind |-> kind, text |-> text, n |-> n]
Invalid         == Matcher("error", <<>>, NoSlash)
allowAllMatcher == Matcher("all", <<>>, NoSlash)

newHostMatcher(text) ==
    IF Hostname(text) = <<Empty>> THEN Invalid ELSE Matcher("host", Hostname(text), NoSlash)

\* What follows "*."; a slash there is part of the name.
newWildcardMatcher(p) ==
    LET parent == IF p.slash = NoSlash THEN Hostname(Tail(p.text)) ELSE Tail(p.text)
    IN  IF \/ parent = <<Empty>> /\ p.slash = NoSlash
           \/ Contains(parent, "*") \/ Contains(parent, "**")
        THEN Invalid ELSE Matcher("wildcard", parent, p.slash)

newIPMatcher(addr) == Matcher("ip", addr.bits, NoSlash)

\* ParsePrefix, then Masked.
newCIDRMatcher(p) ==
    LET addr == ParseAddr(p.text)
    IN  IF addr = NoAddr \/ p.slash > Len(addr.bits) THEN Invalid
        ELSE LET masked == [i \in DOMAIN addr.bits |-> IF i <= p.slash THEN addr.bits[i] ELSE "0"]
             IN  Matcher("cidr", masked, p.slash)

HasZone(text) == \E i \in DOMAIN text : text[i] \in DOMAIN IPv6 /\ IPv6[text[i]].zone

buildTarget(p) ==
    IF \/ p.slash = NoSlash /\ p.text \in {<<Empty>>, <<"*">>}
       \/ Head(p.text) = "**" \/ HasZone(p.text)              THEN Invalid
    ELSE IF Head(p.text) = "*" /\ Len(p.text) > 1             THEN newWildcardMatcher(p)
    ELSE IF p.slash # NoSlash                                 THEN newCIDRMatcher(p)
    ELSE IF ParseAddr(p.text) # NoAddr                        THEN newIPMatcher(ParseAddr(p.text))
    ELSE newHostMatcher(p.text)

\* Variant of matchWildcard for which any number of labels matches.
MatchManyLabels(m, host) ==
    /\ m.n = NoSlash
    /\ Len(host) > Len(m.text)
    /\ IsSuffix(m.text, host) /\ host[1] # Empty

matchWildcard(m, host) ==
    /\ m.n = NoSlash                    \* no host has a slash in it
    /\ Len(host) = Len(m.text) + 1
    /\ Tail(host) = m.text
    /\ host[1] # Empty

\* Prefix.Contains, for an address of the same family.
Contained(m, bits) ==
    Len(bits) = Len(m.text) /\ \A i \in 1..m.n : bits[i] = m.text[i]

Match(m, host) ==
    LET addr == ParseAddr(host) IN
    \/ m.kind = "all"
    \/ m.kind = "host" /\ host = m.text
    \/ m.kind = "wildcard" /\ matchWildcard(m, host)
    \/ m.kind = "ip" /\ addr # NoAddr /\ ~addr.zone /\ addr.bits = m.text
    \/ m.kind = "cidr" /\ addr # NoAddr /\ ~addr.zone /\ Contained(m, addr.bits)

\* The matchers of a list of patterns, {} if there is none, {Invalid} on an error.
resolveAllowedTargets(patterns, allowAll) ==
    IF patterns = {} THEN IF allowAll THEN {allowAllMatcher} ELSE {}
    ELSE LET ms == {buildTarget(p) : p \in patterns}
         IN  IF Invalid \in ms THEN {Invalid} ELSE ms

targetAllowed(host, matchers) == \E m \in matchers : Match(m, host)

-----------------------------------------------------------------------------
\* A target is [text, extra, port]; `extra' stands for anything url.Parse refuses or
\* finds besides a host and a port.
Malformed(target) == target.extra \/ Hostname(target.text) = <<Empty>> \/ target.port = BadPort

ensurePort(target, defaultPort) ==
    [host |-> Hostname(target.text),
     port |-> IF target.port = NoPort THEN defaultPort ELSE target.port]

-----------------------------------------------------------------------------
(***************************************************************************)
(* What patterns mean, independently of the matchers.                      *)
(***************************************************************************)
SameName(t, u) == Hostname(t) = Hostname(u)

HostnamePattern(p) == ParseAddr(p.text) = NoAddr
IPTarget(t)        == ParseAddr(Hostname(t)) # NoAddr

\* The name t is one that the hostname pattern p spells.
Spells(p, t) ==
    IF Head(p.text) = "*"
    THEN p.slash = NoSlash /\ \E l \in ToSet(t) \ {Empty} : SameName(t, <<l>> \o Tail(p.text))
    ELSE SameName(t, p.text)

\* The address t is that of p, or is in the block p.
Covers(p, t) ==
    LET a == ParseAddr(Hostname(t))
        n == IF p.slash = NoSlash THEN Len(ParseAddr(p.text).bits) ELSE p.slash
    IN  /\ a # NoAddr /\ ~a.zone
        /\ Len(a.bits) = Len(ParseAddr(p.text).bits)
        /\ SubSeq(a.bits, 1, n) = SubSeq(ParseAddr(p.text).bits, 1, n)

\* The target text t is one the pattern p stands for: "hostname patterns match only
\* hostname targets, IP/CIDR only IP targets" (ssh_transport_exporter.example.yaml:6-7).
Denotes(p, t) ==
    IF HostnamePattern(p) THEN Spells(p, t) /\ ~IPTarget(t) ELSE Covers(p, t)

\* What that sentence leaves out and the matchers do not: an IPv4 literal that reads like
\* a name of the pattern, as 192.0.0.1 does for *.0.0.1.
SpellsIP(p, t) == HostnamePattern(p) /\ Spells(p, t) /\ IPTarget(t)

\* Patterns that are refused: the empty one, anything that would stand for all names or
\* for names of several labels, zones and blocks that are none.
Meaningless(p) ==
    LET wildcard == Head(p.text) = "*" /\ Len(p.text) > 1
        name     == IF wildcard THEN Tail(p.text) ELSE p.text
    IN  \/ Head(p.text) = "**" \/ HasZone(p.text)
        \/ p.slash = NoSlash /\ (SameName(name, <<Empty>>) \/ p.text = <<"*">>)
        \/ wildcard /\ {"*", "**"} \cap ToSet(name) # {}
        \/ /\ ~wildcard /\ p.slash # NoSlash
           /\ (ParseAddr(name) = NoAddr \/ p.slash > Len(ParseAddr(name).bits))
=============================================================================
