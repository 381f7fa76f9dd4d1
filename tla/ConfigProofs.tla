---------------------------- MODULE ConfigProofs ----------------------------
(***************************************************************************)
(* Proofs about Config and Targets: which files load, and which targets    *)
(* are probed under them.                                                  *)
(*                                                                         *)
(* First, of patterns alone: buildTarget refuses the meaningless ones, and *)
(* what it builds of the others matches the targets they stand for.  Then  *)
(* of modules: what a module inherits is what Valid says of it.  The       *)
(* invariant of the two loops is that every module they have come to is    *)
(* resolved, or built, without an error, the others are as before, and a   *)
(* failure names a module that is not valid.  No order of the modules is   *)
(* in it, nor the number of them.                                          *)
(***************************************************************************)
EXTENDS Config, SequenceTheorems, TLAPS

\* Labels in lower case.
Labels == STRING \cup {"a"}

\* Lower case neither makes nor removes the labels that mean something.
LEMMA LowerLabel ==
    ASSUME NEW l \in STRING
    PROVE  /\ ToLower(l) \in Labels
           /\ ToLower(l) = Empty <=> l = Empty
           /\ ToLower(l) = "*" <=> l = "*"
           /\ ToLower(l) = "**" <=> l = "**"
  BY DEF ToLower, Labels, Empty

\* A name without its trailing dot.
Undotted(text) == IF Len(text) > 1 /\ Last(text) = Empty THEN Front(text) ELSE text

\* A name is a sequence of one label or more.
LEMMA NameLen ==
    ASSUME NEW text \in HostNames
    PROVE  text \in Seq(STRING) /\ Len(text) \in Nat \ {0} /\ DOMAIN text = 1..Len(text)
           /\ \A i \in 1..Len(text) : text[i] \in STRING
  BY EmptySeq, LenProperties, ElementOfSeq DEF HostNames

\* What is left without the trailing dot is the start of the name.
LEMMA UndottedName ==
    ASSUME NEW text \in HostNames
    PROVE  /\ Undotted(text) \in HostNames
           /\ Len(Undotted(text)) =
                IF Len(text) > 1 /\ text[Len(text)] = Empty THEN Len(text) - 1 ELSE Len(text)
           /\ \A i \in 1..Len(Undotted(text)) : Undotted(text)[i] = text[i]
  <1>1. /\ text \in Seq(STRING) /\ Len(text) \in Nat \ {0}
        /\ \A i \in 1..Len(text) : text[i] \in STRING
    BY NameLen
  <1>2. CASE Len(text) > 1 /\ Last(text) = Empty
    <2>1. Undotted(text) = SubSeq(text, 1, Len(text) - 1)
      BY <1>2 DEF Undotted, Front
    <2>2. 1 \in 1..Len(text) + 1 /\ Len(text) - 1 \in 0..Len(text)
      BY <1>1
    <2>3. /\ SubSeq(text, 1, Len(text) - 1) \in Seq(STRING)
          /\ Len(SubSeq(text, 1, Len(text) - 1)) = Len(text) - 1
          /\ \A i \in 1..(Len(text) - 1) : SubSeq(text, 1, Len(text) - 1)[i] = text[i]
      <3>1. \A i \in 1..(Len(text) - 1) : text[i] \in STRING
        BY <1>1
      <3>2. 1 <= Len(text) - 1
        BY <1>1, <1>2
      <3> QED  BY <1>1, <2>2, <3>1, <3>2, SubSeqProperties
    <2>4. Undotted(text) # <<>>
      <3>1. Len(Undotted(text)) # 0
        BY <1>1, <1>2, <2>1, <2>3
      <3> QED  BY <3>1
    <2> QED  BY <1>1, <1>2, <2>1, <2>3, <2>4 DEF HostNames, Last
  <1>3. CASE ~(Len(text) > 1 /\ Last(text) = Empty)
    BY <1>1, <1>3 DEF Undotted, Last
  <1> QED  BY <1>2, <1>3

\* What Hostname returns.
LEMMA HostnameIs ==
    ASSUME NEW text \in HostNames
    PROVE  /\ Hostname(text) \in Seq(Labels)
           /\ Len(Hostname(text)) = Len(Undotted(text))
           /\ Len(Hostname(text)) \in Nat \ {0}
           /\ Len(Hostname(text)) =
                IF Len(text) > 1 /\ text[Len(text)] = Empty THEN Len(text) - 1 ELSE Len(text)
           /\ \A i \in 1..Len(Hostname(text)) : Hostname(text)[i] = ToLower(text[i])
  <1> DEFINE t == Undotted(text)
  <1>1. /\ t \in HostNames
        /\ Len(t) = IF Len(text) > 1 /\ text[Len(text)] = Empty THEN Len(text) - 1 ELSE Len(text)
        /\ \A i \in 1..Len(t) : t[i] = text[i]
    BY UndottedName
  <1>2. /\ t \in Seq(STRING) /\ Len(t) \in Nat \ {0} /\ DOMAIN t = 1..Len(t)
        /\ \A i \in 1..Len(t) : t[i] \in STRING
    BY <1>1, NameLen
  <1>3. Hostname(text) = [i \in DOMAIN t |-> ToLower(t[i])]
    BY DEF Hostname, Undotted
  <1> HIDE DEF t
  <1>4. Hostname(text) = [i \in 1..Len(t) |-> ToLower(t[i])]
    BY <1>2, <1>3
  <1>5. \A i \in 1..Len(t) : ToLower(t[i]) \in Labels
    BY <1>2, LowerLabel
  <1>6. Hostname(text) \in Seq(Labels) /\ Len(Hostname(text)) = Len(t)
    BY <1>2, <1>4, <1>5
  <1> QED  BY <1>1, <1>2, <1>4, <1>6 DEF t

-----------------------------------------------------------------------------
(***************************************************************************)
(* Patterns: what is refused, and what the rest stands for.                *)
(***************************************************************************)
\* The empty name.
LEMMA EmptyName ==
    ASSUME NEW text \in HostNames
    PROVE  /\ SameName(text, <<Empty>>) <=> Hostname(text) = <<Empty>>
           /\ Hostname(text) = <<Empty>> <=> Len(Hostname(text)) = 1 /\ text[1] = Empty
  <1>1. Hostname(<<Empty>>) = <<Empty>>
    BY DEF Hostname, ToLower, Empty
  <1>2. /\ Hostname(text) \in Seq(Labels) /\ Len(Hostname(text)) \in Nat \ {0}
        /\ \A i \in 1..Len(Hostname(text)) : Hostname(text)[i] = ToLower(text[i])
    BY HostnameIs
  <1>3. Hostname(text)[1] = Empty <=> text[1] = Empty
    <2>1. Hostname(text)[1] = ToLower(text[1])
      BY <1>2
    <2>2. text[1] \in STRING
      BY NameLen
    <2> QED  BY <2>1, <2>2, LowerLabel
  <1> QED  BY <1>1, <1>2, <1>3 DEF SameName

\* Lower case and the trailing dot do not hide or make a wildcard.
LEMMA HostnameKeeps ==
    ASSUME NEW text \in HostNames, NEW s \in {"*", "**"}
    PROVE  Contains(Hostname(text), s) <=> s \in ToSet(text)
  <1> DEFINE h == Hostname(text)
             n == Len(text)
  <1>1. /\ Len(h) \in Nat \ {0}
        /\ Len(h) = IF n > 1 /\ text[n] = Empty THEN n - 1 ELSE n
        /\ \A i \in 1..Len(h) : h[i] = ToLower(text[i])
    BY HostnameIs
  <1>2. /\ n \in Nat \ {0} /\ DOMAIN text = 1..n
        /\ \A i \in 1..n : text[i] \in STRING
    BY NameLen
  <1> HIDE DEF h, n
  <1>3. \A i \in 1..n : ToLower(text[i]) = s <=> text[i] = s
    BY <1>2, LowerLabel
  <1>4. s # Empty
    BY DEF Empty
  <1>5. \A i \in 1..n : text[i] = s => i \in 1..Len(h)
    BY <1>1, <1>2, <1>4
  <1>6. \A i \in 1..Len(h) : i \in 1..n
    BY <1>1, <1>2
  <1>7. Contains(h, s) <=> \E i \in 1..Len(h) : h[i] = s
    BY DEF Contains
  <1>8. s \in ToSet(text) <=> \E i \in 1..n : text[i] = s
    BY <1>2 DEF ToSet
  <1>9. Contains(h, s) <=> s \in ToSet(text)
    BY <1>1, <1>3, <1>5, <1>6, <1>7, <1>8
  <1> QED  BY <1>9 DEF h

\* What ParseAddr makes of a name; a literal has no empty label and no wildcard.
LEMMA AddrOf ==
    ASSUME NEW S, NEW text \in Seq(S), text # <<>>
    PROVE  /\ ParseAddr(text) # NoAddr =>
                /\ text[1] \notin {Empty, "*", "**"}
                /\ text[Len(text)] # Empty
           /\ ParseAddr(text).bits \in Seq({"0", "1"}) /\ Len(ParseAddr(text).bits) \in Nat
  <1>0. Len(text) \in Nat \ {0} /\ DOMAIN text = 1..Len(text)
    BY EmptySeq, LenProperties
  <1>1. CASE Len(text) = 2 /\ ToSet(text) \subseteq {"0", "1"}
    <2>1. ParseAddr(text).bits = text
      BY <1>1 DEF ParseAddr
    <2>2. text[1] \in {"0", "1"} /\ text[2] \in {"0", "1"}
      BY <1>0, <1>1 DEF ToSet
    <2>3. text \in Seq({"0", "1"})
      <3>1. \A i \in 1..Len(text) : text[i] \in {"0", "1"}
        BY <1>1, <2>2
      <3> QED  BY <1>0, <3>1
    <2> QED  BY <1>0, <1>1, <2>1, <2>2, <2>3 DEF Empty
  <1>2. CASE /\ ~(Len(text) = 2 /\ ToSet(text) \subseteq {"0", "1"})
             /\ Len(text) = 1 /\ text[1] \in DOMAIN IPv6
    <2>1. ParseAddr(text).bits = IPv6[text[1]].bits
      BY <1>2 DEF ParseAddr
    <2>2. text[1] \in {"::1", "0::1", "::0", "::1%z"}
      BY <1>2 DEF IPv6
    <2>3. IPv6[text[1]].bits \in {<<"0", "0", "0">>, <<"0", "0", "1">>}
      BY <2>2 DEF IPv6
    <2>4. \A b \in {<<"0", "0", "0">>, <<"0", "0", "1">>} :
            b \in Seq({"0", "1"}) /\ Len(b) \in Nat
      <3>1. /\ <<"0", "0", "0">> \in Seq({"0", "1"})
            /\ <<"0", "0", "1">> \in Seq({"0", "1"})
        OBVIOUS
      <3> QED  BY <3>1, LenProperties
    <2> QED  BY <1>2, <2>1, <2>2, <2>3, <2>4 DEF Empty
  <1>3. CASE /\ ~(Len(text) = 2 /\ ToSet(text) \subseteq {"0", "1"})
             /\ ~(Len(text) = 1 /\ text[1] \in DOMAIN IPv6)
    <2>1. ParseAddr(text) = NoAddr /\ NoAddr.bits = <<>>
      BY <1>3 DEF ParseAddr, NoAddr
    <2> QED  BY <2>1
  <1> QED  BY <1>1, <1>2, <1>3

\* The parts of a matcher.
LEMMA MatcherParts ==
    ASSUME NEW kind, NEW text, NEW n
    PROVE  /\ Matcher(kind, text, n).kind = kind
           /\ Matcher(kind, text, n).text = text
           /\ Matcher(kind, text, n).n = n
           /\ kind # "error" => Matcher(kind, text, n) # Invalid
  BY DEF Matcher, Invalid

IsWildcard(p) == Head(p.text) = "*" /\ Len(p.text) > 1

\* What is left of a wildcard without its first label is a name.
LEMMA ParentName ==
    ASSUME NEW p \in Patterns, IsWildcard(p)
    PROVE  /\ Tail(p.text) \in HostNames /\ Len(Tail(p.text)) = Len(p.text) - 1
           /\ \A i \in 1..(Len(p.text) - 1) : Tail(p.text)[i] = p.text[i + 1]
  <1> DEFINE t == p.text
             u == Tail(t)
  <1>1. t \in Seq(STRING) /\ t # <<>> /\ Len(t) \in Nat /\ Len(t) > 1
    BY NameLen DEF Patterns, HostNames, IsWildcard
  <1> HIDE DEF t
  <1>2. /\ u \in Seq(STRING) /\ Len(u) = Len(t) - 1
        /\ \A i \in 1..(Len(t) - 1) : u[i] = t[i + 1]
    BY <1>1, HeadTailProperties
  <1> HIDE DEF u
  <1>3. Len(u) # 0
    BY <1>1, <1>2
  <1>4. u # <<>>
    BY <1>3
  <1> QED  BY <1>2, <1>4 DEF HostNames, t, u

\* The matchers a pattern that is not refused at first sight is built to.
LEMMA Built ==
    ASSUME NEW p \in Patterns,
           ~(p.slash = NoSlash /\ p.text \in {<<Empty>>, <<"*">>}),
           Head(p.text) # "**", ~HasZone(p.text)
    PROVE  /\ IsWildcard(p) => buildTarget(p) = newWildcardMatcher(p)
           /\ ~IsWildcard(p) /\ p.slash # NoSlash => buildTarget(p) = newCIDRMatcher(p)
           /\ ~IsWildcard(p) /\ p.slash = NoSlash /\ ParseAddr(p.text) # NoAddr =>
                buildTarget(p) = newIPMatcher(ParseAddr(p.text))
           /\ ~IsWildcard(p) /\ p.slash = NoSlash /\ ParseAddr(p.text) = NoAddr =>
                buildTarget(p) = newHostMatcher(p.text)
  BY DEF buildTarget, IsWildcard

\* The patterns that buildTarget refuses are the meaningless ones (target.go:16-127).
LEMMA RefusedIffMeaningless ==
    ASSUME NEW p \in Patterns
    PROVE  buildTarget(p) = Invalid <=> Meaningless(p)
  <1>0. /\ p.text \in HostNames /\ p.slash \in Nat \cup {NoSlash}
        /\ p.text \in Seq(STRING) /\ p.text # <<>> /\ Len(p.text) \in Nat \ {0}
    BY NameLen DEF Patterns, HostNames
  <1>1. /\ SameName(p.text, <<Empty>>) <=> Hostname(p.text) = <<Empty>>
        /\ Hostname(p.text) = <<Empty>> <=> Len(Hostname(p.text)) = 1 /\ p.text[1] = Empty
    BY <1>0, EmptyName
  <1>2. ParseAddr(p.text) # NoAddr =>
          p.text[1] \notin {Empty, "*", "**"} /\ p.text[Len(p.text)] # Empty
    BY <1>0, AddrOf
  <1>3. CASE \/ p.slash = NoSlash /\ p.text \in {<<Empty>>, <<"*">>}
             \/ Head(p.text) = "**" \/ HasZone(p.text)
    <2>1. buildTarget(p) = Invalid
      BY <1>3 DEF buildTarget
    <2>2. ASSUME p.slash = NoSlash, p.text = <<Empty>>  PROVE Meaningless(p)
      <3>1. ~(Head(p.text) = "*" /\ Len(p.text) > 1)
        BY <2>2
      <3>2. SameName(p.text, <<Empty>>)
        BY <2>2 DEF SameName
      <3> QED  BY <2>2, <3>1, <3>2 DEF Meaningless
    <2>3. ASSUME p.slash = NoSlash, p.text = <<"*">>  PROVE Meaningless(p)
      BY <2>3 DEF Meaningless
    <2>4. ASSUME Head(p.text) = "**" \/ HasZone(p.text)  PROVE Meaningless(p)
      BY <2>4 DEF Meaningless
    <2> QED  BY <1>3, <2>1, <2>2, <2>3, <2>4
  <1>4. CASE /\ ~(p.slash = NoSlash /\ p.text \in {<<Empty>>, <<"*">>})
             /\ Head(p.text) # "**" /\ ~HasZone(p.text)
    <2>1. CASE IsWildcard(p)
      <3> DEFINE name == Tail(p.text)
      <3>1. name \in HostNames /\ name \in Seq(STRING)
        BY <2>1, ParentName DEF HostNames
      <3>2. p.text # <<"*">>
        <4>1. Len(p.text) # 1
          <5>1. Len(p.text) > 1 /\ Len(p.text) \in Nat
            BY <1>0, <2>1 DEF IsWildcard
          <5>2. \A n \in Nat : n > 1 => n # 1
            OBVIOUS
          <5> QED  BY <5>1, <5>2, Zenon
        <4>2. Len(<<"*">>) = 1
          OBVIOUS
        <4> QED  BY <4>1, <4>2, Zenon
      <3>3. Meaningless(p) <=> \/ p.slash = NoSlash /\ SameName(name, <<Empty>>)
                               \/ "*" \in ToSet(name) \/ "**" \in ToSet(name)
        BY <1>4, <2>1, <3>2 DEF Meaningless, IsWildcard
      <3>4. buildTarget(p) = newWildcardMatcher(p)
        BY <1>4, <2>1, Built
      <3>5. CASE p.slash = NoSlash
        <4>1. newWildcardMatcher(p) = Invalid <=>
                \/ Hostname(name) = <<Empty>>
                \/ Contains(Hostname(name), "*") \/ Contains(Hostname(name), "**")
          BY <3>5, MatcherParts DEF newWildcardMatcher
        <4> HIDE DEF name
        <4>2. SameName(name, <<Empty>>) <=> Hostname(name) = <<Empty>>
          BY <3>1, EmptyName
        <4>3. /\ Contains(Hostname(name), "*") <=> "*" \in ToSet(name)
              /\ Contains(Hostname(name), "**") <=> "**" \in ToSet(name)
          BY <3>1, HostnameKeeps
        <4> QED  BY <3>3, <3>4, <3>5, <4>1, <4>2, <4>3
      <3>6. CASE p.slash # NoSlash
        <4>1. newWildcardMatcher(p) = Invalid <=> Contains(name, "*") \/ Contains(name, "**")
          BY <3>6, MatcherParts DEF newWildcardMatcher
        <4> HIDE DEF name
        <4>2. DOMAIN name = 1..Len(name)
          BY <3>1, NameLen
        <4>3. /\ Contains(name, "*") <=> "*" \in ToSet(name)
              /\ Contains(name, "**") <=> "**" \in ToSet(name)
          BY <4>2 DEF Contains, ToSet
        <4> QED  BY <3>3, <3>4, <3>6, <4>1, <4>3
      <3> QED  BY <3>5, <3>6
    <2>2. CASE ~IsWildcard(p) /\ p.slash # NoSlash
      <3>1. Meaningless(p) <=>
              ParseAddr(p.text) = NoAddr \/ p.slash > Len(ParseAddr(p.text).bits)
        BY <1>4, <2>2 DEF Meaningless, IsWildcard
      <3>2. newCIDRMatcher(p) = Invalid <=>
              ParseAddr(p.text) = NoAddr \/ p.slash > Len(ParseAddr(p.text).bits)
        BY MatcherParts DEF newCIDRMatcher
      <3> QED  BY <1>4, <2>2, <3>1, <3>2, Built
    <2>3. CASE ~IsWildcard(p) /\ p.slash = NoSlash
      <3>1. Meaningless(p) <=> SameName(p.text, <<Empty>>)
        BY <1>4, <2>3 DEF Meaningless, IsWildcard
      <3>2. CASE ParseAddr(p.text) # NoAddr
        <4>1. newIPMatcher(ParseAddr(p.text)) # Invalid
          BY MatcherParts DEF newIPMatcher
        <4>2. ~SameName(p.text, <<Empty>>)
          BY <1>1, <1>2, <3>2
        <4> QED  BY <1>4, <2>3, <3>1, <3>2, <4>1, <4>2, Built
      <3>3. CASE ParseAddr(p.text) = NoAddr
        <4>1. newHostMatcher(p.text) = Invalid <=> Hostname(p.text) = <<Empty>>
          BY MatcherParts DEF newHostMatcher
        <4> QED  BY <1>1, <1>4, <2>3, <3>1, <3>3, <4>1, Built
      <3> QED  BY <3>2, <3>3
    <2> QED  BY <2>1, <2>2, <2>3
  <1> QED  BY <1>3, <1>4

\* A sequence of one element.
LEMMA Single ==
    ASSUME NEW S, NEW e \in S
    PROVE  <<e>> \in Seq(S) /\ Len(<<e>>) = 1 /\ <<e>>[1] = e
  OBVIOUS

\* A label before a name that is not empty: the trailing dot goes as it does without it.
LEMMA PrefixedName ==
    ASSUME NEW l \in STRING, NEW u \in HostNames, Hostname(u) # <<Empty>>
    PROVE  LET w == Hostname(<<l>> \o u)
               g == Hostname(u)
           IN  /\ w \in Seq(Labels) /\ Len(w) = Len(g) + 1
               /\ w[1] = ToLower(l)
               /\ \A i \in 1..Len(g) : w[i + 1] = g[i]
  <1> DEFINE e == <<l>>
             v == e \o u
             w == Hostname(v)
             g == Hostname(u)
             n == Len(u)
  <1>1. n \in Nat \ {0} /\ u \in Seq(STRING) /\ (\A i \in 1..n : u[i] \in STRING)
    BY NameLen
  <1>2. e \in Seq(STRING) /\ Len(e) = 1 /\ e[1] = l
    BY Single, Zenon
  <1> HIDE DEF e
  <1>3. /\ v \in Seq(STRING) /\ Len(v) = n + 1
        /\ v[1] = l /\ \A i \in 1..n : v[i + 1] = u[i]
    <2>0. /\ e \o u \in Seq(STRING) /\ Len(e \o u) = Len(e) + Len(u)
          /\ \A i \in 1..Len(e) + Len(u) :
               (e \o u)[i] = IF i <= Len(e) THEN e[i] ELSE u[i - Len(e)]
      BY <1>1, <1>2, ConcatProperties, Zenon
    <2> HIDE DEF v, n
    <2>1. /\ v \in Seq(STRING) /\ Len(v) = 1 + n
          /\ \A i \in 1..(1 + n) : v[i] = IF i <= 1 THEN e[i] ELSE u[i - 1]
      BY <1>2, <2>0, Zenon DEF v, n
    <2>2. \A i \in 1..n : v[i + 1] = u[i]
      BY <1>1, <2>1
    <2>3. 1 \in 1..(1 + n) /\ 1 + n = n + 1
      BY <1>1
    <2>4. v[1] = e[1]
      BY <2>1, <2>3
    <2> QED  BY <1>2, <2>1, <2>2, <2>3, <2>4
  <1>4. v \in HostNames
    <2>1. v # <<>>
      BY <1>1, <1>3, EmptySeq
    <2> QED  BY <1>3, <2>1 DEF HostNames
  <1>5. /\ Len(g) = IF n > 1 /\ u[n] = Empty THEN n - 1 ELSE n
        /\ \A i \in 1..Len(g) : g[i] = ToLower(u[i])
        /\ Len(g) \in Nat \ {0}
    BY HostnameIs
  <1>6. ~(Len(g) = 1 /\ u[1] = Empty)
    BY EmptyName
  <1> HIDE DEF v
  <1>7. /\ w \in Seq(Labels) /\ Len(w) \in Nat
        /\ Len(w) = IF Len(v) > 1 /\ v[Len(v)] = Empty THEN Len(v) - 1 ELSE Len(v)
        /\ \A i \in 1..Len(w) : w[i] = ToLower(v[i])
    BY <1>4, HostnameIs
  <1> HIDE DEF w, g, n
  <1>8. v[Len(v)] = u[n] /\ Len(v) > 1
    BY <1>1, <1>3
  <1>9. Len(w) = Len(g) + 1
    BY <1>1, <1>3, <1>5, <1>6, <1>7, <1>8
  <1>10. w[1] = ToLower(l)
    <2>1. 1 \in 1..Len(w)
      BY <1>5, <1>9
    <2> QED  BY <1>3, <1>7, <2>1
  <1>11. \A i \in 1..Len(g) : w[i + 1] = g[i]
    <2> TAKE i \in 1..Len(g)
    <2>1. i \in 1..n /\ i + 1 \in 1..Len(w)
      BY <1>1, <1>5, <1>9
    <2> QED  BY <1>3, <1>5, <1>7, <2>1
  <1> QED  BY <1>7, <1>9, <1>10, <1>11 DEF w, g, v, e

\* A wildcard matches the names that have one label more than its parent, which is not
\* empty, whatever the case and the trailing dot of either (target.go:84-100).
LEMMA WildcardMatches ==
    ASSUME NEW u \in HostNames, Hostname(u) # <<Empty>>, NEW t \in HostNames
    PROVE  matchWildcard(Matcher("wildcard", Hostname(u), NoSlash), Hostname(t)) <=>
             \E l \in ToSet(t) \ {Empty} : SameName(t, <<l>> \o u)
  <1> DEFINE h == Hostname(t)
             g == Hostname(u)
             w(l) == Hostname(<<l>> \o u)
  <1>1. /\ h \in Seq(Labels) /\ Len(h) \in Nat \ {0}
        /\ \A i \in 1..Len(h) : h[i] = ToLower(t[i])
    BY HostnameIs
  <1>2. g \in Seq(Labels) /\ Len(g) \in Nat \ {0}
    BY HostnameIs
  <1>3. /\ Len(t) \in Nat \ {0} /\ DOMAIN t = 1..Len(t)
        /\ \A i \in 1..Len(t) : t[i] \in STRING
    BY NameLen
  <1>4. \A l \in STRING : /\ w(l) \in Seq(Labels) /\ Len(w(l)) = Len(g) + 1
                          /\ w(l)[1] = ToLower(l)
                          /\ \A i \in 1..Len(g) : w(l)[i + 1] = g[i]
    BY PrefixedName
  <1>5. ToSet(t) \subseteq STRING /\ t[1] \in ToSet(t) /\ h[1] = ToLower(t[1])
    BY <1>1, <1>3 DEF ToSet
  <1>6. matchWildcard(Matcher("wildcard", g, NoSlash), h) <=>
          Len(h) = Len(g) + 1 /\ Tail(h) = g /\ h[1] # Empty
    BY MatcherParts DEF matchWildcard
  <1> HIDE DEF h, g, w
  <1>7. h # <<>>
    BY <1>1, EmptySeq
  <1>8. /\ Tail(h) \in Seq(Labels) /\ Len(Tail(h)) = Len(h) - 1
        /\ \A i \in 1..(Len(h) - 1) : Tail(h)[i] = h[i + 1]
    BY <1>1, <1>7, HeadTailProperties
  <1>9. ASSUME Len(h) = Len(g) + 1, Tail(h) = g, h[1] # Empty
        PROVE  \E l \in ToSet(t) \ {Empty} : h = w(l)
    <2>1. t[1] \in STRING /\ t[1] # Empty
      BY <1>5, <1>9, LowerLabel
    <2> DEFINE x == w(t[1])
    <2>2. /\ x \in Seq(Labels) /\ Len(x) = Len(h) /\ x[1] = h[1]
          /\ \A i \in 1..Len(g) : x[i + 1] = g[i]
      BY <1>4, <1>5, <1>9, <2>1
    <2> HIDE DEF x
    <2>3. ASSUME NEW i \in 1..Len(h)  PROVE x[i] = h[i]
      <3>1. CASE i = 1
        BY <2>2, <3>1
      <3>2. CASE i # 1
        <4>1. i - 1 \in 1..Len(g) /\ i - 1 \in 1..(Len(h) - 1) /\ (i - 1) + 1 = i
          BY <1>1, <1>2, <1>9, <3>2
        <4>2. x[(i - 1) + 1] = g[i - 1] /\ Tail(h)[i - 1] = h[(i - 1) + 1]
          BY <1>8, <2>2, <4>1
        <4> QED  BY <1>9, <4>1, <4>2
      <3> QED  BY <3>1, <3>2
    <2>4. h = x
      BY <1>1, <2>2, <2>3, SeqEqual
    <2> QED  BY <1>5, <2>1, <2>4 DEF x
  <1>10. ASSUME NEW l \in ToSet(t) \ {Empty}, h = w(l)
         PROVE  Len(h) = Len(g) + 1 /\ Tail(h) = g /\ h[1] # Empty
    <2>1. l \in STRING
      BY <1>5
    <2>2. /\ Len(h) = Len(g) + 1 /\ h[1] = ToLower(l)
          /\ \A i \in 1..Len(g) : h[i + 1] = g[i]
      BY <1>4, <1>10, <2>1
    <2>3. h[1] # Empty
      BY <2>1, <2>2, LowerLabel
    <2>4. Len(Tail(h)) = Len(g)
      BY <1>2, <1>8, <2>2
    <2>5. \A i \in 1..Len(g) : Tail(h)[i] = g[i]
      BY <1>2, <1>8, <2>2
    <2>6. Tail(h) = g
      BY <1>2, <1>8, <2>4, <2>5, SeqEqual
    <2> QED  BY <2>2, <2>3, <2>6
  <1>11. matchWildcard(Matcher("wildcard", g, NoSlash), h) <=>
           \E l \in ToSet(t) \ {Empty} : h = w(l)
    BY <1>6, <1>9, <1>10
  <1> QED  BY <1>11 DEF SameName, h, g, w

\* Two sequences agree up to a position.
LEMMA SamePrefix ==
    ASSUME NEW S, NEW s \in Seq(S), NEW r \in Seq(S), NEW n \in 0..Len(s), Len(r) = Len(s)
    PROVE  SubSeq(s, 1, n) = SubSeq(r, 1, n) <=> \A i \in 1..n : s[i] = r[i]
  <1> DEFINE x == SubSeq(s, 1, n)
             y == SubSeq(r, 1, n)
  <1>0. Len(s) \in Nat /\ n \in Nat /\ \A i \in 1..n : i \in 1..Len(s) /\ i \in 1..Len(r)
    BY LenProperties
  <1>1. \A i \in 1..n : s[i] \in S /\ r[i] \in S
    BY <1>0, ElementOfSeq
  <1>2. /\ x \in Seq(S) /\ Len(x) = IF 1 <= n THEN n - 1 + 1 ELSE 0
        /\ \A i \in 1..(n - 1 + 1) : x[i] = s[1 + i - 1]
    BY <1>0, <1>1, SubSeqProperties
  <1>3. /\ y \in Seq(S) /\ Len(y) = IF 1 <= n THEN n - 1 + 1 ELSE 0
        /\ \A i \in 1..(n - 1 + 1) : y[i] = r[1 + i - 1]
    BY <1>0, <1>1, SubSeqProperties
  <1> HIDE DEF x, y
  <1>4. Len(x) = n /\ Len(y) = n /\ \A i \in 1..n : x[i] = s[i] /\ y[i] = r[i]
    BY <1>0, <1>2, <1>3
  <1>5. ASSUME \A i \in 1..n : s[i] = r[i]  PROVE x = y
    <2>1. Len(x) = Len(y) /\ \A i \in 1..Len(x) : x[i] = y[i]
      BY <1>4, <1>5
    <2> QED  BY <1>2, <1>3, <2>1, SeqEqual, Zenon
  <1>6. ASSUME x = y  PROVE \A i \in 1..n : s[i] = r[i]
    BY <1>4, <1>6
  <1> QED  BY <1>5, <1>6 DEF x, y

\* What a matcher of each kind matches.
LEMMA MatchOf ==
    ASSUME NEW text, NEW n, NEW host
    PROVE  /\ Match(Matcher("all", text, n), host)
           /\ Match(Matcher("host", text, n), host) <=> host = text
           /\ Match(Matcher("wildcard", text, n), host) <=>
                matchWildcard(Matcher("wildcard", text, n), host)
           /\ Match(Matcher("ip", text, n), host) <=>
                LET a == ParseAddr(host) IN a # NoAddr /\ ~a.zone /\ a.bits = text
           /\ Match(Matcher("cidr", text, n), host) <=>
                LET a == ParseAddr(host) IN
                /\ a # NoAddr /\ ~a.zone
                /\ Len(a.bits) = Len(text) /\ \A i \in 1..n : a.bits[i] = text[i]
  BY MatcherParts DEF Match, Contained

\* A pattern that is not refused matches exactly the targets that it spells, as a name,
\* or covers, as an address or a block (target.go:16-127).
Fits(p, t) == IF HostnamePattern(p) THEN Spells(p, t) ELSE Covers(p, t)

LEMMA MatchedIffFits ==
    ASSUME NEW p \in Patterns, ~Meaningless(p), NEW t \in HostNames
    PROVE  Match(buildTarget(p), Hostname(t)) <=> Fits(p, t)
  <1> DEFINE h == Hostname(t)
             a == ParseAddr(h)
             q == ParseAddr(p.text)
  <1>0. /\ p.text \in HostNames /\ p.slash \in Nat \cup {NoSlash}
        /\ p.text \in Seq(STRING) /\ p.text # <<>> /\ Len(p.text) \in Nat \ {0}
    BY NameLen DEF Patterns, HostNames
  <1>1. buildTarget(p) # Invalid
    BY RefusedIffMeaningless
  <1>2. /\ ~(p.slash = NoSlash /\ p.text \in {<<Empty>>, <<"*">>})
        /\ Head(p.text) # "**" /\ ~HasZone(p.text)
    BY <1>1 DEF buildTarget
  <1>3. /\ q # NoAddr => p.text[1] \notin {Empty, "*", "**"}
        /\ q.bits \in Seq({"0", "1"}) /\ Len(q.bits) \in Nat
    BY <1>0, AddrOf
  <1>4. a.bits \in Seq({"0", "1"}) /\ Len(a.bits) \in Nat
    <2>1. h \in Seq(Labels) /\ Len(h) \in Nat \ {0}
      BY HostnameIs
    <2>2. h # <<>>
      BY <2>1, EmptySeq
    <2> HIDE DEF h
    <2> QED  BY <2>1, <2>2, AddrOf
  <1>5. CASE IsWildcard(p)
    <2> DEFINE u == Tail(p.text)
    <2>1. u \in HostNames
      BY <1>5, ParentName
    <2>2. buildTarget(p) = newWildcardMatcher(p)
      BY <1>2, <1>5, Built
    <2>3. Fits(p, t) <=>
            p.slash = NoSlash /\ \E l \in ToSet(t) \ {Empty} : SameName(t, <<l>> \o u)
      <3>1. Head(p.text) = "*" /\ p.text[1] = "*"
        BY <1>0, <1>5 DEF IsWildcard
      <3>2. HostnamePattern(p)
        BY <1>3, <3>1 DEF HostnamePattern
      <3> QED  BY <3>1, <3>2 DEF Fits, Spells
    <2>4. CASE p.slash = NoSlash
      <3>1. /\ newWildcardMatcher(p) = Matcher("wildcard", Hostname(u), NoSlash)
            /\ Hostname(u) # <<Empty>>
        BY <1>1, <2>2, <2>4 DEF newWildcardMatcher
      <3> HIDE DEF u
      <3>2. matchWildcard(Matcher("wildcard", Hostname(u), NoSlash), h) <=>
              \E l \in ToSet(t) \ {Empty} : SameName(t, <<l>> \o u)
        BY <2>1, <3>1, WildcardMatches
      <3>3. Match(Matcher("wildcard", Hostname(u), NoSlash), h) <=>
              matchWildcard(Matcher("wildcard", Hostname(u), NoSlash), h)
        BY MatchOf
      <3> QED  BY <2>2, <2>3, <2>4, <3>1, <3>2, <3>3
    <2>5. CASE p.slash # NoSlash
      <3>1. newWildcardMatcher(p) = Matcher("wildcard", u, p.slash)
        BY <1>1, <2>2, <2>5 DEF newWildcardMatcher
      <3>2. ~matchWildcard(Matcher("wildcard", u, p.slash), h)
        BY <2>5, MatcherParts DEF matchWildcard
      <3> QED  BY <2>2, <2>3, <2>5, <3>1, <3>2, MatchOf
    <2> QED  BY <2>4, <2>5
  <1>6. CASE ~IsWildcard(p) /\ p.slash # NoSlash
    <2>1. buildTarget(p) = newCIDRMatcher(p)
      BY <1>2, <1>6, Built
    <2> DEFINE masked == [i \in DOMAIN q.bits |-> IF i <= p.slash THEN q.bits[i] ELSE "0"]
    <2>2. /\ q # NoAddr /\ ~(p.slash > Len(q.bits))
          /\ newCIDRMatcher(p) = Matcher("cidr", masked, p.slash)
      BY <1>1, <2>1 DEF newCIDRMatcher
    <2>3. p.slash \in 0..Len(q.bits)
      BY <1>0, <1>3, <1>6, <2>2
    <2>4. Head(p.text) # "*"
      BY <1>0, <1>3, <2>2
    <2>5. DOMAIN q.bits = 1..Len(q.bits)
      BY <1>3, LenProperties
    <2>6. Fits(p, t) <=>
            /\ a # NoAddr /\ ~a.zone /\ Len(a.bits) = Len(q.bits)
            /\ SubSeq(a.bits, 1, p.slash) = SubSeq(q.bits, 1, p.slash)
      BY <1>6, <2>2, <2>4 DEF Fits, HostnamePattern, Covers
    <2> HIDE DEF a, q
    <2>7. Len(masked) = Len(q.bits) /\ \A i \in 1..p.slash : masked[i] = q.bits[i]
      BY <1>3, <2>3, <2>5
    <2> HIDE DEF masked
    <2>8. Match(Matcher("cidr", masked, p.slash), h) <=>
            /\ a # NoAddr /\ ~a.zone /\ Len(a.bits) = Len(masked)
            /\ \A i \in 1..p.slash : a.bits[i] = masked[i]
      BY MatchOf DEF a
    <2>9. Len(a.bits) = Len(q.bits) =>
            (SubSeq(a.bits, 1, p.slash) = SubSeq(q.bits, 1, p.slash) <=>
               \A i \in 1..p.slash : a.bits[i] = q.bits[i])
      BY <1>3, <1>4, <2>3, SamePrefix
    <2> QED  BY <2>1, <2>2, <2>6, <2>7, <2>8, <2>9
  <1>7. CASE ~IsWildcard(p) /\ p.slash = NoSlash
    <2>1. Head(p.text) # "*"
      <3> SUFFICES ASSUME Head(p.text) = "*"  PROVE p.text = <<"*">>
        BY <1>2, <1>7
      <3>0. \A n \in Nat \ {0} : ~(n > 1) => n = 1
        OBVIOUS
      <3>1. Len(p.text) = 1
        BY <1>0, <1>7, <3>0, Zenon DEF IsWildcard
      <3>2. p.text[1] = "*"
        BY <1>0
      <3> QED  BY <1>0, <3>1, <3>2
    <2>2. CASE q # NoAddr
      <3>1. buildTarget(p) = Matcher("ip", q.bits, NoSlash)
        BY <1>2, <1>7, <2>2, Built DEF newIPMatcher
      <3>2. Fits(p, t) <=>
              /\ a # NoAddr /\ ~a.zone /\ Len(a.bits) = Len(q.bits)
              /\ SubSeq(a.bits, 1, Len(q.bits)) = SubSeq(q.bits, 1, Len(q.bits))
        BY <1>7, <2>1, <2>2 DEF Fits, HostnamePattern, Covers
      <3>3. Match(Matcher("ip", q.bits, NoSlash), h) <=>
              a # NoAddr /\ ~a.zone /\ a.bits = q.bits
        BY MatchOf
      <3> HIDE DEF a, q
      <3>4. Len(a.bits) = Len(q.bits) =>
              (SubSeq(a.bits, 1, Len(q.bits)) = SubSeq(q.bits, 1, Len(q.bits)) <=>
                 \A i \in 1..Len(q.bits) : a.bits[i] = q.bits[i])
        BY <1>3, <1>4, SamePrefix
      <3>5. a.bits = q.bits <=>
              Len(a.bits) = Len(q.bits) /\ \A i \in 1..Len(q.bits) : a.bits[i] = q.bits[i]
        BY <1>3, <1>4, SeqEqual
      <3> QED  BY <3>1, <3>2, <3>3, <3>4, <3>5
    <2>3. CASE q = NoAddr
      <3>1. buildTarget(p) = Matcher("host", Hostname(p.text), NoSlash)
        BY <1>1, <1>2, <1>7, <2>3, Built DEF newHostMatcher
      <3>2. Fits(p, t) <=> SameName(t, p.text)
        BY <2>1, <2>3 DEF Fits, HostnamePattern, Spells
      <3> QED  BY <3>1, <3>2, MatchOf DEF SameName
    <2> QED  BY <2>2, <2>3
  <1> QED  BY <1>5, <1>6, <1>7

\* These are the targets it stands for, and the IPv4 literals that read like a name of it.
LEMMA MatchedIffDenoted ==
    ASSUME NEW p \in Patterns, ~Meaningless(p), NEW t \in HostNames
    PROVE  Match(buildTarget(p), Hostname(t)) <=> Denotes(p, t) \/ SpellsIP(p, t)
  <1>1. Fits(p, t) <=> Denotes(p, t) \/ SpellsIP(p, t)
    BY DEF Fits, Denotes, SpellsIP
  <1> QED  BY <1>1, MatchedIffFits

-----------------------------------------------------------------------------
(***************************************************************************)
(* Modules: what they inherit, and which are valid.                        *)
(***************************************************************************)
\* The flag counts if the file has no list of its own.
AllowAll == input.allowAll /\ file.AllowedTargets = {}

Resolved(name)    == inherit(Written(name))
MatchersFor(name) == resolveAllowedTargets(PatternsFor(name), AllowAll)
Refused           == {{}, {Invalid}}      \* what build refuses

\* The fields of a module.
LEMMA ModuleFields ==
    ASSUME NEW w \in RawModules
    PROVE  /\ w.KnownHostsFile \in Paths /\ w.AllowedTargets \in SUBSET Patterns
           /\ w.AllowedPorts \in SUBSET Int /\ w.TargetPort \in Int /\ w.Strip \in BOOLEAN
           /\ w.Algorithms \in [Kinds -> SUBSET STRING]
  BY DEF RawModules

\* The modules of a file are as YAML decodes them.
LEMMA WrittenModule ==
    ASSUME input \in Cases, NEW name \in Names
    PROVE  Written(name) \in RawModules
  <1>1. EmptyModule \in RawModules
    <2>1. [k \in Kinds |-> {}] \in [Kinds -> SUBSET STRING]
      OBVIOUS
    <2>2. Nil \in SUBSET Int
      BY DEF Nil, NoPort
    <2> HIDE DEF Nil
    <2>3. "none" \in Paths /\ {} \in SUBSET Patterns /\ 0 \in Int /\ FALSE \in BOOLEAN
      BY DEF Paths
    <2> QED  BY <2>1, <2>2, <2>3 DEF EmptyModule, RawModules
  <1>2. file.Modules \in [DOMAIN file.Modules -> RawModules]
    BY CasesAssumption DEF file
  <1> QED  BY <1>1, <1>2 DEF Written, Names

\* The port: the module's, the file's or 22.
LEMMA PortOf ==
    ASSUME NEW name
    PROVE  PortFor(name) = IF Written(name).TargetPort # 0 THEN Written(name).TargetPort
                           ELSE IF file.TargetPort # 0 THEN file.TargetPort ELSE 22
  <1> DEFINE w == Written(name).TargetPort
             f == file.TargetPort
             P(p) == \/ p = w /\ p # 0
                     \/ p = f /\ p # 0 /\ w = 0
                     \/ p = 22 /\ w = 0 /\ f = 0
             port == IF w # 0 THEN w ELSE IF f # 0 THEN f ELSE 22
  <1>1. PortFor(name) = CHOOSE p \in {w, f, 22} : P(p)
    BY DEF PortFor
  <1> HIDE DEF w, f
  <1>2. port \in {w, f, 22} /\ P(port) /\ \A p : P(p) => p = port
    OBVIOUS
  <1> HIDE DEF P, port
  <1>3. (CHOOSE p \in {w, f, 22} : P(p)) = port
    BY <1>2
  <1> QED  BY <1>1, <1>3 DEF port, w, f

\* The ports: the module's, the file's or the port.
LEMMA PortsOf ==
    ASSUME NEW name
    PROVE  PortsFor(name) =
             LET ports == IF Written(name).AllowedPorts = Nil THEN file.AllowedPorts
                          ELSE Written(name).AllowedPorts
             IN  IF ports \in {Nil, {}} THEN {PortFor(name)} ELSE ports
  <1> DEFINE w == Written(name).AllowedPorts
             f == file.AllowedPorts
             given == {ports \in {w} : ports # Nil}
  <1>0. PortsFor(name) = IF given = {{}} \/ (given = {} /\ f \in {Nil, {}}) THEN {PortFor(name)}
                         ELSE UNION (IF given = {} THEN {f} ELSE given)
    BY DEF PortsFor
  <1>1. Nil # {}
    BY DEF Nil
  <1> HIDE DEF w, f
  <1>2. \A s : UNION {s} = s
    OBVIOUS
  <1>3. CASE w = Nil
    <2>1. given = {} /\ given # {{}}
      BY <1>3
    <2> HIDE DEF given
    <2>2. CASE f \in {Nil, {}}
      BY <1>0, <1>3, <2>1, <2>2 DEF w, f
    <2>3. CASE f \notin {Nil, {}}
      BY <1>0, <1>2, <1>3, <2>1, <2>3 DEF w, f
    <2> QED  BY <2>2, <2>3
  <1>4. CASE w # Nil
    <2>1. given = {w} /\ given # {}
      BY <1>4
    <2> HIDE DEF given
    <2>2. CASE w = {}
      BY <1>0, <1>1, <1>4, <2>1, <2>2 DEF w
    <2>3. CASE w # {}
      <3>1. given # {{}}
        BY <2>1, <2>3
      <3> QED  BY <1>0, <1>2, <1>4, <2>1, <2>3, <3>1 DEF w
    <2> QED  BY <2>2, <2>3
  <1> QED  BY <1>3, <1>4

\* What a module is resolved to (config.go:106-136).
LEMMA ResolvedModule ==
    ASSUME input \in Cases, NEW name \in Names
    PROVE  /\ Resolved(name) \in RawModules
           /\ Resolved(name).KnownHostsFile =
                IF Written(name).KnownHostsFile = "none" THEN file.KnownHostsFile
                ELSE Written(name).KnownHostsFile
           /\ Resolved(name).AllowedTargets = PatternsFor(name)
           /\ Resolved(name).TargetPort = PortFor(name)
           /\ Resolved(name).AllowedPorts = PortsFor(name)
           /\ Resolved(name).Algorithms = Written(name).Algorithms
  <1> DEFINE w == Written(name)
             kh == IF w.KnownHostsFile = "none" THEN file.KnownHostsFile ELSE w.KnownHostsFile
  <1>1. w \in RawModules
    BY WrittenModule
  <1>2. /\ file.KnownHostsFile \in Paths /\ file.AllowedTargets \in SUBSET Patterns
        /\ file.AllowedPorts \in SUBSET Int /\ file.TargetPort \in Int /\ file.Strip \in BOOLEAN
    BY CasesAssumption DEF file
  <1>3. PatternsFor(name) = IF w.AllowedTargets = {} THEN file.AllowedTargets ELSE w.AllowedTargets
    BY DEF PatternsFor
  <1>4. PortFor(name) = IF w.TargetPort # 0 THEN w.TargetPort
                        ELSE IF file.TargetPort # 0 THEN file.TargetPort ELSE 22
    BY PortOf
  <1>5. PortsFor(name) = inheritPorts(w, PortFor(name))
    BY PortsOf DEF inheritPorts
  <1>6. Resolved(name) =
          [w EXCEPT !.KnownHostsFile = kh, !.AllowedTargets = PatternsFor(name),
                    !.Strip = w.Strip \/ file.Strip, !.TargetPort = PortFor(name),
                    !.AllowedPorts = PortsFor(name)]
    BY <1>3, <1>4, <1>5 DEF Resolved, inherit
  <1> HIDE DEF w
  <1>7. /\ w.KnownHostsFile \in Paths /\ w.AllowedTargets \in SUBSET Patterns
        /\ w.AllowedPorts \in SUBSET Int /\ w.TargetPort \in Int /\ w.Strip \in BOOLEAN
        /\ w.Algorithms \in [Kinds -> SUBSET STRING]
    BY <1>1, ModuleFields
  <1>8. kh \in Paths /\ PatternsFor(name) \in SUBSET Patterns /\ PortFor(name) \in Int
    BY <1>2, <1>3, <1>4, <1>7
  <1>9. PortsFor(name) \in SUBSET Int
    BY <1>2, <1>5, <1>7, <1>8 DEF inheritPorts
  <1>10. (w.Strip \/ file.Strip) \in BOOLEAN
    OBVIOUS
  <1> HIDE DEF kh
  <1>11. /\ Resolved(name) \in RawModules
         /\ Resolved(name).KnownHostsFile = kh
         /\ Resolved(name).AllowedTargets = PatternsFor(name)
         /\ Resolved(name).TargetPort = PortFor(name)
         /\ Resolved(name).AllowedPorts = PortsFor(name)
         /\ Resolved(name).Algorithms = w.Algorithms
    BY <1>1, <1>6, <1>7, <1>8, <1>9, <1>10 DEF RawModules
  <1> QED  BY <1>11 DEF kh, w

\* The modules that pass all checks of loadRawConfig.
LEMMA ErrorFree ==
    ASSUME NEW m
    PROVE  moduleError(m) = "none" <=>
             /\ m.KnownHostsFile # "none"
             /\ m.AllowedPorts \subseteq 1..MaxPort
             /\ m.TargetPort \in m.AllowedPorts
             /\ \A k \in Kinds : m.Algorithms[k] \subseteq Known
  <1>1. (\E p \in m.AllowedPorts : p \notin 1..MaxPort) <=> ~(m.AllowedPorts \subseteq 1..MaxPort)
    OBVIOUS
  <1>2. (\E k \in Kinds : ~validateAlgorithms(m.Algorithms[k])) <=>
          ~(\A k \in Kinds : m.Algorithms[k] \subseteq Known)
    BY DEF validateAlgorithms
  <1> QED  BY <1>1, <1>2 DEF moduleError

\* The lists of patterns that build does not refuse.
LEMMA MatchersOf ==
    ASSUME NEW ps \in SUBSET Patterns, NEW allow \in BOOLEAN
    PROVE  /\ resolveAllowedTargets(ps, allow) \notin Refused <=>
                IF ps = {} THEN allow ELSE \A p \in ps : ~Meaningless(p)
           /\ ps = {} /\ allow => resolveAllowedTargets(ps, allow) = {allowAllMatcher}
           /\ ps # {} /\ (\A p \in ps : ~Meaningless(p)) =>
                resolveAllowedTargets(ps, allow) = {buildTarget(p) : p \in ps}
  <1> DEFINE ms == {buildTarget(p) : p \in ps}
             res == resolveAllowedTargets(ps, allow)
  <1>1. CASE ps = {}
    <2>1. res = IF allow THEN {allowAllMatcher} ELSE {}
      BY <1>1 DEF resolveAllowedTargets
    <2>2. allowAllMatcher # Invalid
      BY MatcherParts DEF allowAllMatcher
    <2>3. {allowAllMatcher} \notin Refused /\ {} \in Refused
      BY <2>2 DEF Refused
    <2> QED  BY <1>1, <2>1, <2>3
  <1>2. CASE ps # {}
    <2>1. res = IF Invalid \in ms THEN {Invalid} ELSE ms
      BY <1>2 DEF resolveAllowedTargets
    <2>2. Invalid \in ms <=> \E p \in ps : Meaningless(p)
      BY RefusedIffMeaningless
    <2>3. ms # {}
      BY <1>2
    <2> HIDE DEF ms, res
    <2>4. {Invalid} \in Refused /\ (Invalid \notin ms => ms \notin Refused)
      BY <2>3 DEF Refused
    <2> QED  BY <1>2, <2>1, <2>2, <2>4 DEF ms, res
  <1> QED  BY <1>1, <1>2

\* A module without patterns of its own and of the file may be probed at any host only
\* with the flag, and then the flag counts.
LEMMA FlagCounts ==
    ASSUME input \in Cases, NEW name \in Names
    PROVE  /\ AllowAll \in BOOLEAN /\ PatternsFor(name) \in SUBSET Patterns
           /\ PatternsFor(name) = {} => (AllowAll <=> input.allowAll)
  <1>1. PatternsFor(name) \in SUBSET Patterns
    BY ResolvedModule, ModuleFields
  <1>2. AllowAll \in BOOLEAN
    BY DEF AllowAll
  <1>3. PatternsFor(name) = {} => file.AllowedTargets = {}
    BY DEF PatternsFor
  <1> QED  BY <1>1, <1>2, <1>3 DEF AllowAll

\* The modules that neither loop refuses are the valid ones (config.go:106-163,
\* module.go:21-78).
LEMMA ValidIffNotRefused ==
    ASSUME input \in Cases, NEW name \in Names
    PROVE  Valid(name) <=> /\ moduleError(Resolved(name)) = "none"
                           /\ Resolved(name).KnownHostsFile # "missing"
                           /\ MatchersFor(name) \notin Refused
  <1> DEFINE kh == Resolved(name).KnownHostsFile
  <1>1. /\ Resolved(name) \in RawModules
        /\ kh = IF Written(name).KnownHostsFile = "none" THEN file.KnownHostsFile
                ELSE Written(name).KnownHostsFile
        /\ Resolved(name).TargetPort = PortFor(name)
        /\ Resolved(name).AllowedPorts = PortsFor(name)
        /\ Resolved(name).Algorithms = Written(name).Algorithms
    BY ResolvedModule
  <1>2. moduleError(Resolved(name)) = "none" <=>
          /\ kh # "none" /\ PortsFor(name) \subseteq 1..MaxPort
          /\ PortFor(name) \in PortsFor(name)
          /\ \A k \in Kinds : Written(name).Algorithms[k] \subseteq Known
    BY <1>1, ErrorFree
  <1>3. kh \in Paths
    BY <1>1, ModuleFields
  <1>4. kh = "file" <=> kh # "none" /\ kh # "missing"
    BY <1>3 DEF Paths
  <1>5. MatchersFor(name) \notin Refused <=>
          IF PatternsFor(name) = {} THEN input.allowAll
          ELSE \A p \in PatternsFor(name) : ~Meaningless(p)
    BY FlagCounts, MatchersOf DEF MatchersFor
  <1>6. Valid(name) <=>
          /\ kh = "file"
          /\ IF PatternsFor(name) = {} THEN input.allowAll
             ELSE \A p \in PatternsFor(name) : ~Meaningless(p)
          /\ PortFor(name) \in PortsFor(name) /\ PortsFor(name) \subseteq 1..MaxPort
          /\ \A k \in Kinds : Written(name).Algorithms[k] \subseteq Known
    BY <1>1 DEF Valid
  <1> QED  BY <1>2, <1>4, <1>5, <1>6

-----------------------------------------------------------------------------
(***************************************************************************)
(* The two loops.                                                          *)
(***************************************************************************)
BuiltModule(name) == [Resolved(name) EXCEPT !.AllowedTargets = MatchersFor(name)]

\* The first loop: a module is as written or resolved without an error.
ResolveInv ==
    /\ pending \subseteq Names
    /\ DOMAIN cfg = Names
    /\ allowAllTargets = AllowAll
    /\ \A name \in pending : cfg[name] = Written(name)
    /\ \A name \in Names \ pending :
         cfg[name] = Resolved(name) /\ moduleError(Resolved(name)) = "none"
    /\ DOMAIN modules = {}

\* The second loop: all modules are resolved, and some are built.
BuildInv ==
    /\ pending \subseteq Names
    /\ DOMAIN cfg = Names
    /\ allowAllTargets = AllowAll
    /\ \A name \in Names : cfg[name] = Resolved(name) /\ moduleError(Resolved(name)) = "none"
    /\ DOMAIN modules = Names \ pending
    /\ \A name \in Names \ pending :
         /\ modules[name] = BuiltModule(name)
         /\ Resolved(name).KnownHostsFile # "missing"
         /\ MatchersFor(name) \notin Refused

\* A file that does not load has a reason for it.
FailedInv == err # "none" /\ (~file.decodes \/ \E name \in Names : ~Valid(name))

IInv ==
    /\ input \in Cases
    /\ pc \in {"read", "inherit", "build", "loaded", "failed"}
    /\ pc = "read" => DOMAIN modules = {}
    /\ pc = "inherit" => ResolveInv
    /\ pc \in {"build", "loaded"} => BuildInv
    /\ pc = "loaded" => pending = {}
    /\ pc = "failed" => FailedInv
    /\ code # 0 => pc = "loaded" /\ request \in Requests /\ code = answer(request)

\* What is said of the file stays true while the file does not change.
LEMMA FileStays ==
    ASSUME input' = input
    PROVE  /\ Names' = Names /\ AllowAll' = AllowAll /\ file' = file
           /\ \A name : /\ Written(name)' = Written(name)
                        /\ Resolved(name)' = Resolved(name)
                        /\ MatchersFor(name)' = MatchersFor(name)
                        /\ BuiltModule(name)' = BuiltModule(name)
                        /\ Valid(name)' <=> Valid(name)
  BY DEF Names, AllowAll, file, Written, Resolved, MatchersFor, BuiltModule, Valid,
         PatternsFor, PortFor, PortsFor, inherit, inheritPorts

\* The error of a module that fails a check keeps the file from being loaded.
LEMMA FailKeeps ==
    ASSUME IInv, NEW what, what # "none", fail(what), code = 0,
           ~file.decodes \/ \E name \in Names : ~Valid(name)
    PROVE  IInv'
  <1>1. /\ input' = input /\ pc' = "failed" /\ err' = what /\ code' = 0
        /\ input \in Cases
    BY DEF fail, IInv
  <1>2. FailedInv'
    BY <1>1, FileStays DEF FailedInv
  <1> QED  BY <1>1, <1>2 DEF IInv

\* The invariant holds throughout every behaviour.
LEMMA InvHolds == Spec => []IInv
  <1>1. Init => IInv
    BY DEF Init, IInv
  <1>2. IInv /\ [Next]_vars => IInv'
    <2> SUFFICES ASSUME IInv, [Next]_vars  PROVE IInv'
      OBVIOUS
    <2>0. input \in Cases
      BY DEF IInv
    <2>1. CASE readFails
      <3>1. pc = "read" /\ ~file.decodes /\ fail("config_file")
        BY <2>1 DEF readFails
      <3>2. code = 0
        BY <3>1 DEF IInv
      <3> QED  BY <3>1, <3>2, FailKeeps
    <2>2. CASE decode
      <3>1. /\ input' = input /\ pc' = "inherit" /\ code' = code /\ code = 0 /\ modules' = modules
            /\ DOMAIN modules = {} /\ pending' = DOMAIN cfg' /\ allowAllTargets' = AllowAll
        BY <2>2 DEF decode, IInv, AllowAll
      <3>2. DOMAIN cfg' = Names /\ \A name \in Names : cfg'[name] = Written(name)
        BY <2>2 DEF decode, Names, Written
      <3>3. ResolveInv'
        BY <3>1, <3>2, FileStays DEF ResolveInv
      <3> QED  BY <2>0, <3>1, <3>3 DEF IInv
    <2>3. ASSUME NEW name \in pending, resolveModule(name)  PROVE IInv'
      <3>1. pc = "inherit" /\ ResolveInv /\ code = 0
        BY <2>3 DEF resolveModule, IInv
      <3>2. name \in Names /\ cfg[name] = Written(name)
        BY <3>1 DEF ResolveInv
      <3>3. inherit(cfg[name]) = Resolved(name)
        BY <3>2 DEF Resolved
      <3>4. CASE moduleError(Resolved(name)) # "none"
        <4>1. fail(moduleError(Resolved(name)))
          BY <2>3, <3>3, <3>4 DEF resolveModule
        <4>2. ~Valid(name)
          BY <2>0, <3>2, <3>4, ValidIffNotRefused
        <4> QED  BY <3>1, <3>2, <3>4, <4>1, <4>2, FailKeeps
      <3>5. CASE moduleError(Resolved(name)) = "none"
        <4>1. /\ cfg' = [cfg EXCEPT ![name] = Resolved(name)]
              /\ pending' = pending \ {name}
              /\ input' = input /\ pc' = pc /\ allowAllTargets' = allowAllTargets
              /\ modules' = modules /\ code' = code
          BY <2>3, <3>3, <3>5 DEF resolveModule, fail
        <4>2. DOMAIN cfg' = Names /\ cfg'[name] = Resolved(name)
              /\ \A n \in Names \ {name} : cfg'[n] = cfg[n]
          BY <3>1, <3>2, <4>1 DEF ResolveInv
        <4>3. ResolveInv'
          BY <3>1, <3>2, <3>5, <4>1, <4>2, FileStays DEF ResolveInv
        <4> QED  BY <2>0, <3>1, <4>1, <4>3 DEF IInv
      <3> QED  BY <3>4, <3>5
    <2>4. CASE startBuild
      <3>1. /\ pc = "inherit" /\ pending = {} /\ ResolveInv /\ code = 0
            /\ pc' = "build" /\ pending' = DOMAIN cfg
            /\ input' = input /\ cfg' = cfg /\ allowAllTargets' = allowAllTargets
            /\ modules' = modules /\ code' = code
        BY <2>4 DEF startBuild, IInv
      <3>2. BuildInv'
        BY <3>1, FileStays DEF ResolveInv, BuildInv
      <3> QED  BY <2>0, <3>1, <3>2 DEF IInv
    <2>5. ASSUME NEW name \in pending, buildModule(name)  PROVE IInv'
      <3>1. pc = "build" /\ BuildInv /\ code = 0
        BY <2>5 DEF buildModule, IInv
      <3>2. name \in Names /\ cfg[name] = Resolved(name) /\ allowAllTargets = AllowAll
        BY <3>1 DEF BuildInv
      <3>3. resolveAllowedTargets(cfg[name].AllowedTargets, allowAllTargets) = MatchersFor(name)
        BY <2>0, <3>2, ResolvedModule DEF MatchersFor
      <3>4. CASE \/ Resolved(name).KnownHostsFile = "missing" \/ MatchersFor(name) \in Refused
        <4>1. fail("known_hosts") \/ fail("allowed_targets")
          BY <2>5, <3>2, <3>3, <3>4 DEF buildModule, Refused
        <4>2. ~Valid(name)
          BY <2>0, <3>2, <3>4, ValidIffNotRefused
        <4> QED  BY <3>1, <3>2, <4>1, <4>2, FailKeeps
      <3>5. CASE Resolved(name).KnownHostsFile # "missing" /\ MatchersFor(name) \notin Refused
        <4>1. /\ modules' = [n \in DOMAIN modules \cup {name} |->
                               IF n = name THEN BuiltModule(name) ELSE modules[n]]
              /\ pending' = pending \ {name}
              /\ input' = input /\ pc' = pc /\ cfg' = cfg
              /\ allowAllTargets' = allowAllTargets /\ code' = code
          BY <2>5, <3>2, <3>3, <3>5 DEF buildModule, Refused, BuiltModule
        <4>2. /\ DOMAIN modules' = DOMAIN modules \cup {name}
              /\ modules'[name] = BuiltModule(name)
              /\ \A n \in DOMAIN modules : n # name => modules'[n] = modules[n]
          BY <4>1
        <4>3. BuildInv'
          BY <3>1, <3>2, <3>5, <4>1, <4>2, FileStays DEF BuildInv
        <4> QED  BY <2>0, <3>1, <4>1, <4>3 DEF IInv
      <3> QED  BY <3>4, <3>5
    <2>6. CASE buildReturns
      <3>1. /\ pc = "build" /\ pending = {} /\ BuildInv /\ code = 0
            /\ pc' = "loaded" /\ pending' = pending
            /\ input' = input /\ cfg' = cfg /\ allowAllTargets' = allowAllTargets
            /\ modules' = modules /\ code' = code
        BY <2>6 DEF buildReturns, IInv
      <3>2. BuildInv'
        BY <3>1, FileStays DEF BuildInv
      <3> QED  BY <2>0, <3>1, <3>2 DEF IInv
    <2>7. CASE Request
      <3>1. /\ pc = "loaded" /\ pending = {} /\ BuildInv
            /\ pc' = pc /\ pending' = pending
            /\ input' = input /\ cfg' = cfg /\ allowAllTargets' = allowAllTargets
            /\ modules' = modules /\ request' \in Requests /\ code' = answer(request')
        BY <2>7 DEF Request, IInv
      <3>2. BuildInv'
        BY <3>1, FileStays DEF BuildInv
      <3>3. answer(request)' = answer(request')
        BY <3>1 DEF answer
      <3> QED  BY <2>0, <3>1, <3>2, <3>3 DEF IInv
    <2>8. CASE UNCHANGED vars
      <3>1. /\ pc' = pc /\ pending' = pending /\ input' = input /\ cfg' = cfg
            /\ allowAllTargets' = allowAllTargets /\ modules' = modules /\ err' = err
            /\ request' = request /\ code' = code
        BY <2>8 DEF vars
      <3>2. /\ ResolveInv' <=> ResolveInv
            /\ BuildInv' <=> BuildInv
            /\ FailedInv' <=> FailedInv
        BY <3>1, FileStays DEF ResolveInv, BuildInv, FailedInv
      <3>3. answer(request)' = answer(request)
        BY <3>1 DEF answer
      <3> QED  BY <3>1, <3>2, <3>3 DEF IInv
    <2> QED  BY <2>1, <2>2, <2>3, <2>4, <2>5, <2>6, <2>7, <2>8 DEF Next, Done
  <1> QED  BY <1>1, <1>2, PTL DEF Spec

\* A file is loaded, with all its modules, exactly if each of them is valid, whatever the
\* order in which the loops come to them (config.go:84-163, module.go:21-78).
THEOREM LoadedIfAllValid == Spec => []LoadedIffAllValid
  <1>1. IInv => LoadedIffAllValid
    <2> SUFFICES ASSUME IInv  PROVE LoadedIffAllValid
      OBVIOUS
    <2>1. ASSUME pc = "loaded"  PROVE DOMAIN modules = Names /\ \A name \in Names : Valid(name)
      <3>1. input \in Cases /\ BuildInv /\ pending = {}
        BY <2>1 DEF IInv
      <3> QED  BY <3>1, ValidIffNotRefused DEF BuildInv
    <2>2. pc = "failed" => FailedInv
      BY DEF IInv
    <2> QED  BY <2>1, <2>2 DEF LoadedIffAllValid, FailedInv
  <1> QED  BY <1>1, InvHolds, PTL

\* The fields of a module that is built.
LEMMA BuiltFields ==
    ASSUME input \in Cases, NEW name \in Names
    PROVE  /\ BuiltModule(name).AllowedTargets = MatchersFor(name)
           /\ BuiltModule(name).TargetPort = PortFor(name)
           /\ BuiltModule(name).AllowedPorts = PortsFor(name)
           /\ BuiltModule(name).Algorithms = Written(name).Algorithms
  <1>1. /\ Resolved(name) \in RawModules
        /\ Resolved(name).TargetPort = PortFor(name)
        /\ Resolved(name).AllowedPorts = PortsFor(name)
        /\ Resolved(name).Algorithms = Written(name).Algorithms
    BY ResolvedModule
  <1>2. /\ BuiltModule(name).AllowedTargets = MatchersFor(name)
        /\ BuiltModule(name).TargetPort = Resolved(name).TargetPort
        /\ BuiltModule(name).AllowedPorts = Resolved(name).AllowedPorts
        /\ BuiltModule(name).Algorithms = Resolved(name).Algorithms
    BY <1>1 DEF BuiltModule, RawModules
  <1> QED  BY <1>1, <1>2

\* The hosts a module allows are those its patterns stand for or spell, and any host if it
\* may do without patterns.
LEMMA HostAllowed ==
    ASSUME input \in Cases, NEW name \in Names, MatchersFor(name) \notin Refused,
           NEW t \in HostNames
    PROVE  targetAllowed(Hostname(t), MatchersFor(name)) <=>
             IF PatternsFor(name) = {} THEN input.allowAll
             ELSE \E p \in PatternsFor(name) : Denotes(p, t) \/ SpellsIP(p, t)
  <1>1. /\ AllowAll \in BOOLEAN /\ PatternsFor(name) \in SUBSET Patterns
        /\ PatternsFor(name) = {} => (AllowAll <=> input.allowAll)
    BY FlagCounts
  <1>2. /\ IF PatternsFor(name) = {} THEN AllowAll
           ELSE \A p \in PatternsFor(name) : ~Meaningless(p)
        /\ PatternsFor(name) = {} /\ AllowAll => MatchersFor(name) = {allowAllMatcher}
        /\ PatternsFor(name) # {} /\ (\A p \in PatternsFor(name) : ~Meaningless(p)) =>
             MatchersFor(name) = {buildTarget(p) : p \in PatternsFor(name)}
    BY <1>1, MatchersOf DEF MatchersFor
  <1>3. CASE PatternsFor(name) = {}
    <2>1. Match(allowAllMatcher, Hostname(t))
      BY MatchOf DEF allowAllMatcher
    <2> QED  BY <1>1, <1>2, <1>3, <2>1 DEF targetAllowed
  <1>4. CASE PatternsFor(name) # {}
    <2>1. targetAllowed(Hostname(t), MatchersFor(name)) <=>
            \E p \in PatternsFor(name) : Match(buildTarget(p), Hostname(t))
      BY <1>2, <1>4 DEF targetAllowed
    <2>2. \A p \in PatternsFor(name) :
            Match(buildTarget(p), Hostname(t)) <=> Denotes(p, t) \/ SpellsIP(p, t)
      BY <1>1, <1>2, <1>4, MatchedIffDenoted
    <2> QED  BY <1>4, <2>1, <2>2
  <1> QED  BY <1>3, <1>4

\* A target is probed exactly if the file allows its port and its host, for all files,
\* patterns and requests, IPv4 literals that read like a name apart (config.go:106-136, target.go:16-127, probehttp.go:85-100,
\* 177-209).
THEOREM ProbedIfConfigured == Spec => []ProbedIffConfigured
  <1>1. IInv => ProbedIffConfigured
    <2> SUFFICES ASSUME IInv, code # 0  PROVE ProbedIffConfigured
      BY DEF ProbedIffConfigured
    <2> DEFINE r == request
               name == r.module
               port == IF r.port = NoPort THEN PortFor(name) ELSE r.port
               may == IF PatternsFor(name) = {} THEN input.allowAll
                      ELSE \E p \in PatternsFor(name) : Denotes(p, r.text) \/ SpellsIP(p, r.text)
    <2>1. /\ input \in Cases /\ BuildInv /\ pending = {}
          /\ r \in Requests /\ code = answer(r)
      BY DEF IInv
    <2>2. r.text \in HostNames
      BY <2>1, RequestsAssumption
    <2>3. DOMAIN modules = Names
      BY <2>1 DEF BuildInv
    <2>4. SameName(r.text, <<Empty>>) <=> Hostname(r.text) = <<Empty>>
      BY <2>2, EmptyName
    <2>5. Malformed(r) <=> r.extra \/ SameName(r.text, <<Empty>>) \/ r.port = BadPort
      BY <2>4 DEF Malformed
    <2>6. CASE name \notin Names \/ Malformed(r)
      <3>1. code = 400
        BY <2>1, <2>3, <2>6 DEF answer
      <3> QED  BY <2>5, <2>6, <3>1 DEF ProbedIffConfigured, PortConfigured
    <2>7. CASE name \in Names /\ ~Malformed(r)
      <3>1. modules[name] = BuiltModule(name) /\ MatchersFor(name) \notin Refused
        BY <2>1, <2>7 DEF BuildInv
      <3>2. /\ modules[name].AllowedTargets = MatchersFor(name)
            /\ modules[name].TargetPort = PortFor(name)
            /\ modules[name].AllowedPorts = PortsFor(name)
        BY <2>1, <2>7, <3>1, BuiltFields
      <3>3. /\ ensurePort(r, PortFor(name)).host = Hostname(r.text)
            /\ ensurePort(r, PortFor(name)).port = port
        BY DEF ensurePort
      <3>4. answer(r) = IF /\ port \in PortsFor(name)
                           /\ targetAllowed(Hostname(r.text), MatchersFor(name))
                        THEN 200 ELSE 403
        BY <2>3, <2>7, <3>2, <3>3 DEF answer
      <3>5. targetAllowed(Hostname(r.text), MatchersFor(name)) <=> may
        BY <2>1, <2>2, <2>7, <3>1, HostAllowed
      <3>6. code = 200 <=> port \in PortsFor(name) /\ may
        BY <2>1, <3>4, <3>5
      <3>7. PortConfigured(r) <=> port \in PortsFor(name)
        BY <2>5, <2>7 DEF PortConfigured
      <3>8. may <=> \/ HostConfigured(r)
                    \/ \E p \in PatternsFor(name) : SpellsIP(p, r.text)
        BY DEF HostConfigured
      <3> QED  BY <3>6, <3>7, <3>8 DEF ProbedIffConfigured
    <2> QED  BY <2>6, <2>7
  <1> QED  BY <1>1, InvHolds, PTL

\* A probe advertises exactly what its module lists, or the defaults (config.go:40-54,
\* probe.go:182-188).
THEOREM NoneDropped == Spec => []AdvertisedAsConfigured
  <1>1. IInv => AdvertisedAsConfigured
    <2> SUFFICES ASSUME IInv, pc = "loaded", NEW name \in DOMAIN modules, NEW k \in Kinds
                 PROVE  Advertised(modules[name], k) =
                          IF Written(name).Algorithms[k] = {} THEN Defaults
                          ELSE Written(name).Algorithms[k]
      BY DEF AdvertisedAsConfigured
    <2>1. /\ input \in Cases /\ name \in Names
          /\ modules[name] = BuiltModule(name) /\ moduleError(Resolved(name)) = "none"
      BY DEF IInv, BuildInv
    <2>2. modules[name].Algorithms = Written(name).Algorithms
      BY <2>1, BuiltFields
    <2>3. Written(name).Algorithms[k] \subseteq Known
      BY <2>1, ErrorFree, ResolvedModule
    <2>4. Defaults \subseteq Known
      BY DEF Defaults, Known
    <2> QED  BY <2>2, <2>3, <2>4 DEF Advertised, orDefault
  <1> QED  BY <1>1, InvHolds, PTL
=============================================================================
