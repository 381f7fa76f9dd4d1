---------------------------- MODULE IdentProofs ----------------------------
(***************************************************************************)
(* Proofs about Ident: what is exported is what the server sent.           *)
(*                                                                         *)
(* The invariant relates the watcher's line to the whole line sent so far: *)
(* it is the first maxIdentificationLen + 2 bytes of it.  From it, whether *)
(* or not bytes were cut off and a CR was trimmed, the parser accepts what *)
(* the watcher kept exactly if the line sent is one of the grammar, and    *)
(* then nothing was cut.  The grammar looks for a position where           *)
(* softwareversion ends, the code cuts at the first space; that the two    *)
(* agree rests on the least number of a set, and so on well-foundedness.   *)
(***************************************************************************)
EXTENDS Ident, SequenceTheorems, WellFoundedInduction, TLAPS

\* A set of numbers has a least one.
LEMMA LeastNumber ==
    ASSUME NEW I, I \subseteq Nat, I # {}
    PROVE  Min(I) \in I /\ \A j \in I : Min(I) <= j
  <1> DEFINE R == {p \in Nat \X Nat : p[1] < p[2]}
  <1>1. IsWellFoundedOn(R, Nat)
    BY NatLessThanWellFounded DEF OpToRel
  <1> HIDE DEF R
  <1>2. PICK x \in I : \A y \in I : ~(<<y, x>> \in R)
    BY <1>1, WFMin
  <1>3. ASSUME NEW y \in I  PROVE x <= y
    <2>1. <<y, x>> \in Nat \X Nat /\ <<y, x>>[1] = y /\ <<y, x>>[2] = x
      OBVIOUS
    <2>2. ~(y < x)
      BY <1>2, <2>1 DEF R
    <2> QED  BY <2>2
  <1> QED  BY <1>3 DEF Min

\* What Cut returns.
LEMMA CutAt ==
    ASSUME NEW s \in Seq(Bytes)
    PROVE  \E n \in 0..Len(s) :
             /\ Cut(s)[1] = SubSeq(s, 1, n)
             /\ Cut(s)[2] = SubSeq(s, n + 2, Len(s))
             /\ \A i \in 1..n : s[i] # "space"
             /\ n < Len(s) => s[n + 1] = "space"
  <1> DEFINE I == {i \in 1..Len(s) : s[i] = "space"}
  <1>0. Len(s) \in Nat
    BY LenProperties
  <1>1. I \subseteq Nat /\ \A i : i \in I <=> i \in 1..Len(s) /\ s[i] = "space"
    BY <1>0
  <1>2. Cut(s) = LET i == IF I # {} THEN Min(I) ELSE 0
                 IN  IF i = 0 THEN <<s, <<>>>>
                     ELSE <<SubSeq(s, 1, i - 1), SubSeq(s, i + 1, Len(s))>>
    BY DEF Cut, SelectInSeq
  <1> HIDE DEF I
  <1>3. CASE I = {}
    <2>1. Cut(s)[1] = s /\ Cut(s)[2] = <<>>
      BY <1>2, <1>3
    <2>2. SubSeq(s, 1, Len(s)) = s
      BY SubSeqFull
    <2>3. SubSeq(s, Len(s) + 2, Len(s)) = <<>>
      BY <1>0, SubSeqEmpty
    <2>4. \A i \in 1..Len(s) : s[i] # "space"
      BY <1>1, <1>3
    <2> DEFINE n == Len(s)
    <2>5. n \in 0..Len(s) /\ ~(n < Len(s))
      BY <1>0
    <2>6. Cut(s)[1] = SubSeq(s, 1, n) /\ Cut(s)[2] = SubSeq(s, n + 2, Len(s))
      BY <2>1, <2>2, <2>3
    <2>7. \A i \in 1..n : s[i] # "space"
      BY <2>4
    <2> HIDE DEF n
    <2> QED  BY <2>5, <2>6, <2>7
  <1>4. CASE I # {}
    <2>1. Min(I) \in I /\ \A j \in I : Min(I) <= j
      BY <1>1, <1>4, LeastNumber
    <2> DEFINE n == Min(I) - 1
    <2>2. /\ n \in 0..Len(s) /\ n + 1 \in 1..Len(s) /\ s[n + 1] = "space"
          /\ \A i \in 1..n : s[i] # "space"
      <3>1. Min(I) \in 1..Len(s) /\ s[Min(I)] = "space"
        BY <1>1, <2>1
      <3>2. n \in 0..Len(s) /\ n + 1 = Min(I)
        BY <1>0, <3>1
      <3>3. ASSUME NEW i \in 1..n  PROVE s[i] # "space"
        <4>1. i \in 1..Len(s) /\ ~(Min(I) <= i)
          BY <1>0, <3>1
        <4> QED  BY <1>1, <2>1, <4>1
      <3> QED  BY <3>1, <3>2, <3>3
    <2>3. Cut(s)[1] = SubSeq(s, 1, n) /\ Cut(s)[2] = SubSeq(s, n + 2, Len(s))
      <3>1. Min(I) # 0 /\ Min(I) - 1 = n /\ Min(I) + 1 = n + 2
        BY <1>0, <1>1, <2>1
      <3>2. Cut(s) = <<SubSeq(s, 1, Min(I) - 1), SubSeq(s, Min(I) + 1, Len(s))>>
        BY <1>2, <1>4, <3>1
      <3> HIDE DEF n
      <3>3. Cut(s) = <<SubSeq(s, 1, n), SubSeq(s, n + 2, Len(s))>>
        BY <3>1, <3>2
      <3> DEFINE before == SubSeq(s, 1, n)
                 after == SubSeq(s, n + 2, Len(s))
      <3>4. Cut(s) = <<before, after>>
        BY <3>3
      <3> HIDE DEF before, after
      <3>5. Cut(s)[1] = before /\ Cut(s)[2] = after
        BY <3>4
      <3> QED  BY <3>5 DEF before, after
    <2> HIDE DEF n
    <2> QED  BY <2>2, <2>3
  <1> QED  BY <1>3, <1>4

-----------------------------------------------------------------------------
(***************************************************************************)
(* The watcher: what it keeps of the line, and that the line is complete   *)
(* when it is looked at.                                                   *)
(***************************************************************************)
KeptLen(s) == IF Len(s) <= maxIdentificationLen + 2 THEN Len(s) ELSE maxIdentificationLen + 2

\* The watcher's line is what was sent, up to the bytes it has room for.
LineInv ==
    /\ line \in Seq(Bytes) /\ sent \in Seq(Bytes)
    /\ Len(line) = KeptLen(sent)
    /\ \A i \in 1..Len(line) : line[i] = sent[i]

\* The identification is made once, from the line, and scanning is over then.
ReceivedInv ==
    received => ~reading /\ IsSSH(line) /\ identification = TrimCR(line)

\* What is exported is what the parser makes of the identification.
ExportInv ==
    exported # NotRecorded =>
      /\ received
      /\ LET parsed == parseServerIdentification(identification)
         IN  \/ exported = parsed
             \/ parsed # Unparsable /\ exported = withoutComments(parsed)

IInv == LineInv /\ ReceivedInv /\ ExportInv

\* The watcher keeps a line up to its room, byte by byte.
LEMMA AppendKeeps ==
    ASSUME LineInv, NEW c \in Bytes
    PROVE  /\ append(line, c) \in Seq(Bytes) /\ Append(sent, c) \in Seq(Bytes)
           /\ Len(append(line, c)) = KeptLen(Append(sent, c))
           /\ \A i \in 1..Len(append(line, c)) : append(line, c)[i] = Append(sent, c)[i]
  <1>1. /\ Append(sent, c) \in Seq(Bytes) /\ Len(Append(sent, c)) = Len(sent) + 1
        /\ \A i \in 1..Len(sent) : Append(sent, c)[i] = sent[i]
        /\ Append(sent, c)[Len(sent) + 1] = c
    BY AppendProperties DEF LineInv
  <1>2. /\ Append(line, c) \in Seq(Bytes) /\ Len(Append(line, c)) = Len(line) + 1
        /\ \A i \in 1..Len(line) : Append(line, c)[i] = line[i]
        /\ Append(line, c)[Len(line) + 1] = c
    BY AppendProperties DEF LineInv
  <1>3. Len(sent) \in Nat /\ Len(line) \in Nat /\ maxIdentificationLen \in Nat
    BY LenProperties, LimitAssumption DEF LineInv
  <1>4. CASE Len(line) < maxIdentificationLen + 2
    <2>1. Len(line) = Len(sent) /\ append(line, c) = Append(line, c)
      BY <1>3, <1>4 DEF LineInv, KeptLen, append
    <2>2. Len(append(line, c)) = KeptLen(Append(sent, c))
      BY <1>1, <1>2, <1>3, <1>4, <2>1 DEF KeptLen
    <2>3. ASSUME NEW i \in 1..Len(append(line, c))
          PROVE  append(line, c)[i] = Append(sent, c)[i]
      <3>1. CASE i \in 1..Len(line)
        BY <1>1, <1>2, <2>1, <3>1 DEF LineInv
      <3>2. CASE i = Len(line) + 1
        BY <1>1, <1>2, <2>1, <3>2
      <3> QED  BY <3>1, <3>2, <2>1, <1>2, <1>3
    <2> QED  BY <1>1, <1>2, <2>1, <2>2, <2>3
  <1>5. CASE ~(Len(line) < maxIdentificationLen + 2)
    <2>1. append(line, c) = line /\ Len(line) = maxIdentificationLen + 2
      BY <1>3, <1>5 DEF LineInv, KeptLen, append
    <2>2. Len(line) <= Len(sent)
      BY <1>3, <1>5 DEF LineInv, KeptLen
    <2>3. Len(append(line, c)) = KeptLen(Append(sent, c))
      BY <1>1, <1>3, <2>1, <2>2 DEF KeptLen
    <2>4. \A i \in 1..Len(line) : line[i] = Append(sent, c)[i]
      BY <1>1, <1>3, <2>2 DEF LineInv
    <2> QED  BY <1>1, <2>1, <2>3, <2>4 DEF LineInv
  <1> QED  BY <1>4, <1>5

\* An empty line, at the start and after each of the other lines.
LEMMA EmptyLine ==
    ASSUME line' = <<>>, sent' = <<>>
    PROVE  LineInv'
  <1>1. <<>> \in Seq(Bytes) /\ Len(<<>>) = 0
    BY EmptySeq
  <1>2. KeptLen(<<>>) = 0
    BY <1>1, LimitAssumption DEF KeptLen
  <1> QED  BY <1>1, <1>2 DEF LineInv, KeptLen

\* The invariant holds throughout every behaviour.
LEMMA InvHolds == Spec => []IInv
  <1>1. Init => IInv
    <2> SUFFICES ASSUME Init  PROVE IInv
      OBVIOUS
    <2>1. <<>> \in Seq(Bytes) /\ Len(<<>>) = 0
      BY EmptySeq
    <2>2. LineInv
      BY <2>1, LimitAssumption DEF Init, LineInv, KeptLen
    <2>3. ReceivedInv /\ ExportInv
      BY DEF Init, ReceivedInv, ExportInv
    <2> QED  BY <2>2, <2>3 DEF IInv
  <1>2. IInv /\ [Next]_vars => IInv'
    <2> SUFFICES ASSUME IInv, [Next]_vars  PROVE IInv'
      OBVIOUS
    <2> USE DEF watcher
    <2>1. CASE Read \/ ReadEnds
      <3>1. UNCHANGED <<line, identification, received, exported, sent>>
        BY <2>1 DEF Read, ReadEnds
      <3>2. LineInv'
        BY <3>1 DEF IInv, LineInv, KeptLen
      <3>3. ReceivedInv'
        BY <2>1, <3>1 DEF IInv, ReceivedInv, Read, ReadEnds
      <3>4. ExportInv'
        BY <3>1 DEF IInv, ExportInv
      <3> QED  BY <3>2, <3>3, <3>4 DEF IInv
    <2>2. ASSUME NEW c \in Bytes, scanByte(c)  PROVE IInv'
      <3>1. line' = append(line, c) /\ sent' = Append(sent, c)
        BY <2>2 DEF scanByte
      <3>2. LineInv'
        BY <3>1, AppendKeeps DEF IInv, LineInv, KeptLen
      <3>3. ~received /\ received' = received /\ exported' = exported
        BY <2>2 DEF scanByte, IInv, ReceivedInv
      <3>4. ReceivedInv' /\ ExportInv'
        BY <3>3 DEF IInv, ReceivedInv, ExportInv
      <3> QED  BY <3>2, <3>4 DEF IInv
    <2>3. CASE scanOtherLine
      <3>1. LineInv'
        BY <2>3, EmptyLine DEF scanOtherLine
      <3>2. ~received /\ received' = received /\ exported' = exported
        BY <2>3 DEF scanOtherLine, IInv, ReceivedInv
      <3>3. ReceivedInv' /\ ExportInv'
        BY <3>2 DEF IInv, ReceivedInv, ExportInv
      <3> QED  BY <3>1, <3>3 DEF IInv
    <2>4. CASE scanIdentification
      <3>1. LineInv'
        BY <2>4 DEF scanIdentification, IInv, LineInv, KeptLen
      <3>2. ReceivedInv'
        BY <2>4 DEF scanIdentification, ReceivedInv, IsSSH, TrimCR
      <3>3. ~received /\ exported' = exported
        BY <2>4 DEF scanIdentification, IInv, ReceivedInv
      <3>4. ExportInv'
        BY <3>3 DEF IInv, ExportInv
      <3> QED  BY <3>1, <3>2, <3>4 DEF IInv
    <2>5. ASSUME NEW strip \in BOOLEAN, Record(strip)  PROVE IInv'
      <3>1. UNCHANGED <<line, reading, identification, received, sent>>
        BY <2>5 DEF Record
      <3>2. LineInv'
        BY <3>1 DEF IInv, LineInv, KeptLen
      <3>3. ReceivedInv'
        BY <3>1 DEF IInv, ReceivedInv, IsSSH, TrimCR
      <3>4. ExportInv'
        BY <2>5, <3>1 DEF Record, ExportInv
      <3> QED  BY <3>2, <3>3, <3>4 DEF IInv
    <2>6. CASE Done \/ UNCHANGED vars
      <3>1. UNCHANGED <<line, reading, identification, received, exported, sent>>
        BY <2>6 DEF Done, vars
      <3>2. LineInv'
        BY <3>1 DEF IInv, LineInv, KeptLen
      <3>3. ReceivedInv' /\ ExportInv'
        BY <3>1 DEF IInv, ReceivedInv, ExportInv, IsSSH, TrimCR
      <3> QED  BY <3>2, <3>3 DEF IInv
    <2> QED  BY <2>1, <2>2, <2>3, <2>4, <2>5, <2>6 DEF Next
  <1> QED  BY <1>1, <1>2, PTL DEF Spec

\* The first byte is never cut off, so that the watcher's line starts with "SSH-" exactly
\* if the line that was sent does.
LEMMA SameStart ==
    ASSUME LineInv
    PROVE  IsSSH(line) <=> IsSSH(sent)
  <1>1. Len(sent) \in Nat /\ Len(line) \in Nat /\ maxIdentificationLen \in Nat
    BY LenProperties, LimitAssumption DEF LineInv
  <1>2. (line = <<>> <=> Len(line) = 0) /\ (sent = <<>> <=> Len(sent) = 0)
    BY EmptySeq DEF LineInv
  <1>3. CASE Len(sent) = 0
    BY <1>1, <1>2, <1>3, LimitAssumption DEF LineInv, KeptLen, IsSSH
  <1>4. CASE Len(sent) > 0
    <2>1. Len(line) > 0
      BY <1>1, <1>4, LimitAssumption DEF LineInv, KeptLen
    <2>2. line[1] = sent[1]
      BY <1>1, <2>1 DEF LineInv
    <2>3. Head(line) = line[1] /\ Head(sent) = sent[1]
      BY <1>1, <1>2, <1>4, <2>1 DEF LineInv
    <2> QED  BY <1>1, <1>2, <1>4, <2>1, <2>2, <2>3 DEF IsSSH
  <1> QED  BY <1>1, <1>3, <1>4

\* No line that starts with "SSH-" is passed over (probe.go:207-235).
THEOREM IdentificationNotMissed == Spec => NoIdentificationMissed
  <1>1. IInv /\ [Next]_vars => [others' # others => ~IsSSH(sent)]_vars
    <2> SUFFICES ASSUME IInv, Next, others' # others  PROVE ~IsSSH(sent)
      OBVIOUS
    <2>1. scanOtherLine
      BY DEF Next, Read, ReadEnds, scanByte, scanIdentification, Record, Done, vars, watcher
    <2> QED  BY <2>1, SameStart DEF scanOtherLine, IInv
  <1> QED  BY <1>1, InvHolds, PTL DEF Spec, NoIdentificationMissed

-----------------------------------------------------------------------------
(***************************************************************************)
(* The parser.                                                             *)
(***************************************************************************)
\* The last byte of softwareversion is at position n of the line.
SplitAt(raw, n) ==
    /\ n \in 1..Len(raw)
    /\ \A i \in 2..n : raw[i] # "space"
    /\ n < Len(raw) => raw[n + 1] = "space"

\* Two positions that split the tail split the line.
LEMMA SubSeqOfTail ==
    ASSUME NEW raw \in Seq(Bytes), raw # <<>>,
           NEW a \in 1..Len(raw) + 2, NEW b \in 0..(Len(raw) - 1)
    PROVE  SubSeq(Tail(raw), a, b) = SubSeq(raw, a + 1, b + 1)
  <1>0. Len(raw) \in Nat /\ \A i \in 1..Len(raw) : raw[i] \in Bytes
    BY LenProperties, ElementOfSeq
  <1>1. /\ Len(Tail(raw)) = Len(raw) - 1
        /\ \A i \in 1..(Len(raw) - 1) : Tail(raw)[i] = raw[i + 1]
    BY HeadTailProperties
  <1>2. \A i \in a..b : Tail(raw)[i] \in Bytes
    BY <1>0, <1>1
  <1>3. \A i \in (a + 1)..(b + 1) : raw[i] \in Bytes
    BY <1>0
  <1>4. /\ SubSeq(Tail(raw), a, b) \in Seq(Bytes)
        /\ Len(SubSeq(Tail(raw), a, b)) = IF a <= b THEN b - a + 1 ELSE 0
        /\ \A i \in 1..(b - a + 1) : SubSeq(Tail(raw), a, b)[i] = Tail(raw)[a + i - 1]
    BY <1>0, <1>2, SubSeqProperties
  <1>5. /\ SubSeq(raw, a + 1, b + 1) \in Seq(Bytes)
        /\ Len(SubSeq(raw, a + 1, b + 1)) = IF a <= b THEN b - a + 1 ELSE 0
        /\ \A i \in 1..(b - a + 1) : SubSeq(raw, a + 1, b + 1)[i] = raw[a + i]
    <2>1. a + 1 \in Int /\ b + 1 \in Int
      BY <1>0
    <2>2. /\ SubSeq(raw, a + 1, b + 1) \in Seq(Bytes)
          /\ Len(SubSeq(raw, a + 1, b + 1)) =
               IF a + 1 <= b + 1 THEN (b + 1) - (a + 1) + 1 ELSE 0
          /\ \A i \in 1..((b + 1) - (a + 1) + 1) :
               SubSeq(raw, a + 1, b + 1)[i] = raw[(a + 1) + i - 1]
      BY <2>1, <1>3, SubSeqProperties
    <2> QED  BY <1>0, <2>2
  <1>6. ASSUME NEW i \in 1..(b - a + 1)
        PROVE  SubSeq(Tail(raw), a, b)[i] = SubSeq(raw, a + 1, b + 1)[i]
    <2>1. a + i - 1 \in 1..(Len(raw) - 1) /\ (a + i - 1) + 1 = a + i
      BY <1>0
    <2>2. Tail(raw)[a + i - 1] = raw[a + i]
      BY <1>1, <2>1
    <2> QED  BY <1>4, <1>5, <2>2
  <1>7. \A i \in 1..Len(SubSeq(Tail(raw), a, b)) :
          SubSeq(Tail(raw), a, b)[i] = SubSeq(raw, a + 1, b + 1)[i]
    BY <1>0, <1>4, <1>6
  <1> QED  BY <1>4, <1>5, <1>7, SeqEqual

\* softwareversion ends before the first space, comments start after it.
LEMMA FieldsOf ==
    ASSUME NEW raw \in Seq(Bytes), raw # <<>>
    PROVE  \E n \in 1..Len(raw) :
             /\ SplitAt(raw, n)
             /\ Fields(raw).SoftwareVersion = SubSeq(raw, 2, n)
             /\ Fields(raw).Comments = SubSeq(raw, n + 2, Len(raw))
  <1>0. Len(raw) \in Nat \ {0}
    BY EmptySeq
  <1>1. /\ Tail(raw) \in Seq(Bytes) /\ Len(Tail(raw)) = Len(raw) - 1
        /\ \A i \in 1..(Len(raw) - 1) : Tail(raw)[i] = raw[i + 1]
    BY HeadTailProperties
  <1>2. PICK m \in 0..(Len(raw) - 1) :
          /\ Cut(Tail(raw))[1] = SubSeq(Tail(raw), 1, m)
          /\ Cut(Tail(raw))[2] = SubSeq(Tail(raw), m + 2, Len(raw) - 1)
          /\ \A i \in 1..m : Tail(raw)[i] # "space"
          /\ m < Len(raw) - 1 => Tail(raw)[m + 1] = "space"
    BY <1>1, CutAt
  <1> DEFINE n == m + 1
  <1>3. n \in 1..Len(raw) /\ m + 3 = n + 2
    BY <1>0
  <1>4. SubSeq(Tail(raw), 1, m) = SubSeq(raw, 2, n)
    <2>1. SubSeq(Tail(raw), 1, m) = SubSeq(raw, 1 + 1, m + 1)
      BY <1>0, SubSeqOfTail
    <2> QED  BY <2>1
  <1>5. SubSeq(Tail(raw), m + 2, Len(raw) - 1) = SubSeq(raw, n + 2, Len(raw))
    <2>1. m + 2 \in 1..Len(raw) + 2 /\ Len(raw) - 1 \in 0..(Len(raw) - 1)
      BY <1>0
    <2>2. SubSeq(Tail(raw), m + 2, Len(raw) - 1) = SubSeq(raw, (m + 2) + 1, (Len(raw) - 1) + 1)
      BY <2>1, SubSeqOfTail
    <2>3. (m + 2) + 1 = n + 2 /\ (Len(raw) - 1) + 1 = Len(raw)
      BY <1>0
    <2> QED  BY <2>2, <2>3
  <1>6. SplitAt(raw, n)
    <2>1. ASSUME NEW i \in 2..n  PROVE raw[i] # "space"
      <3>1. i - 1 \in 1..m /\ i - 1 \in 1..(Len(raw) - 1) /\ (i - 1) + 1 = i
        BY <1>0
      <3>2. Tail(raw)[i - 1] = raw[i]
        BY <1>1, <3>1
      <3> QED  BY <1>2, <3>1, <3>2
    <2>2. ASSUME n < Len(raw)  PROVE raw[n + 1] = "space"
      <3>1. m < Len(raw) - 1 /\ m + 1 \in 1..(Len(raw) - 1)
        BY <1>0, <2>2
      <3>2. Tail(raw)[m + 1] = raw[n + 1]
        BY <1>1, <3>1
      <3> QED  BY <1>2, <3>1, <3>2
    <2> QED  BY <1>3, <2>1, <2>2 DEF SplitAt
  <1>7. /\ Fields(raw).SoftwareVersion = Cut(Tail(raw))[1]
        /\ Fields(raw).Comments = Cut(Tail(raw))[2]
    BY DEF Fields
  <1> HIDE DEF n
  <1> QED  BY <1>2, <1>3, <1>4, <1>5, <1>6, <1>7

\* The conditions under which the parser accepts a line.
Accepted(raw) ==
    /\ Len(raw) <= maxIdentificationLen
    /\ raw # <<>> /\ Head(raw) \in Versions
    /\ ToSet(Tail(raw)) \subseteq Printable
    /\ Fields(raw).SoftwareVersion # <<>>

\* The parser returns the fields of a line it accepts, which differ from the zero value.
LEMMA ParsedIfAccepted ==
    ASSUME NEW raw
    PROVE  /\ Accepted(raw) => parseServerIdentification(raw) = Fields(raw)
           /\ ~Accepted(raw) => parseServerIdentification(raw) = Unparsable
           /\ parseServerIdentification(raw) # Unparsable <=> Accepted(raw)
           /\ Accepted(raw) => withoutComments(Fields(raw)) # Unparsable
  <1>1. /\ Accepted(raw) => parseServerIdentification(raw) = Fields(raw)
        /\ ~Accepted(raw) => parseServerIdentification(raw) = Unparsable
    BY DEF Accepted, parseServerIdentification
  <1>2. Accepted(raw) => Fields(raw).ProtoVersion \in Versions
    BY DEF Accepted, Fields
  <1>3. withoutComments(Fields(raw)).ProtoVersion = Fields(raw).ProtoVersion
    BY DEF withoutComments, Fields
  <1>4. Unparsable.ProtoVersion \notin Versions
    BY DEF Unparsable, Versions
  <1> QED  BY <1>1, <1>2, <1>3, <1>4

\* The bytes after the prefix.
LEMMA TailPrintable ==
    ASSUME NEW raw \in Seq(Bytes), raw # <<>>
    PROVE  ToSet(Tail(raw)) \subseteq Printable <=> \A i \in 2..Len(raw) : raw[i] \in Printable
  <1>0. Len(raw) \in Nat \ {0}
    BY EmptySeq
  <1>1. /\ Tail(raw) \in Seq(Bytes) /\ Len(Tail(raw)) = Len(raw) - 1
        /\ \A i \in 1..(Len(raw) - 1) : Tail(raw)[i] = raw[i + 1]
    BY HeadTailProperties
  <1>2. DOMAIN Tail(raw) = 1..(Len(raw) - 1)
    BY <1>1, LenProperties
  <1>3. ToSet(Tail(raw)) \subseteq Printable <=>
          \A i \in 1..(Len(raw) - 1) : Tail(raw)[i] \in Printable
    BY <1>2 DEF ToSet
  <1>4. ASSUME \A i \in 1..(Len(raw) - 1) : Tail(raw)[i] \in Printable, NEW i \in 2..Len(raw)
        PROVE  raw[i] \in Printable
    <2>1. i - 1 \in 1..(Len(raw) - 1) /\ (i - 1) + 1 = i
      BY <1>0
    <2> QED  BY <1>1, <1>4, <2>1
  <1>5. ASSUME \A i \in 2..Len(raw) : raw[i] \in Printable, NEW i \in 1..(Len(raw) - 1)
        PROVE  Tail(raw)[i] \in Printable
    <2>1. i + 1 \in 2..Len(raw)
      BY <1>0
    <2> QED  BY <1>1, <1>5, <2>1
  <1> QED  BY <1>3, <1>4, <1>5

\* The parser accepts exactly the lines of the grammar (probe.go:554-597).
LEMMA AcceptedIffWellFormed ==
    ASSUME NEW raw \in Seq(Bytes)
    PROVE  Accepted(raw) <=> WellFormed(raw)
  <1>0. Len(raw) \in Nat /\ maxIdentificationLen \in Nat /\ (raw # <<>> <=> Len(raw) > 0)
    BY EmptySeq, LenProperties, LimitAssumption
  <1>1. ASSUME raw # <<>>  PROVE Head(raw) = raw[1]
    BY <1>1
  <1>2. ASSUME Accepted(raw)  PROVE WellFormed(raw)
    <2>1. raw # <<>>
      BY <1>2 DEF Accepted
    <2>2. PICK k \in 1..Len(raw) :
            /\ SplitAt(raw, k)
            /\ Fields(raw).SoftwareVersion = SubSeq(raw, 2, k)
      BY <2>1, FieldsOf
    <2>3. k > 1
      <3>1. CASE k = 1
        <4>1. SubSeq(raw, 2, k) = <<>>
          BY <3>1, SubSeqEmpty
        <4> QED  BY <4>1, <2>2, <1>2 DEF Accepted
      <3> QED  BY <3>1, <1>0
    <2>4. \A i \in 2..Len(raw) : raw[i] \in Printable
      BY <2>1, <1>2, TailPrintable DEF Accepted
    <2> DEFINE n == k - 1
    <2>5. /\ n \in 1..maxIdentificationLen /\ 1 + n <= Len(raw) /\ n + 1 = k /\ n + 2 = k + 1
          /\ Len(raw) <= maxIdentificationLen
      BY <1>0, <1>2, <2>3 DEF Accepted
    <2>6. raw[1] \in Versions
      BY <1>1, <1>2, <2>1 DEF Accepted
    <2>7. \A i \in 2..k : raw[i] \in Printable \ {"space"}
      BY <1>0, <2>2, <2>4 DEF SplitAt
    <2>8. Len(raw) > k => raw[k + 1] = "space"
      BY <1>0, <2>2 DEF SplitAt
    <2>9. \A i \in (k + 1)..Len(raw) : raw[i] \in Printable
      BY <1>0, <2>3, <2>4
    <2> HIDE DEF n
    <2> QED  BY <2>5, <2>6, <2>7, <2>8, <2>9 DEF WellFormed
  <1>3. ASSUME WellFormed(raw)  PROVE Accepted(raw)
    <2>1. PICK version \in Versions, n \in 1..maxIdentificationLen :
            /\ Len(raw) <= maxIdentificationLen
            /\ 1 + n <= Len(raw)
            /\ raw[1] = version
            /\ \A i \in 2..(n + 1) : raw[i] \in Printable \ {"space"}
            /\ Len(raw) > n + 1 => raw[n + 2] = "space"
            /\ \A i \in (n + 2)..Len(raw) : raw[i] \in Printable
      BY <1>3 DEF WellFormed
    <2>2. raw # <<>> /\ Head(raw) \in Versions
      BY <1>0, <1>1, <2>1
    <2>3. ToSet(Tail(raw)) \subseteq Printable
      <3>1. \A i \in 2..Len(raw) : raw[i] \in Printable
        BY <1>0, <2>1
      <3> QED  BY <2>2, <3>1, TailPrintable
    <2>4. PICK k \in 1..Len(raw) :
            /\ SplitAt(raw, k)
            /\ Fields(raw).SoftwareVersion = SubSeq(raw, 2, k)
      BY <2>2, FieldsOf
    <2>5. raw[2] # "space" /\ Len(raw) > 1
      BY <1>0, <2>1
    <2>6. k > 1
      BY <1>0, <2>4, <2>5 DEF SplitAt
    <2>7. Len(SubSeq(raw, 2, k)) > 0
      <3>1. \A i \in 2..k : raw[i] \in Bytes
        BY <1>0, ElementOfSeq
      <3>2. Len(SubSeq(raw, 2, k)) = IF 2 <= k THEN k - 2 + 1 ELSE 0
        BY <1>0, <3>1, SubSeqProperties
      <3> QED  BY <1>0, <2>6, <3>2
    <2> DEFINE software == SubSeq(raw, 2, k)
    <2>8. Len(software) > 0 /\ Fields(raw).SoftwareVersion = software
      BY <2>4, <2>7
    <2> HIDE DEF software
    <2>9. Fields(raw).SoftwareVersion # <<>>
      BY <2>8
    <2> QED  BY <2>1, <2>2, <2>3, <2>9 DEF Accepted
  <1> QED  BY <1>2, <1>3

-----------------------------------------------------------------------------
(***************************************************************************)
(* From the line that was sent to what is exported.                        *)
(***************************************************************************)
\* A line loses at most its last byte when its CR is trimmed.
LEMMA TrimmedLine ==
    ASSUME NEW l \in Seq(Bytes)
    PROVE  TrimCR(l) \in Seq(Bytes) /\ Len(TrimCR(l)) >= Len(l) - 1 /\ Len(TrimCR(l)) <= Len(l)
  <1>0. Len(l) \in Nat /\ (l # <<>> <=> Len(l) > 0)
    BY EmptySeq, LenProperties
  <1>1. CASE TrimCR(l) = l
    BY <1>0, <1>1
  <1>2. CASE l # <<>> /\ TrimCR(l) = SubSeq(l, 1, Len(l) - 1)
    <2>1. \A i \in 1..(Len(l) - 1) : l[i] \in Bytes
      BY <1>0, ElementOfSeq
    <2>2. /\ SubSeq(l, 1, Len(l) - 1) \in Seq(Bytes)
          /\ Len(SubSeq(l, 1, Len(l) - 1)) =
               IF 1 <= Len(l) - 1 THEN (Len(l) - 1) - 1 + 1 ELSE 0
      BY <1>0, <2>1, SubSeqProperties
    <2> QED  BY <1>0, <1>2, <2>2
  <1> QED  BY <1>1, <1>2 DEF TrimCR, Front

\* Either nothing was cut from the line, or what is left of it is too long to be
\* accepted, as the whole of it is (probe.go:207-235).
LEMMA CutOrWhole ==
    ASSUME LineInv
    PROVE  \/ line = sent
           \/ /\ Len(TrimCR(line)) > maxIdentificationLen
              /\ Len(TrimCR(sent)) > maxIdentificationLen
  <1>0. /\ Len(sent) \in Nat /\ Len(line) \in Nat /\ maxIdentificationLen \in Nat
        /\ line \in Seq(Bytes) /\ sent \in Seq(Bytes)
    BY LenProperties, LimitAssumption DEF LineInv
  <1>1. CASE Len(sent) <= maxIdentificationLen + 2
    <2>1. Len(line) = Len(sent) /\ \A i \in 1..Len(line) : line[i] = sent[i]
      BY <1>1 DEF LineInv, KeptLen
    <2> QED  BY <1>0, <2>1, SeqEqual
  <1>2. CASE Len(sent) > maxIdentificationLen + 2
    <2>1. Len(line) = maxIdentificationLen + 2
      BY <1>0, <1>2 DEF LineInv, KeptLen
    <2>2. /\ Len(TrimCR(line)) \in Nat /\ Len(TrimCR(line)) >= Len(line) - 1
          /\ Len(TrimCR(sent)) \in Nat /\ Len(TrimCR(sent)) >= Len(sent) - 1
      BY <1>0, TrimmedLine, LenProperties
    <2> QED  BY <1>0, <1>2, <2>1, <2>2
  <1> QED  BY <1>0, <1>1, <1>2

\* What is exported, in terms of the line that was sent.
LEMMA Exported ==
    ASSUME IInv, Recorded
    PROVE  LET l == TrimCR(sent) IN
           /\ l \in Seq(Bytes)
           /\ exported # Unparsable <=> Accepted(l)
           /\ exported # Unparsable =>
                exported = Fields(l) \/ exported = withoutComments(Fields(l))
  <1> DEFINE l == TrimCR(sent)
             raw == TrimCR(line)
             parsed == parseServerIdentification(raw)
  <1>1. l \in Seq(Bytes) /\ raw \in Seq(Bytes)
    BY TrimmedLine DEF IInv, LineInv
  <1>2. identification = raw
    BY DEF IInv, ExportInv, ReceivedInv, Recorded
  <1>3. exported = parsed \/ (parsed # Unparsable /\ exported = withoutComments(parsed))
    BY <1>2 DEF IInv, ExportInv, Recorded
  <1>4. /\ Accepted(raw) <=> Accepted(l)
        /\ Accepted(raw) => raw = l
    <2>1. CASE line = sent
      BY <2>1
    <2>2. CASE Len(raw) > maxIdentificationLen /\ Len(l) > maxIdentificationLen
      <3>1. Len(raw) \in Nat /\ Len(l) \in Nat /\ maxIdentificationLen \in Nat
        BY <1>1, LenProperties, LimitAssumption
      <3> QED  BY <2>2, <3>1 DEF Accepted
    <2> QED  BY <2>1, <2>2, CutOrWhole DEF IInv
  <1> HIDE DEF l, raw
  <1>5. /\ Accepted(raw) => parsed = Fields(raw)
        /\ ~Accepted(raw) => parsed = Unparsable
        /\ parsed # Unparsable <=> Accepted(raw)
        /\ Accepted(raw) => withoutComments(Fields(raw)) # Unparsable
    BY ParsedIfAccepted
  <1> HIDE DEF parsed
  <1>6. /\ exported # Unparsable <=> Accepted(l)
        /\ exported # Unparsable =>
             exported = Fields(l) \/ exported = withoutComments(Fields(l))
    BY <1>3, <1>4, <1>5
  <1> QED  BY <1>1, <1>6 DEF l

\* The fields that stay and those that go when the comments are not to be exported.
LEMMA StrippedFields ==
    ASSUME NEW l
    PROVE  /\ withoutComments(Fields(l)).ProtoVersion = Fields(l).ProtoVersion
           /\ withoutComments(Fields(l)).SoftwareVersion = Fields(l).SoftwareVersion
           /\ withoutComments(Fields(l)).RFCConformant = Fields(l).RFCConformant
           /\ withoutComments(Fields(l)).Comments = <<>>
           /\ withoutComments(Fields(l)).String =
                <<Fields(l).ProtoVersion>> \o Fields(l).SoftwareVersion
           /\ Fields(l).String = l
           /\ Fields(l).ProtoVersion = Head(l)
  BY DEF withoutComments, Fields

\* The prefix and softwareversion make up the start of the line.
LEMMA StartOfLine ==
    ASSUME NEW l \in Seq(Bytes), NEW n \in 1..Len(l)
    PROVE  <<Head(l)>> \o SubSeq(l, 2, n) = SubSeq(l, 1, n)
  <1>0. Len(l) \in Nat
    BY LenProperties
  <1>1. Head(l) = l[1]
    BY <1>0
  <1>2. 1 \in 1..Len(l)
    BY <1>0
  <1>3. SubSeq(l, 1, n) = <<l[1]>> \o SubSeq(l, 1 + 1, n)
    BY <1>2, SubSeqRecursiveFirst
  <1> QED  BY <1>1, <1>3

\* What is exported is the line the server sent, whole or without its comments, and
\* nothing is exported of a line outside the grammar, for every limit and every length
\* of the line (probe.go:207-235, 554-603).
THEOREM ExportedIsSent == Spec => []ExportedAsSent
  <1>1. IInv => ExportedAsSent
    <2> SUFFICES ASSUME IInv, Recorded  PROVE ExportedAsSent
      BY DEF ExportedAsSent
    <2> DEFINE l == TrimCR(sent)
    <2>1. /\ l \in Seq(Bytes)
          /\ exported # Unparsable <=> Accepted(l)
          /\ exported # Unparsable =>
               exported = Fields(l) \/ exported = withoutComments(Fields(l))
      BY Exported
    <2> HIDE DEF l
    <2>2. exported # Unparsable <=> WellFormed(l)
      BY <2>1, AcceptedIffWellFormed
    <2>3. ASSUME exported # Unparsable
          PROVE  \E n \in 1..Len(l) :
                   /\ <<exported.ProtoVersion>> \o exported.SoftwareVersion = SubSeq(l, 1, n)
                   /\ n < Len(l) => l[n + 1] = "space"
                   /\ <<exported.String, exported.Comments>> \in
                        {<<l, SubSeq(l, n + 2, Len(l))>>, <<SubSeq(l, 1, n), <<>>>>}
      <3>1. PICK n \in 1..Len(l) :
              /\ SplitAt(l, n)
              /\ Fields(l).SoftwareVersion = SubSeq(l, 2, n)
              /\ Fields(l).Comments = SubSeq(l, n + 2, Len(l))
        BY <2>1, <2>3, FieldsOf DEF Accepted
      <3>2. exported.ProtoVersion = Head(l) /\ exported.SoftwareVersion = SubSeq(l, 2, n)
        BY <2>1, <2>3, <3>1, StrippedFields
      <3>3. <<exported.ProtoVersion>> \o exported.SoftwareVersion = SubSeq(l, 1, n)
        BY <2>1, <3>2, StartOfLine
      <3>4. \/ exported.String = l /\ exported.Comments = SubSeq(l, n + 2, Len(l))
            \/ exported.String = SubSeq(l, 1, n) /\ exported.Comments = <<>>
        <4>1. /\ Fields(l).String = l
              /\ withoutComments(Fields(l)).Comments = <<>>
              /\ withoutComments(Fields(l)).String =
                   <<Fields(l).ProtoVersion>> \o Fields(l).SoftwareVersion
              /\ Fields(l).ProtoVersion = Head(l)
          BY StrippedFields
        <4>2. CASE exported = Fields(l)
          BY <3>1, <4>1, <4>2
        <4>3. CASE exported = withoutComments(Fields(l))
          <5>1. withoutComments(Fields(l)).String = SubSeq(l, 1, n)
            BY <2>1, <3>1, <4>1, StartOfLine
          <5> QED  BY <4>1, <4>3, <5>1
        <4> QED  BY <2>1, <2>3, <4>2, <4>3
      <3>5. n < Len(l) => l[n + 1] = "space"
        BY <3>1 DEF SplitAt
      <3> QED  BY <3>3, <3>4, <3>5
    <2> QED  BY <2>2, <2>3 DEF ExportedAsSent, l
  <1> QED  BY <1>1, InvHolds, PTL

\* The rating is that of the line as it was sent, also when its comments are stripped
\* (probe.go:592-603).
THEOREM RatedAsSent == Spec => []ConformanceOfTheLine
  <1>1. IInv => ConformanceOfTheLine
    <2> SUFFICES ASSUME IInv, Recorded, exported # Unparsable
                 PROVE  exported.RFCConformant <=>
                          /\ Len(TrimCR(sent)) + 2 <= maxIdentificationLen
                          /\ ~Contains(exported.SoftwareVersion, "minus")
      BY DEF ConformanceOfTheLine
    <2> DEFINE l == TrimCR(sent)
    <2>1. l \in Seq(Bytes) /\ (exported = Fields(l) \/ exported = withoutComments(Fields(l)))
      BY Exported
    <2>2. Len(l) \in Nat /\ maxIdentificationLen \in Nat
      BY <2>1, LenProperties, LimitAssumption
    <2> HIDE DEF l
    <2>3. /\ exported.RFCConformant = Fields(l).RFCConformant
          /\ exported.SoftwareVersion = Fields(l).SoftwareVersion
      BY <2>1, StrippedFields
    <2>4. Fields(l).RFCConformant <=>
            /\ Len(l) <= maxIdentificationLen - 2
            /\ ~Contains(Fields(l).SoftwareVersion, "minus")
      BY DEF Fields
    <2>5. Len(l) <= maxIdentificationLen - 2 <=> Len(l) + 2 <= maxIdentificationLen
      BY <2>2
    <2> QED  BY <2>3, <2>4, <2>5 DEF l
  <1> QED  BY <1>1, InvHolds, PTL

\* A part of a line has only bytes of the line.
LEMMA PartOfLine ==
    ASSUME NEW l \in Seq(Bytes), NEW P, \A i \in 1..Len(l) : l[i] \in P,
           NEW a \in 1..Len(l) + 2, NEW b \in 0..Len(l)
    PROVE  ToSet(SubSeq(l, a, b)) \subseteq P /\ Len(SubSeq(l, a, b)) <= Len(l)
  <1>0. Len(l) \in Nat
    BY LenProperties
  <1>1. \A i \in a..b : l[i] \in P
    BY <1>0
  <1>2. /\ SubSeq(l, a, b) \in Seq(P)
        /\ Len(SubSeq(l, a, b)) = IF a <= b THEN b - a + 1 ELSE 0
    BY <1>0, <1>1, SubSeqProperties
  <1>3. ToSet(SubSeq(l, a, b)) \subseteq P
    BY <1>2, LenProperties, ElementOfSeq DEF ToSet
  <1> QED  BY <1>0, <1>2, <1>3

\* Nothing unprintable and nothing beyond the limit is exported (probe.go:554-597).
THEOREM OnlyPrintable == Spec => []OnlyPrintableExported
  <1>1. IInv => OnlyPrintableExported
    <2> SUFFICES ASSUME IInv, Recorded  PROVE OnlyPrintableExported
      BY DEF OnlyPrintableExported
    <2> DEFINE l == TrimCR(sent)
               P == Printable \cup Versions
    <2>1. /\ l \in Seq(Bytes)
          /\ exported # Unparsable <=> Accepted(l)
          /\ exported # Unparsable =>
               exported = Fields(l) \/ exported = withoutComments(Fields(l))
      BY Exported
    <2> HIDE DEF l
    <2>2. CASE exported = Unparsable
      <3>1. /\ exported.String = <<>> /\ exported.SoftwareVersion = <<>>
            /\ exported.Comments = <<>>
        BY <2>2 DEF Unparsable
      <3>2. ToSet(<<>>) = {} /\ Len(<<>>) = 0
        BY DEF ToSet
      <3> QED  BY <3>1, <3>2, LimitAssumption DEF OnlyPrintableExported
    <2>3. CASE exported # Unparsable
      <3>0. Len(l) \in Nat \ {0} /\ Len(l) <= maxIdentificationLen /\ l # <<>>
        BY <2>1, <2>3, EmptySeq DEF Accepted
      <3>1. \A i \in 1..Len(l) : l[i] \in P
        <4>1. l[1] \in Versions
          BY <2>1, <2>3 DEF Accepted
        <4>2. \A i \in 2..Len(l) : l[i] \in Printable
          BY <2>1, <2>3, <3>0, TailPrintable DEF Accepted
        <4> QED  BY <3>0, <4>1, <4>2
      <3>2. PICK n \in 1..Len(l) :
              /\ Fields(l).SoftwareVersion = SubSeq(l, 2, n)
              /\ Fields(l).Comments = SubSeq(l, n + 2, Len(l))
        BY <2>1, <3>0, FieldsOf
      <3> HIDE DEF P
      <3>3. /\ ToSet(SubSeq(l, 2, n)) \subseteq P
            /\ ToSet(SubSeq(l, n + 2, Len(l))) \subseteq P
            /\ ToSet(SubSeq(l, 1, n)) \subseteq P /\ Len(SubSeq(l, 1, n)) <= Len(l)
        BY <2>1, <3>0, <3>1, PartOfLine
      <3>4. ToSet(l) \subseteq P
        BY <2>1, <3>1, LenProperties DEF ToSet
      <3>5. ToSet(<<>>) \subseteq P
        BY DEF ToSet
      <3>6. exported.SoftwareVersion = SubSeq(l, 2, n)
        BY <2>1, <2>3, <3>2, StrippedFields
      <3>7. exported.Comments = SubSeq(l, n + 2, Len(l)) \/ exported.Comments = <<>>
        <4>1. withoutComments(Fields(l)).Comments = <<>>
          BY StrippedFields
        <4> QED  BY <2>1, <2>3, <3>2, <4>1
      <3>8. exported.String = l \/ exported.String = SubSeq(l, 1, n)
        <4>1. /\ Fields(l).String = l
              /\ withoutComments(Fields(l)).String =
                   <<Fields(l).ProtoVersion>> \o Fields(l).SoftwareVersion
              /\ Fields(l).ProtoVersion = Head(l)
          BY StrippedFields
        <4>2. CASE exported = Fields(l)
          BY <4>1, <4>2
        <4>3. CASE exported = withoutComments(Fields(l))
          <5>1. <<Head(l)>> \o SubSeq(l, 2, n) = SubSeq(l, 1, n)
            BY <2>1, StartOfLine
          <5> QED  BY <3>2, <4>1, <4>3, <5>1
        <4> QED  BY <2>1, <2>3, <4>2, <4>3
      <3>9. Len(exported.String) <= maxIdentificationLen
        <4>1. CASE exported.String = l
          BY <3>0, <4>1
        <4>2. CASE exported.String = SubSeq(l, 1, n)
          <5>1. Len(SubSeq(l, 1, n)) = n
            BY <2>1, <3>0, ElementOfSeq, SubSeqProperties
          <5> QED  BY <3>0, <4>2, <5>1, LimitAssumption
        <4> QED  BY <3>8, <4>1, <4>2
      <3>10. \A field \in {exported.String, exported.SoftwareVersion, exported.Comments} :
               ToSet(field) \subseteq P
        BY <3>3, <3>4, <3>5, <3>6, <3>7, <3>8
      <3> QED  BY <3>9, <3>10 DEF OnlyPrintableExported, P
    <2> QED  BY <2>2, <2>3
  <1> QED  BY <1>1, InvHolds, PTL
=============================================================================
