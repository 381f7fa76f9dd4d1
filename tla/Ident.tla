------------------------------- MODULE Ident -------------------------------
(***************************************************************************)
(* The server's identification string (internal/probe/probe.go):           *)
(* identificationWatcher picks the line out of what the server sends, in   *)
(* reads of any size, and parseServerIdentification decides what of it may *)
(* be exported as label values.                                            *)
(*                                                                         *)
(* Bytes are reduced to the classes the code tells apart.  The prefixes    *)
(* "SSH-2.0-", "SSH-1.99-" and "SSH-" with any other protoversion are one  *)
(* symbol each and count as one byte; the limit is a constant.             *)
(***************************************************************************)
EXTENDS Integers, SequencesExt

CONSTANTS
    maxIdentificationLen,   \* 255 in the code; includes the CR LF
    MaxLine,                \* bound on the bytes of a line
    MaxOtherLines           \* bound on lines before the identification

Versions    == {"2.0", "1.99"}            \* "SSH-2.0-", "SSH-1.99-"
SSHPrefixes == Versions \cup {"SSH-"}
Printable   == {"char", "minus", "space"} \* 0x20 to 0x7e; "char" is any other of them
Bytes       == SSHPrefixes \cup Printable \cup {"CR", "LF", "unprintable"}

ASSUME LimitAssumption == maxIdentificationLen \in Nat /\ maxIdentificationLen > 2
ASSUME BoundsAssumption == MaxLine \in Nat /\ MaxOtherLines \in Nat

VARIABLES
    reading,        \* scan is going through the bytes of a Read
    line,           \* identificationWatcher.line
    identification, \* identificationWatcher.identification
    received,       \* identificationWatcher.received is set
    exported,       \* result.ServerIdentification, or NotRecorded
    \* history
    sent,           \* the whole of the current line
    others          \* number of lines before it

watcher == <<reading, line, identification, received>>
vars == <<watcher, exported, sent, others>>

Unparsable  == [String |-> <<>>, ProtoVersion |-> "none", SoftwareVersion |-> <<>>,
                Comments |-> <<>>, RFCConformant |-> FALSE]
NotRecorded == [Unparsable EXCEPT !.ProtoVersion = "not recorded"]

Init ==
    /\ reading = FALSE
    /\ line = <<>> /\ identification = <<>> /\ received = FALSE
    /\ exported = NotRecorded
    /\ sent = <<>> /\ others = 0

-----------------------------------------------------------------------------
(***************************************************************************)
(* The watcher.                                                            *)
(***************************************************************************)
IsSSH(l)  == l # <<>> /\ Head(l) \in SSHPrefixes
TrimCR(l) == IF l # <<>> /\ Last(l) = "CR" THEN Front(l) ELSE l

\* Variant of Read that starts a line of its own.
ReadFromScratch ==
    /\ ~reading /\ ~received
    /\ reading' = TRUE
    /\ line' = <<>>
    /\ UNCHANGED <<identification, received, exported, sent, others>>

\* A Read that returned bytes is scanned unless the identification was received.
Read ==
    /\ ~reading /\ ~received
    /\ reading' = TRUE
    /\ UNCHANGED <<line, identification, received, exported, sent, others>>

ReadEnds ==
    /\ reading
    /\ reading' = FALSE
    /\ UNCHANGED <<line, identification, received, exported, sent, others>>

\* Variant of append that keeps what the limit allows.
AppendUpToLimit(l, c) == IF Len(l) < maxIdentificationLen THEN Append(l, c) ELSE l

append(l, c) == IF Len(l) < maxIdentificationLen + 2 THEN Append(l, c) ELSE l

\* One turn of scan's loop.  Of what a server may send, lines that are no
\* identification are reduced to two classes of bytes.
scanByte(c) ==
    /\ reading /\ c # "LF"
    /\ Len(sent) < MaxLine
    /\ c \in SSHPrefixes => sent = <<>>
    /\ sent # <<>> /\ ~IsSSH(sent) => c \in {"char", "CR"}
    /\ line' = append(line, c)
    /\ sent' = Append(sent, c)
    /\ UNCHANGED <<reading, identification, received, exported, others>>

scanOtherLine ==
    /\ reading /\ ~IsSSH(line)
    /\ others < MaxOtherLines
    /\ line' = <<>>
    /\ sent' = <<>>
    /\ others' = others + 1
    /\ UNCHANGED <<reading, identification, received, exported>>

\* The end of the identification: scan returns, the rest of the Read is not looked at.
scanIdentification ==
    /\ reading /\ IsSSH(line)
    /\ identification' = TrimCR(line)
    /\ received' = TRUE
    /\ reading' = FALSE
    /\ UNCHANGED <<line, exported, sent, others>>

-----------------------------------------------------------------------------
(***************************************************************************)
(* The parser.                                                             *)
(***************************************************************************)
\* bytes.Cut at the first space.
Cut(s) == LET i == SelectInSeq(s, LAMBDA c : c = "space")
          IN  IF i = 0 THEN <<s, <<>>>>
              ELSE <<SubSeq(s, 1, i - 1), SubSeq(s, i + 1, Len(s))>>

Fields(raw) ==
    LET cut == Cut(Tail(raw)) IN
    [String          |-> raw,
     ProtoVersion    |-> Head(raw),
     SoftwareVersion |-> cut[1],
     Comments        |-> cut[2],
     RFCConformant   |-> Len(raw) <= maxIdentificationLen - 2 /\ ~Contains(cut[1], "minus")]

\* Variant of parseServerIdentification that checks only softwareversion for
\* unprintable bytes.
ParseChecksSoftwareOnly(raw) ==
    IF /\ Len(raw) <= maxIdentificationLen
       /\ raw # <<>> /\ Head(raw) \in Versions
       /\ Fields(raw).SoftwareVersion # <<>>
       /\ ToSet(Fields(raw).SoftwareVersion) \subseteq Printable
    THEN Fields(raw) ELSE Unparsable

parseServerIdentification(raw) ==
    IF /\ Len(raw) <= maxIdentificationLen
       /\ raw # <<>> /\ Head(raw) \in Versions
       /\ ToSet(Tail(raw)) \subseteq Printable
       /\ Fields(raw).SoftwareVersion # <<>>
    THEN Fields(raw) ELSE Unparsable

\* Variant of withoutComments that judges the string it made anew.
StripAndParseAgain(s) == parseServerIdentification(<<s.ProtoVersion>> \o s.SoftwareVersion)

withoutComments(s) ==
    [s EXCEPT !.String = <<s.ProtoVersion>> \o s.SoftwareVersion, !.Comments = <<>>]

\* After the handshake Run records what the watcher has seen.
Record(strip) ==
    /\ received
    /\ exported = NotRecorded
    /\ LET parsed == parseServerIdentification(identification)
       IN  exported' = IF parsed # Unparsable /\ strip THEN withoutComments(parsed) ELSE parsed
    /\ UNCHANGED <<watcher, sent, others>>

Done == exported # NotRecorded /\ UNCHANGED vars

Next ==
    \/ Read \/ ReadEnds
    \/ \E c \in Bytes : scanByte(c)
    \/ scanOtherLine \/ scanIdentification
    \/ \E strip \in BOOLEAN : Record(strip)
    \/ Done

Spec == Init /\ [][Next]_vars

-----------------------------------------------------------------------------
Recorded == exported # NotRecorded

\* The identification grammar, on a whole line without its CR LF.
WellFormed(l) ==
    \E version \in Versions, n \in 1..maxIdentificationLen :
      /\ Len(l) <= maxIdentificationLen
      /\ 1 + n <= Len(l)
      /\ l[1] = version
      /\ \A i \in 2..(n + 1) : l[i] \in Printable \ {"space"}
      /\ Len(l) > n + 1 => l[n + 2] = "space"
      /\ \A i \in (n + 2)..Len(l) : l[i] \in Printable

\* What is exported is the line the server sent, whole or without its comments, and a
\* line that is too long or malformed is not exported at all: cutting the line short
\* and trimming its CR never make a good line of a bad one, however the line is spread
\* over reads (probe.go:207-235, 554-597).
ExportedAsSent ==
    Recorded =>
      LET l == TrimCR(sent) IN
      /\ exported # Unparsable <=> WellFormed(l)
      /\ exported # Unparsable =>
           \E n \in 1..Len(l) :
             /\ <<exported.ProtoVersion>> \o exported.SoftwareVersion = SubSeq(l, 1, n)
             /\ n < Len(l) => l[n + 1] = "space"
             /\ <<exported.String, exported.Comments>> \in
                   {<<l, SubSeq(l, n + 2, Len(l))>>, <<SubSeq(l, 1, n), <<>>>>}

\* The identification is the first line that starts with "SSH-": no such line is passed
\* over as one of the other lines, however it is spread over reads and whatever was cut
\* from the lines before it (probe.go:207-235).
NoIdentificationMissed == [][others' # others => ~IsSSH(sent)]_vars

\* "untrusted input that ends up in label values" (probe.go:554-556): no byte outside
\* printable US-ASCII, and nothing longer than the limit, is exported.
OnlyPrintableExported ==
    Recorded =>
      /\ Len(exported.String) <= maxIdentificationLen
      /\ \A field \in {exported.String, exported.SoftwareVersion, exported.Comments} :
           ToSet(field) \subseteq Printable \cup Versions

\* server_identification_rfc_conformant judges the line as the server sent it, by the
\* limit that includes the CR LF, also when the comments that made it too long are not
\* exported (probe.go:541-542, 592-595, 599-603).
ConformanceOfTheLine ==
    (Recorded /\ exported # Unparsable) =>
      (exported.RFCConformant <=> /\ Len(TrimCR(sent)) + 2 <= maxIdentificationLen
                                  /\ ~Contains(exported.SoftwareVersion, "minus"))
=============================================================================
