---------------------------- MODULE ProbeProofs ----------------------------
(***************************************************************************)
(* Proofs that every probe, whatever the bounds on the clock and on key    *)
(* exchanges, satisfies the safety properties of Probe.  None of them is   *)
(* inductive: they speak of a result that is put together over the whole   *)
(* of Run.  The strengthening IInv says what each position in Run knows of *)
(* the clock readings, the connection, the host key channel and the result.*)
(***************************************************************************)
EXTENDS Probe, TLAPS

BeforeRecord == {"start", "dial", "dialed"}

\* The clock readings are taken in the order of the phases; each is present from
\* the position on at which Run may read it.
ClockInv ==
    /\ pc = "start" <=> dialStart = NoTime
    /\ dialStart # NoTime => dialStart <= now
    /\ connectStart # NoTime =>
         dialStart # NoTime /\ dialStart <= connectStart /\ connectStart <= now
    /\ pc \notin {"start", "dial"} =>
         dialEnd # NoTime /\ dialStart <= dialEnd /\ dialEnd <= now
    /\ pc \notin {"start", "dial"} /\ dialErr = "none" => connectStart # NoTime
    /\ pc \notin {"start", "dial"} /\ connectStart # NoTime => connectStart <= dialEnd
    /\ pc \in BeforeRecord \cup {"connected"} => versionExchangeStart = NoTime
    /\ pc \in BeforeRecord \cup {"connected", "version"} => received = NoTime
    /\ pc \in InNewClientConn \cup {"over", "hostkey"} => versionExchangeStart # NoTime
    /\ versionExchangeStart # NoTime =>
         dialEnd # NoTime /\ dialEnd <= versionExchangeStart /\ versionExchangeStart <= now
    /\ received # NoTime =>
         versionExchangeStart # NoTime /\ versionExchangeStart <= received /\ received <= now
    /\ pc \in {"kexinit", "kexreply", "verify", "newkeys", "session"} =>
         received # NoTime /\ identification \in AllIdentifications
    /\ received # NoTime => identification \in AllIdentifications

\* A connection that is closed while the handshake goes on was closed by the
\* force-close, after the context had ended.
ConnInv ==
    /\ pc \in {"start", "dial"} => dialErr = "none"
    /\ pc = "dialed" /\ dialErr = "none" => conn = "open"
    /\ pc \in {"connected", "over", "hostkey"} \cup InNewClientConn => dialErr = "none"
    /\ afterFunc \in {"running", "fired"} => ctxErr # "none"
    /\ afterFunc # "unset" => pc \notin BeforeRecord \cup {"connected"}
    /\ pc \in InNewClientConn \cup {"connected"} => conn # "none"
    /\ pc \in InNewClientConn \cup {"connected"} /\ conn = "closed" => ctxErr # "none"
    /\ pc \in BeforeRecord => conn # "closed"
    /\ handshakeErr = "closed" => ctxErr # "none"

\* The channel holds the first verdict from the moment there is one until
\* RecordHostKey takes it; there are no later key exchanges without a first.
VerdictInv ==
    /\ pc \in BeforeRecord \cup {"connected", "version", "kexinit", "kexreply", "verify"} =>
         firstVerdict = "none" /\ hostKeyResultCh = "empty"
    /\ pc \in {"newkeys", "session"} => firstVerdict # "none"
    /\ rekeys > 0 => firstVerdict # "none"
    /\ pc \in {"newkeys", "session", "over", "hostkey"} =>
         hostKeyResultCh = IF firstVerdict = "none" THEN "empty" ELSE firstVerdict
    /\ firstVerdict # "none" => received # NoTime

\* Nothing but what TransportReadyCallback sets is in the result before the outcome
\* of the handshake is recorded.
PhasesOpen ==
    /\ ~result.VersionExchangeSuccess /\ result.VersionExchangeDuration = 0
    /\ ~result.KeyExchangeSuccess
    /\ ~result.ServerHostKeyVerifySuccess
    /\ result.ErrorPhase = "none" /\ result.ErrorReason = "none" /\ ~result.Success

Connected ==
    /\ result.TCPConnectSuccess
    /\ result.DNSLookup = (target = "hostname")
    /\ result.DNSLookupSuccess = result.DNSLookup

HandshakeRecorded ==
    /\ result.VersionExchangeSuccess = (received # NoTime)
    /\ result.KeyExchangeSuccess = (handshakeErr = "errAbort")
    /\ ~result.ServerHostKeyVerifySuccess /\ ~result.Success
    /\ handshakeErr = "errAbort" => result.ErrorPhase = "none" /\ result.ErrorReason = "none"
    /\ handshakeErr # "errAbort" =>
         /\ result.ErrorPhase = IF received = NoTime THEN "version_exchange"
                                                     ELSE "key_exchange"
         /\ result.ErrorReason # "none"
    /\ handshakeErr = "closed" => result.ErrorReason = classifyContextError(ctxErr)

OutcomeInv ==
    /\ pc \in BeforeRecord => result = ZeroResult
    /\ pc \in {"connected", "over", "hostkey"} \cup InNewClientConn => Connected
    /\ pc \in {"connected", "over"} \cup InNewClientConn => PhasesOpen
    /\ pc \in BeforeRecord \cup {"connected"} \cup InNewClientConn =>
         handshakeErr = "none" /\ result.KeyExchangeDuration = 0
    /\ pc \in {"over", "hostkey"} => handshakeErr # "none"
    /\ handshakeErr = "errAbort" =>
         received # NoTime /\ result.Algorithms /\ firstVerdict # "none"
    /\ pc = "hostkey" => HandshakeRecorded

\* What the durations recorded so far leave of the time that has passed.
DurationInv ==
    /\ pc \notin BeforeRecord =>
         result.DNSLookupDuration + result.TCPConnectDuration <= dialEnd
    /\ received = NoTime =>
         result.VersionExchangeDuration = 0 /\ result.KeyExchangeDuration = 0
    /\ received # NoTime =>
         /\ versionExchangeStart + result.VersionExchangeDuration <= received
         /\ received + result.KeyExchangeDuration <= now

\* The properties of Probe, from the step before the return on.
Returning == pc \in {"return", "done"}

PhaseOrderInv ==
    Returning =>
      /\ result.KeyExchangeSuccess => result.VersionExchangeSuccess
      /\ result.VersionExchangeSuccess => result.TCPConnectSuccess
      /\ result.TCPConnectSuccess /\ result.DNSLookup => result.DNSLookupSuccess
      /\ result.ErrorPhase = "dns_lookup" <=> (result.DNSLookup /\ ~result.DNSLookupSuccess)
      /\ result.ErrorPhase = "tcp_connect" <=>
            /\ ~result.TCPConnectSuccess
            /\ result.DNSLookup => result.DNSLookupSuccess
      /\ result.ErrorPhase = "version_exchange" <=>
            (result.TCPConnectSuccess /\ ~result.VersionExchangeSuccess)
      /\ result.ErrorPhase = "key_exchange" <=>
            /\ result.VersionExchangeSuccess
            /\ ~(result.KeyExchangeSuccess /\ result.ServerHostKeyVerifySuccess)

ExplainedInv ==
    Returning =>
      /\ result.Success <=> result.ErrorPhase = "none"
      /\ result.Success <=> result.ErrorReason = "none"
      /\ result.Success => /\ result.KeyExchangeSuccess
                           /\ result.Algorithms
                           /\ firstVerdict = "verified"

VerdictReportedInv ==
    Returning =>
      /\ result.ServerHostKeyVerifySuccess <=> firstVerdict = "verified"
      /\ firstVerdict \in HostKeyReasons =>
            result.ErrorPhase = "key_exchange" /\ result.ErrorReason = firstVerdict

BlameInv ==
    (Returning /\ handshakeErr = "closed" /\ firstVerdict \notin HostKeyReasons) =>
        result.ErrorReason = classifyContextError(ctxErr) /\ ctxErr # "none"

ReportInv == PhaseOrderInv /\ ExplainedInv /\ VerdictReportedInv /\ BlameInv

IInv == TypeOK /\ ClockInv /\ ConnInv /\ VerdictInv /\ OutcomeInv /\ DurationInv /\ ReportInv
          /\ DurationsFit

-----------------------------------------------------------------------------
(***************************************************************************)
(* What the classification of errors returns.                              *)
(***************************************************************************)
\* Every error is classified: the reason is one of the constants, never empty
\* (probe.go:463-539).
LEMMA ClassifiedReason ==
    ASSUME NEW ctx \in {"none", "deadline", "canceled"}
    PROVE  /\ \A err \in DialErrors : classifyDialError(ctx, err) \in Reasons
           /\ \A err \in HandshakeErrors : classifyKexError(ctx, err) \in Reasons
           /\ "none" \notin Reasons
           /\ HostKeyReasons \subseteq Reasons
<1>1. classifyContextError(ctx) \in {"none", "timeout", "canceled"}
  BY DEF classifyContextError
<1>2. \A err \in DialErrors : classifyDialError(ctx, err) \in Reasons
  BY <1>1 DEF classifyDialError, Reasons
<1>3. \A what \in NegotiationLists : classifyNegotiationError(what) \in Reasons
  BY DEF classifyNegotiationError, Reasons, NegotiationReasons
<1>4. \A err \in HandshakeErrors : classifyKexError(ctx, err) \in Reasons
  BY <1>1, <1>3 DEF classifyKexError, KexErrorAlone, Reasons
<1>5. "none" \notin Reasons /\ HostKeyReasons \subseteq Reasons
  BY DEF Reasons, HostKeyReasons, NegotiationReasons
<1> QED
  BY <1>2, <1>4, <1>5

\* A context that has ended explains any error (probe.go:461-472, 502-504).
LEMMA ContextOutranks ==
    ASSUME NEW ctx \in {"deadline", "canceled"}, NEW err
    PROVE  classifyKexError(ctx, err) = classifyContextError(ctx)
  BY DEF classifyKexError, KexErrorAlone, classifyContextError

\* The zero value of Result is a Result.
LEMMA ZeroResultType == ZeroResult \in Result
  BY DEF ZeroResult, Result, MSSValues

\* The durations of a result are numbers.
LEMMA DurationTypes ==
    ASSUME NEW r \in Result
    PROVE  /\ r.DNSLookupDuration \in Nat /\ r.TCPConnectDuration \in Nat
           /\ r.VersionExchangeDuration \in Nat /\ r.KeyExchangeDuration \in Nat
           /\ r.Duration \in Nat
  BY DEF Result

(***************************************************************************)
(* What each part of Run that fills in the result does to it.              *)
(***************************************************************************)
\* probe.go:268-277: the DNS fields follow from the first connect attempt.
LEMMA DNSLookupRecorded ==
    ASSUME TypeOK, ClockInv, pc = "dialed"
    PROVE  LET r == WithDNSLookup(result) IN
           /\ r \in Result
           /\ r.DNSLookup = (target = "hostname")
           /\ r.DNSLookupSuccess = DNSLookupSucceeded
           /\ r.DNSLookupDuration = IF DNSLookupSucceeded THEN connectStart - dialStart ELSE 0
           /\ \A f \in DOMAIN ZeroResult \
                  {"DNSLookup", "DNSLookupSuccess", "DNSLookupDuration"} : r[f] = result[f]
<1> DEFINE d == IF DNSLookupSucceeded THEN connectStart - dialStart ELSE 0
<1>1. d \in Nat
  BY DEF DNSLookupSucceeded, TypeOK, ClockInv, Times, NoTime
<1>2. DNSLookupSucceeded \in BOOLEAN /\ (target = "hostname") \in BOOLEAN
  BY DEF DNSLookupSucceeded
<1>3. result \in Result
  BY DEF TypeOK
<1>4. WithDNSLookup(result) = [result EXCEPT !.DNSLookup = (target = "hostname"),
                                             !.DNSLookupSuccess = DNSLookupSucceeded,
                                             !.DNSLookupDuration = d]
  BY DEF WithDNSLookup
<1> HIDE DEF d
<1>5. WithDNSLookup(result) \in Result
  <2> DEFINE b == target = "hostname"
             r == [result EXCEPT !.DNSLookup = b]
             s == [r EXCEPT !.DNSLookupSuccess = DNSLookupSucceeded]
  <2>1. WithDNSLookup(result) = [s EXCEPT !.DNSLookupDuration = d]
    BY <1>4
  <2> HIDE DEF b
  <2>2. r \in Result
    BY <1>2, <1>3 DEF Result, b
  <2> HIDE DEF r
  <2>3. s \in Result
    BY <1>2, <2>2 DEF Result
  <2> HIDE DEF s
  <2> QED  BY <1>1, <2>1, <2>3 DEF Result
<1>6. /\ WithDNSLookup(result).DNSLookup = (target = "hostname")
      /\ WithDNSLookup(result).DNSLookupSuccess = DNSLookupSucceeded
      /\ WithDNSLookup(result).DNSLookupDuration = d
  BY <1>3, <1>4 DEF Result
<1>7. \A f \in DOMAIN ZeroResult \ {"DNSLookup", "DNSLookupSuccess", "DNSLookupDuration"} :
         WithDNSLookup(result)[f] = result[f]
  BY <1>3, <1>4 DEF Result, ZeroResult
<1> QED
  BY <1>5, <1>6, <1>7 DEF d

\* Charging a failure to a phase changes only the phase and the reason.
LEMMA FailureRecorded ==
    ASSUME NEW r \in Result, NEW p \in Phases, NEW e \in Reasons
    PROVE  LET s == [r EXCEPT !.ErrorPhase = p, !.ErrorReason = e] IN
           /\ s \in Result
           /\ s.ErrorPhase = p /\ s.ErrorReason = e
           /\ \A f \in DOMAIN ZeroResult \ {"ErrorPhase", "ErrorReason"} : s[f] = r[f]
  BY DEF Result, ZeroResult

\* probe.go:349-362: the version exchange succeeded if the identification was read.
LEMMA VersionExchangeRecorded ==
    ASSUME TypeOK, ClockInv, pc = "over"
    PROVE  LET r == WithVersionExchange(result) IN
           /\ r \in Result
           /\ received # NoTime => r.VersionExchangeSuccess
           /\ \A f \in DOMAIN ZeroResult \ {"VersionExchangeSuccess",
                     "VersionExchangeDuration", "ServerIdentification"} : r[f] = result[f]
<1>1. result \in Result
  BY DEF TypeOK
<1>2. CASE received = NoTime
  BY <1>1, <1>2 DEF WithVersionExchange
<1>3. CASE received # NoTime
  <2> DEFINE d == received - versionExchangeStart
             i == IF StripServerIdentificationComments
                  THEN withoutComments(parseServerIdentification(identification))
                  ELSE parseServerIdentification(identification)
  <2>1. d \in Nat
    BY <1>3 DEF TypeOK, ClockInv, Times, NoTime
  <2>2. i \in (AllIdentifications \ {"unparsable"}) \cup {"none"}
    BY <1>3 DEF ClockInv, AllIdentifications, withoutComments, parseServerIdentification
  <2>3. WithVersionExchange(result) = [result EXCEPT !.VersionExchangeSuccess = TRUE,
                                                     !.VersionExchangeDuration = d,
                                                     !.ServerIdentification = i]
    BY <1>3 DEF WithVersionExchange
  <2> HIDE DEF d, i
  <2>4. WithVersionExchange(result) \in Result
    <3> DEFINE r == [result EXCEPT !.VersionExchangeSuccess = TRUE]
               s == [r EXCEPT !.VersionExchangeDuration = d]
    <3>1. WithVersionExchange(result) = [s EXCEPT !.ServerIdentification = i]
      BY <2>3
    <3>2. r \in Result
      BY <1>1 DEF Result
    <3> HIDE DEF r
    <3>3. s \in Result
      BY <2>1, <3>2 DEF Result
    <3> HIDE DEF s
    <3> QED  BY <2>2, <3>1, <3>3 DEF Result
  <2>5. /\ WithVersionExchange(result).VersionExchangeSuccess
        /\ \A f \in DOMAIN ZeroResult \ {"VersionExchangeSuccess",
               "VersionExchangeDuration", "ServerIdentification"} :
             WithVersionExchange(result)[f] = result[f]
    BY <1>1, <2>3 DEF Result, ZeroResult
  <2> QED
    BY <2>4, <2>5
<1> QED
  BY <1>2, <1>3

\* probe.go:383-392: a verdict decides the verification; a failed one also decides
\* the phase and the reason, and nothing else of the result changes.
LEMMA HostKeyRecorded ==
    ASSUME TypeOK
    PROVE  LET r == WithHostKey(result) IN
           /\ r \in Result
           /\ r.ServerHostKeyVerifySuccess =
                IF hostKeyResultCh = "empty" THEN result.ServerHostKeyVerifySuccess
                                             ELSE hostKeyResultCh = "verified"
           /\ hostKeyResultCh \in {"empty", "verified"} =>
                r.ErrorPhase = result.ErrorPhase /\ r.ErrorReason = result.ErrorReason
           /\ hostKeyResultCh \in HostKeyReasons =>
                r.ErrorPhase = "key_exchange" /\ r.ErrorReason = hostKeyResultCh
           /\ \A f \in DOMAIN ZeroResult \
                  {"ServerHostKeyVerifySuccess", "ErrorPhase", "ErrorReason"} :
                r[f] = result[f]
<1>1. result \in Result /\ hostKeyResultCh \in {"empty", "verified"} \cup HostKeyReasons
  BY DEF TypeOK, Verdict
<1>2. "empty" \notin HostKeyReasons /\ "verified" \notin HostKeyReasons
  BY DEF HostKeyReasons
<1>3. CASE hostKeyResultCh = "empty"
  BY <1>1, <1>2, <1>3 DEF WithHostKey
<1>4. CASE hostKeyResultCh = "verified"
  BY <1>1, <1>2, <1>4 DEF WithHostKey, Result, ZeroResult
<1>5. CASE hostKeyResultCh \in HostKeyReasons
  <2>1. hostKeyResultCh \in Reasons /\ "key_exchange" \in Phases
    BY <1>5 DEF Reasons, Phases
  <2>2. WithHostKey(result) = [result EXCEPT !.ServerHostKeyVerifySuccess = FALSE,
                                             !.ErrorPhase = "key_exchange",
                                             !.ErrorReason = hostKeyResultCh]
    BY <1>2, <1>5 DEF WithHostKey
  <2>3. WithHostKey(result) \in Result
    <3> DEFINE r == [result EXCEPT !.ServerHostKeyVerifySuccess = FALSE]
    <3>1. WithHostKey(result) =
            [r EXCEPT !.ErrorPhase = "key_exchange", !.ErrorReason = hostKeyResultCh]
      BY <2>2
    <3>2. r \in Result
      BY <1>1 DEF Result
    <3> HIDE DEF r
    <3> QED  BY <2>1, <3>1, <3>2 DEF Result
  <2>4. /\ WithHostKey(result).ServerHostKeyVerifySuccess = FALSE
        /\ WithHostKey(result).ErrorPhase = "key_exchange"
        /\ WithHostKey(result).ErrorReason = hostKeyResultCh
        /\ \A f \in DOMAIN ZeroResult \
               {"ServerHostKeyVerifySuccess", "ErrorPhase", "ErrorReason"} :
             WithHostKey(result)[f] = result[f]
    BY <1>1, <2>2 DEF Result, ZeroResult
  <2> QED
    BY <1>2, <1>5, <2>3, <2>4
<1> QED
  BY <1>1, <1>3, <1>4, <1>5

-----------------------------------------------------------------------------
\* The invariant holds before Run has done anything (probe.go:238-256).
LEMMA InitInv == Init => IInv
<1> SUFFICES ASSUME Init PROVE IInv
  OBVIOUS
<1>1. TypeOK
  BY ZeroResultType DEF Init, TypeOK, Times, NoTime
<1>2. ClockInv /\ ConnInv /\ VerdictInv
  BY DEF Init, ClockInv, ConnInv, VerdictInv, NoTime, BeforeRecord, InNewClientConn
<1>3. OutcomeInv
  BY DEF Init, OutcomeInv, BeforeRecord, InNewClientConn, ZeroResult
<1>4. DurationInv /\ ReportInv /\ DurationsFit
  BY DEF Init, DurationInv, ReportInv, PhaseOrderInv, ExplainedInv, VerdictReportedInv,
         BlameInv, DurationsFit, Returning, BeforeRecord, ZeroResult, NoTime
<1> QED
  BY <1>1, <1>2, <1>3, <1>4 DEF IInv

\* Every step of Run, of its callbacks and of the world around it keeps the invariant.
LEMMA NextInv == IInv /\ [Next]_vars => IInv'
<1> SUFFICES ASSUME IInv, [Next]_vars PROVE IInv'
  OBVIOUS
<1> USE DEF clockVars, dialVars, connVars, keyVars
<1>1. CASE Tick
  <2>1. TypeOK'
    BY <1>1 DEF IInv, Tick, TypeOK, Times, NoTime, InNewClientConn
  <2>2. ClockInv'
    BY <1>1 DEF IInv, Tick, ClockInv, TypeOK, Times, NoTime, BeforeRecord, InNewClientConn
  <2>3. ConnInv' /\ VerdictInv'
    BY <1>1 DEF IInv, Tick, ConnInv, TypeOK, BeforeRecord, InNewClientConn, VerdictInv
  <2>4. OutcomeInv'
    BY <1>1 DEF IInv, Tick, OutcomeInv, TypeOK, PhasesOpen, Connected,
           HandshakeRecorded, BeforeRecord, InNewClientConn
  <2>5. DurationInv'
    BY <1>1, DurationTypes DEF IInv, Tick, DurationInv, ClockInv, TypeOK, Times,
           NoTime, BeforeRecord
  <2>6. ReportInv' /\ DurationsFit'
    BY <1>1 DEF IInv, Tick, ReportInv, PhaseOrderInv, ExplainedInv, VerdictReportedInv,
           BlameInv, Returning, TypeOK, DurationsFit
  <2> QED
    BY <2>1, <2>2, <2>3, <2>4, <2>5, <2>6 DEF IInv
<1>2. CASE Deadline
  <2>1. TypeOK'
    BY <1>2 DEF IInv, Deadline, ContextEnds, TypeOK, Times, NoTime, InNewClientConn
  <2>2. ClockInv'
    BY <1>2 DEF IInv, Deadline, ContextEnds, ClockInv, TypeOK, Times, NoTime,
           BeforeRecord, InNewClientConn
  <2>3. ConnInv' /\ VerdictInv'
    BY <1>2 DEF IInv, Deadline, ContextEnds, ConnInv, TypeOK, BeforeRecord,
           InNewClientConn, VerdictInv
  <2>4. OutcomeInv'
    BY <1>2 DEF IInv, Deadline, ContextEnds, OutcomeInv, ConnInv, TypeOK, PhasesOpen,
           Connected, HandshakeRecorded, BeforeRecord, InNewClientConn
  <2>5. DurationInv'
    BY <1>2, DurationTypes DEF IInv, Deadline, ContextEnds, DurationInv, ClockInv,
           TypeOK, Times, NoTime, BeforeRecord
  <2>6. ReportInv' /\ DurationsFit'
    BY <1>2 DEF IInv, Deadline, ContextEnds, ReportInv, PhaseOrderInv, ExplainedInv,
           VerdictReportedInv, BlameInv, Returning, TypeOK, DurationsFit
  <2> QED
    BY <2>1, <2>2, <2>3, <2>4, <2>5, <2>6 DEF IInv
<1>3. CASE Cancel
  <2>1. TypeOK'
    BY <1>3 DEF IInv, Cancel, ContextEnds, TypeOK, Times, NoTime, InNewClientConn
  <2>2. ClockInv'
    BY <1>3 DEF IInv, Cancel, ContextEnds, ClockInv, TypeOK, Times, NoTime,
           BeforeRecord, InNewClientConn
  <2>3. ConnInv' /\ VerdictInv'
    BY <1>3 DEF IInv, Cancel, ContextEnds, ConnInv, TypeOK, BeforeRecord, InNewClientConn,
           VerdictInv
  <2>4. OutcomeInv'
    BY <1>3 DEF IInv, Cancel, ContextEnds, OutcomeInv, ConnInv, TypeOK, PhasesOpen,
           Connected, HandshakeRecorded, BeforeRecord, InNewClientConn
  <2>5. DurationInv'
    BY <1>3, DurationTypes DEF IInv, Cancel, ContextEnds, DurationInv, ClockInv,
           TypeOK, Times, NoTime, BeforeRecord
  <2>6. ReportInv' /\ DurationsFit'
    BY <1>3 DEF IInv, Cancel, ContextEnds, ReportInv, PhaseOrderInv, ExplainedInv,
           VerdictReportedInv, BlameInv, Returning, TypeOK, DurationsFit
  <2> QED
    BY <2>1, <2>2, <2>3, <2>4, <2>5, <2>6 DEF IInv
<1>4. CASE AfterFuncStarts
  <2>1. TypeOK'
    BY <1>4 DEF IInv, AfterFuncStarts, TypeOK, Times, NoTime, InNewClientConn
  <2>2. ClockInv'
    BY <1>4 DEF IInv, AfterFuncStarts, ClockInv, TypeOK, Times, NoTime, BeforeRecord,
           InNewClientConn
  <2>3. ConnInv' /\ VerdictInv'
    BY <1>4 DEF IInv, AfterFuncStarts, ConnInv, TypeOK, BeforeRecord, InNewClientConn,
           VerdictInv
  <2>4. OutcomeInv'
    BY <1>4 DEF IInv, AfterFuncStarts, OutcomeInv, TypeOK, PhasesOpen, Connected,
           HandshakeRecorded, BeforeRecord, InNewClientConn
  <2>5. DurationInv'
    BY <1>4, DurationTypes DEF IInv, AfterFuncStarts, DurationInv, ClockInv, TypeOK,
           Times, NoTime, BeforeRecord
  <2>6. ReportInv' /\ DurationsFit'
    BY <1>4 DEF IInv, AfterFuncStarts, ReportInv, PhaseOrderInv, ExplainedInv,
           VerdictReportedInv, BlameInv, Returning, TypeOK, DurationsFit
  <2> QED
    BY <2>1, <2>2, <2>3, <2>4, <2>5, <2>6 DEF IInv
<1>5. CASE AfterFuncCloses
  <2>1. TypeOK'
    BY <1>5 DEF IInv, AfterFuncCloses, TypeOK, Times, NoTime, InNewClientConn
  <2>2. ClockInv'
    BY <1>5 DEF IInv, AfterFuncCloses, ClockInv, TypeOK, Times, NoTime, BeforeRecord,
           InNewClientConn
  <2>3. ConnInv' /\ VerdictInv'
    BY <1>5 DEF IInv, AfterFuncCloses, ConnInv, TypeOK, BeforeRecord, InNewClientConn,
           VerdictInv
  <2>4. OutcomeInv'
    BY <1>5 DEF IInv, AfterFuncCloses, OutcomeInv, TypeOK, PhasesOpen, Connected,
           HandshakeRecorded, BeforeRecord, InNewClientConn
  <2>5. DurationInv'
    BY <1>5, DurationTypes DEF IInv, AfterFuncCloses, DurationInv, ClockInv, TypeOK,
           Times, NoTime, BeforeRecord
  <2>6. ReportInv' /\ DurationsFit'
    BY <1>5 DEF IInv, AfterFuncCloses, ReportInv, PhaseOrderInv, ExplainedInv,
           VerdictReportedInv, BlameInv, Returning, TypeOK, DurationsFit
  <2> QED
    BY <2>1, <2>2, <2>3, <2>4, <2>5, <2>6 DEF IInv
<1>6. CASE StartDial
  <2>1. TypeOK'
    BY <1>6 DEF IInv, StartDial, TypeOK, Times, NoTime, InNewClientConn
  <2>2. ClockInv'
    BY <1>6 DEF IInv, StartDial, ClockInv, TypeOK, Times, NoTime, BeforeRecord,
           InNewClientConn
  <2>3. ConnInv' /\ VerdictInv'
    BY <1>6 DEF IInv, StartDial, ConnInv, TypeOK, BeforeRecord, InNewClientConn, VerdictInv
  <2>4. OutcomeInv'
    BY <1>6 DEF IInv, StartDial, OutcomeInv, TypeOK, PhasesOpen, Connected,
           HandshakeRecorded, BeforeRecord, InNewClientConn
  <2>5. DurationInv'
    BY <1>6, DurationTypes DEF IInv, StartDial, DurationInv, ClockInv, TypeOK, Times,
           NoTime, BeforeRecord
  <2>6. ReportInv' /\ DurationsFit'
    BY <1>6 DEF IInv, StartDial, ReportInv, PhaseOrderInv, ExplainedInv,
           VerdictReportedInv, BlameInv, Returning, TypeOK, DurationsFit
  <2> QED
    BY <2>1, <2>2, <2>3, <2>4, <2>5, <2>6 DEF IInv
<1>7. CASE LookupSucceeds
  <2>1. TypeOK'
    BY <1>7 DEF IInv, LookupSucceeds, TypeOK, Times, NoTime, InNewClientConn
  <2>2. ClockInv'
    BY <1>7 DEF IInv, LookupSucceeds, ClockInv, TypeOK, Times, NoTime, BeforeRecord,
           InNewClientConn
  <2>3. ConnInv' /\ VerdictInv'
    BY <1>7 DEF IInv, LookupSucceeds, ConnInv, TypeOK, BeforeRecord, InNewClientConn,
           VerdictInv
  <2>4. OutcomeInv'
    BY <1>7 DEF IInv, LookupSucceeds, OutcomeInv, TypeOK, PhasesOpen, Connected,
           HandshakeRecorded, BeforeRecord, InNewClientConn
  <2>5. DurationInv'
    BY <1>7, DurationTypes DEF IInv, LookupSucceeds, DurationInv, ClockInv, TypeOK,
           Times, NoTime, BeforeRecord
  <2>6. ReportInv' /\ DurationsFit'
    BY <1>7 DEF IInv, LookupSucceeds, ReportInv, PhaseOrderInv, ExplainedInv,
           VerdictReportedInv, BlameInv, Returning, TypeOK, DurationsFit
  <2> QED
    BY <2>1, <2>2, <2>3, <2>4, <2>5, <2>6 DEF IInv
<1>8. CASE ControlContext
  <2>1. TypeOK'
    BY <1>8 DEF IInv, ControlContext, CompareAndSwap, TypeOK, Times, NoTime, InNewClientConn
  <2>2. ClockInv'
    BY <1>8 DEF IInv, ControlContext, CompareAndSwap, ClockInv, TypeOK, Times, NoTime, BeforeRecord,
           InNewClientConn
  <2>3. ConnInv' /\ VerdictInv'
    BY <1>8 DEF IInv, ControlContext, CompareAndSwap, ConnInv, TypeOK, BeforeRecord, InNewClientConn,
           VerdictInv
  <2>4. OutcomeInv'
    BY <1>8 DEF IInv, ControlContext, CompareAndSwap, OutcomeInv, TypeOK, PhasesOpen, Connected,
           HandshakeRecorded, BeforeRecord, InNewClientConn
  <2>5. DurationInv'
    BY <1>8, DurationTypes DEF IInv, ControlContext, CompareAndSwap, DurationInv, ClockInv, TypeOK,
           Times, NoTime, BeforeRecord
  <2>6. ReportInv' /\ DurationsFit'
    BY <1>8 DEF IInv, ControlContext, CompareAndSwap, ReportInv, PhaseOrderInv, ExplainedInv,
           VerdictReportedInv, BlameInv, Returning, TypeOK, DurationsFit
  <2> QED
    BY <2>1, <2>2, <2>3, <2>4, <2>5, <2>6 DEF IInv
<1>9. CASE DialSucceeds
  <2>1. TypeOK'
    BY <1>9 DEF IInv, DialSucceeds, TypeOK, Times, NoTime, InNewClientConn
  <2>2. ClockInv'
    BY <1>9 DEF IInv, DialSucceeds, ClockInv, TypeOK, Times, NoTime, BeforeRecord,
           InNewClientConn
  <2>3. ConnInv' /\ VerdictInv'
    BY <1>9 DEF IInv, DialSucceeds, ConnInv, TypeOK, BeforeRecord, InNewClientConn, VerdictInv
  <2>4. OutcomeInv'
    BY <1>9 DEF IInv, DialSucceeds, OutcomeInv, TypeOK, PhasesOpen, Connected,
           HandshakeRecorded, BeforeRecord, InNewClientConn
  <2>5. DurationInv'
    BY <1>9, DurationTypes DEF IInv, DialSucceeds, DurationInv, ClockInv, TypeOK,
           Times, NoTime, BeforeRecord
  <2>6. ReportInv' /\ DurationsFit'
    BY <1>9 DEF IInv, DialSucceeds, ReportInv, PhaseOrderInv, ExplainedInv,
           VerdictReportedInv, BlameInv, Returning, TypeOK, DurationsFit
  <2> QED
    BY <2>1, <2>2, <2>3, <2>4, <2>5, <2>6 DEF IInv
<1>10. ASSUME NEW err \in DialErrors, DialFails(err) PROVE IInv'
  <2>1. TypeOK'
    BY <1>10 DEF IInv, DialFails, TypeOK, Times, NoTime, InNewClientConn
  <2>2. ClockInv'
    BY <1>10 DEF IInv, DialFails, ClockInv, TypeOK, Times, NoTime, BeforeRecord,
           InNewClientConn, DialErrors, AttemptErrors
  <2>3. ConnInv'
    BY <1>10 DEF IInv, DialFails, ConnInv, TypeOK, BeforeRecord, InNewClientConn,
           DialErrors, AttemptErrors
  <2>4. VerdictInv'
    BY <1>10 DEF IInv, DialFails, VerdictInv, TypeOK, BeforeRecord, InNewClientConn
  <2>5. OutcomeInv'
    BY <1>10 DEF IInv, DialFails, OutcomeInv, TypeOK, PhasesOpen, Connected,
           HandshakeRecorded, BeforeRecord, InNewClientConn
  <2>6. DurationInv'
    BY <1>10, DurationTypes DEF IInv, DialFails, DurationInv, ClockInv, TypeOK, Times,
           NoTime, BeforeRecord
  <2>7. ReportInv' /\ DurationsFit'
    BY <1>10 DEF IInv, DialFails, ReportInv, PhaseOrderInv, ExplainedInv,
           VerdictReportedInv, BlameInv, Returning, TypeOK, DurationsFit
  <2> QED
    BY <2>1, <2>2, <2>3, <2>4, <2>5, <2>6, <2>7 DEF IInv
<1>11. CASE RecordDialError
  <2>1. TypeOK'
    <3>1. classifyDialError(ctxErr, dialErr) \in Reasons
      BY <1>11, ClassifiedReason DEF IInv, TypeOK, RecordDialError
    <3>2. WithDNSLookup(result) \in Result
      BY <1>11, DNSLookupRecorded DEF IInv, RecordDialError
    <3>3. (IF target = "hostname" /\ ~DNSLookupSucceeded
           THEN "dns_lookup" ELSE "tcp_connect") \in Phases
      BY DEF Phases
    <3>4. result' \in Result
      BY <1>11, <3>1, <3>2, <3>3, FailureRecorded DEF RecordDialError
    <3> QED
      BY <1>11, <3>4 DEF IInv, RecordDialError, TypeOK, InNewClientConn
  <2>2. ClockInv'
    BY <1>11 DEF IInv, RecordDialError, WithDNSLookup, DNSLookupSucceeded, ClockInv,
           TypeOK, Times, NoTime, BeforeRecord, InNewClientConn
  <2>3. ConnInv'
    BY <1>11 DEF IInv, RecordDialError, WithDNSLookup, DNSLookupSucceeded, ConnInv,
           TypeOK, BeforeRecord, InNewClientConn
  <2>4. VerdictInv'
    BY <1>11 DEF IInv, RecordDialError, WithDNSLookup, DNSLookupSucceeded, VerdictInv,
           TypeOK, BeforeRecord, InNewClientConn
  <2>5. OutcomeInv'
    BY <1>11 DEF IInv, RecordDialError, WithDNSLookup, DNSLookupSucceeded, OutcomeInv,
           TypeOK, PhasesOpen, Connected, HandshakeRecorded, BeforeRecord, InNewClientConn,
           Result
  <2>6. DurationInv'
    BY <1>11, DurationTypes DEF IInv, RecordDialError, WithDNSLookup,
           DNSLookupSucceeded, OutcomeInv, ZeroResult, DurationInv, ClockInv, TypeOK,
           Times, NoTime, BeforeRecord
  <2>7. ReportInv'
    <3> DEFINE r == WithDNSLookup(result)
               p == IF target = "hostname" /\ ~DNSLookupSucceeded
                    THEN "dns_lookup" ELSE "tcp_connect"
               e == classifyDialError(ctxErr, dialErr)
    <3>1. e \in Reasons /\ e # "none"
      BY <1>11, ClassifiedReason DEF IInv, TypeOK, RecordDialError
    <3>2. /\ r \in Result
          /\ r.DNSLookup = (target = "hostname")
          /\ r.DNSLookupSuccess = DNSLookupSucceeded
          /\ r.TCPConnectSuccess = FALSE /\ r.VersionExchangeSuccess = FALSE
          /\ r.KeyExchangeSuccess = FALSE /\ r.ServerHostKeyVerifySuccess = FALSE
          /\ r.Success = FALSE
      BY <1>11, DNSLookupRecorded DEF IInv, RecordDialError, OutcomeInv, BeforeRecord,
             ZeroResult
    <3>3. p \in Phases
      BY DEF Phases
    <3>4. result' = [r EXCEPT !.ErrorPhase = p, !.ErrorReason = e]
      BY <1>11 DEF RecordDialError
    <3> HIDE DEF r, p, e
    <3>5. /\ result'.ErrorPhase = p /\ result'.ErrorReason = e
          /\ \A f \in DOMAIN ZeroResult \ {"ErrorPhase", "ErrorReason"} :
               result'[f] = r[f]
      BY <3>2, <3>4 DEF Result, ZeroResult
    <3>6. /\ result'.ErrorPhase = p /\ result'.ErrorReason # "none"
          /\ result'.DNSLookup = (target = "hostname")
          /\ result'.DNSLookupSuccess = DNSLookupSucceeded
          /\ result'.TCPConnectSuccess = FALSE /\ result'.VersionExchangeSuccess = FALSE
          /\ result'.KeyExchangeSuccess = FALSE
          /\ result'.ServerHostKeyVerifySuccess = FALSE
          /\ result'.Success = FALSE
      BY <3>1, <3>2, <3>5 DEF ZeroResult
    <3>7. firstVerdict' = "none" /\ handshakeErr' = "none"
      BY <1>11 DEF IInv, RecordDialError, VerdictInv, OutcomeInv, BeforeRecord
    <3> QED
      BY <3>6, <3>7 DEF p, ReportInv, PhaseOrderInv, ExplainedInv, VerdictReportedInv,
             BlameInv, DNSLookupSucceeded, HostKeyReasons
  <2>8. DurationsFit'
    BY <1>11 DEF IInv, RecordDialError, WithDNSLookup, DNSLookupSucceeded,
           DurationsFit, TypeOK, Result
  <2> QED
    BY <2>1, <2>2, <2>3, <2>4, <2>5, <2>6, <2>7, <2>8 DEF IInv
<1>12. ASSUME NEW mss \in MSSValues, RecordConnected(mss) PROVE IInv'
  <2>1. TypeOK'
    <3> DEFINE r == WithDNSLookup(result)
               d == dialEnd - (IF connectStart # NoTime THEN connectStart ELSE dialStart)
    <3>1. r \in Result
      BY <1>12, DNSLookupRecorded DEF IInv, RecordConnected
    <3>2. d \in Nat
      BY <1>12 DEF IInv, RecordConnected, ClockInv, TypeOK, Times, NoTime
    <3>3. result' = [r EXCEPT !.TCPConnectSuccess = TRUE, !.TCPConnectDuration = d,
                              !.TCPMSS = mss]
      BY <1>12 DEF RecordConnected
    <3> HIDE DEF r, d
    <3>4. result' \in Result
      BY <1>12, <3>1, <3>2, <3>3 DEF Result
    <3> QED
      BY <1>12, <3>4 DEF IInv, RecordConnected, TypeOK, InNewClientConn
  <2>2. ClockInv'
    BY <1>12 DEF IInv, RecordConnected, WithDNSLookup, DNSLookupSucceeded, ClockInv,
           TypeOK, Times, NoTime, BeforeRecord, InNewClientConn
  <2>3. ConnInv'
    BY <1>12 DEF IInv, RecordConnected, WithDNSLookup, DNSLookupSucceeded, ConnInv,
           TypeOK, BeforeRecord, InNewClientConn
  <2>4. VerdictInv'
    BY <1>12 DEF IInv, RecordConnected, WithDNSLookup, DNSLookupSucceeded, VerdictInv,
           TypeOK, BeforeRecord, InNewClientConn
  <2>5. OutcomeInv'
    BY <1>12 DEF IInv, RecordConnected, WithDNSLookup, DNSLookupSucceeded, ZeroResult,
           ClockInv, ConnInv, OutcomeInv, TypeOK, PhasesOpen, Connected,
           HandshakeRecorded, BeforeRecord, InNewClientConn
  <2>6. DurationInv'
    BY <1>12, DurationTypes DEF IInv, RecordConnected, WithDNSLookup,
           DNSLookupSucceeded, OutcomeInv, ZeroResult, DurationInv, ClockInv, TypeOK,
           Times, NoTime, BeforeRecord
  <2>7. ReportInv'
    BY <1>12 DEF IInv, RecordConnected, WithDNSLookup, DNSLookupSucceeded, ReportInv,
           PhaseOrderInv, ExplainedInv, VerdictReportedInv, BlameInv, Returning,
           TypeOK, Result
  <2>8. DurationsFit'
    BY <1>12 DEF IInv, RecordConnected, WithDNSLookup, DNSLookupSucceeded,
           DurationsFit, TypeOK, Result
  <2> QED
    BY <2>1, <2>2, <2>3, <2>4, <2>5, <2>6, <2>7, <2>8 DEF IInv
<1>13. CASE StartHandshake
  <2>1. TypeOK'
    BY <1>13 DEF IInv, StartHandshake, forceClose, TypeOK, Times, NoTime, InNewClientConn
  <2>2. ClockInv'
    BY <1>13 DEF IInv, StartHandshake, forceClose, ClockInv, TypeOK, Times, NoTime, BeforeRecord,
           InNewClientConn
  <2>3. ConnInv' /\ VerdictInv'
    BY <1>13 DEF IInv, StartHandshake, forceClose, ConnInv, TypeOK, BeforeRecord, InNewClientConn,
           VerdictInv
  <2>4. OutcomeInv'
    BY <1>13 DEF IInv, StartHandshake, forceClose, OutcomeInv, TypeOK, PhasesOpen, Connected,
           HandshakeRecorded, BeforeRecord, InNewClientConn
  <2>5. DurationInv'
    BY <1>13, DurationTypes DEF IInv, StartHandshake, forceClose, DurationInv, ClockInv, TypeOK,
           Times, NoTime, BeforeRecord
  <2>6. ReportInv' /\ DurationsFit'
    BY <1>13 DEF IInv, StartHandshake, forceClose, ReportInv, PhaseOrderInv, ExplainedInv,
           VerdictReportedInv, BlameInv, Returning, TypeOK, DurationsFit
  <2> QED
    BY <2>1, <2>2, <2>3, <2>4, <2>5, <2>6 DEF IInv
<1>14. ASSUME NEW id \in Identifications, ReadIdentification(id) PROVE IInv'
  <2>1. TypeOK'
    BY <1>14, IdentificationsAssumption DEF IInv, ReadIdentification, TypeOK, Times,
           NoTime, InNewClientConn
  <2>2. ClockInv'
    BY <1>14, IdentificationsAssumption DEF IInv, ReadIdentification, ClockInv, TypeOK,
           Times, NoTime, BeforeRecord, InNewClientConn
  <2>3. ConnInv' /\ VerdictInv'
    BY <1>14 DEF IInv, ReadIdentification, ConnInv, TypeOK, BeforeRecord, InNewClientConn,
           VerdictInv
  <2>4. OutcomeInv'
    BY <1>14 DEF IInv, ReadIdentification, OutcomeInv, TypeOK, PhasesOpen, Connected,
           HandshakeRecorded, BeforeRecord, InNewClientConn
  <2>5. DurationInv'
    BY <1>14, DurationTypes DEF IInv, ReadIdentification, DurationInv, ClockInv,
           TypeOK, Times, NoTime, BeforeRecord
  <2>6. ReportInv' /\ DurationsFit'
    BY <1>14 DEF IInv, ReadIdentification, ReportInv, PhaseOrderInv, ExplainedInv,
           VerdictReportedInv, BlameInv, Returning, TypeOK, DurationsFit
  <2> QED
    BY <2>1, <2>2, <2>3, <2>4, <2>5, <2>6 DEF IInv
<1>15. CASE AgreeAlgorithms
  <2>1. TypeOK'
    BY <1>15 DEF IInv, AgreeAlgorithms, LibraryStep, TypeOK, Times, NoTime,
           InNewClientConn
  <2>2. ClockInv'
    BY <1>15 DEF IInv, AgreeAlgorithms, LibraryStep, ClockInv, TypeOK, Times, NoTime,
           BeforeRecord, InNewClientConn
  <2>3. ConnInv' /\ VerdictInv'
    BY <1>15 DEF IInv, AgreeAlgorithms, LibraryStep, ConnInv, TypeOK, BeforeRecord,
           InNewClientConn, VerdictInv
  <2>4. OutcomeInv'
    BY <1>15 DEF IInv, AgreeAlgorithms, LibraryStep, OutcomeInv, TypeOK, PhasesOpen,
           Connected, HandshakeRecorded, BeforeRecord, InNewClientConn
  <2>5. DurationInv'
    BY <1>15, DurationTypes DEF IInv, AgreeAlgorithms, LibraryStep, DurationInv,
           ClockInv, TypeOK, Times, NoTime, BeforeRecord
  <2>6. ReportInv' /\ DurationsFit'
    BY <1>15 DEF IInv, AgreeAlgorithms, LibraryStep, ReportInv, PhaseOrderInv,
           ExplainedInv, VerdictReportedInv, BlameInv, Returning, TypeOK, DurationsFit
  <2> QED
    BY <2>1, <2>2, <2>3, <2>4, <2>5, <2>6 DEF IInv
<1>16. CASE ReadKexReply
  <2>1. TypeOK'
    BY <1>16 DEF IInv, ReadKexReply, LibraryStep, TypeOK, Times, NoTime, InNewClientConn
  <2>2. ClockInv'
    BY <1>16 DEF IInv, ReadKexReply, LibraryStep, ClockInv, TypeOK, Times, NoTime,
           BeforeRecord, InNewClientConn
  <2>3. ConnInv' /\ VerdictInv'
    BY <1>16 DEF IInv, ReadKexReply, LibraryStep, ConnInv, TypeOK, BeforeRecord,
           InNewClientConn, VerdictInv
  <2>4. OutcomeInv'
    BY <1>16 DEF IInv, ReadKexReply, LibraryStep, OutcomeInv, TypeOK, PhasesOpen,
           Connected, HandshakeRecorded, BeforeRecord, InNewClientConn
  <2>5. DurationInv'
    BY <1>16, DurationTypes DEF IInv, ReadKexReply, LibraryStep, DurationInv, ClockInv,
           TypeOK, Times, NoTime, BeforeRecord
  <2>6. ReportInv' /\ DurationsFit'
    BY <1>16 DEF IInv, ReadKexReply, LibraryStep, ReportInv, PhaseOrderInv,
           ExplainedInv, VerdictReportedInv, BlameInv, Returning, TypeOK, DurationsFit
  <2> QED
    BY <2>1, <2>2, <2>3, <2>4, <2>5, <2>6 DEF IInv
<1>17. CASE ReadNewKeys
  <2>1. TypeOK'
    BY <1>17, MaxRekeysAssumption DEF IInv, ReadNewKeys, LibraryStep, TypeOK,
           InNewClientConn
  <2>2. ClockInv'
    BY <1>17 DEF IInv, ReadNewKeys, LibraryStep, ClockInv, TypeOK, Times, NoTime,
           BeforeRecord, InNewClientConn
  <2>3. ConnInv' /\ VerdictInv'
    BY <1>17 DEF IInv, ReadNewKeys, LibraryStep, ConnInv, TypeOK, BeforeRecord,
           InNewClientConn, VerdictInv
  <2>4. OutcomeInv'
    BY <1>17 DEF IInv, ReadNewKeys, LibraryStep, OutcomeInv, TypeOK, PhasesOpen,
           Connected, HandshakeRecorded, BeforeRecord, InNewClientConn
  <2>5. DurationInv'
    BY <1>17, DurationTypes DEF IInv, ReadNewKeys, LibraryStep, DurationInv, ClockInv,
           TypeOK, Times, NoTime, BeforeRecord
  <2>6. ReportInv' /\ DurationsFit'
    BY <1>17 DEF IInv, ReadNewKeys, LibraryStep, ReportInv, PhaseOrderInv,
           ExplainedInv, VerdictReportedInv, BlameInv, Returning, TypeOK, DurationsFit
  <2> QED
    BY <2>1, <2>2, <2>3, <2>4, <2>5, <2>6 DEF IInv
<1>18. ASSUME NEW what \in NegotiationLists, NegotiationFails(what) PROVE IInv'
  <2>1. TypeOK'
    BY <1>18 DEF IInv, NegotiationFails, HandshakeFails, TypeOK, HandshakeErrors,
           InNewClientConn
  <2>2. ClockInv'
    BY <1>18 DEF IInv, NegotiationFails, HandshakeFails, ClockInv, TypeOK, Times,
           NoTime, BeforeRecord, InNewClientConn
  <2>3. ConnInv'
    BY <1>18 DEF IInv, NegotiationFails, HandshakeFails, ConnInv, TypeOK, BeforeRecord,
           InNewClientConn, NegotiationLists, PeerErrors
  <2>4. VerdictInv'
    BY <1>18 DEF IInv, NegotiationFails, HandshakeFails, VerdictInv, TypeOK,
           BeforeRecord, InNewClientConn
  <2>5. OutcomeInv'
    BY <1>18 DEF IInv, NegotiationFails, HandshakeFails, OutcomeInv, TypeOK,
           PhasesOpen, Connected, HandshakeRecorded, BeforeRecord, InNewClientConn,
           NegotiationLists, PeerErrors
  <2>6. DurationInv'
    BY <1>18, DurationTypes DEF IInv, NegotiationFails, HandshakeFails, DurationInv,
           ClockInv, TypeOK, Times, NoTime, BeforeRecord
  <2>7. ReportInv' /\ DurationsFit'
    BY <1>18 DEF IInv, NegotiationFails, HandshakeFails, ReportInv, PhaseOrderInv,
           ExplainedInv, VerdictReportedInv, BlameInv, Returning, TypeOK, DurationsFit
  <2> QED
    BY <2>1, <2>2, <2>3, <2>4, <2>5, <2>6, <2>7 DEF IInv
<1>19. ASSUME NEW err \in PeerErrors, PeerFails(err) PROVE IInv'
  <2>1. TypeOK'
    BY <1>19 DEF IInv, PeerFails, HandshakeFails, TypeOK, HandshakeErrors, InNewClientConn
  <2>2. ClockInv'
    BY <1>19 DEF IInv, PeerFails, HandshakeFails, ClockInv, TypeOK, Times, NoTime,
           BeforeRecord, InNewClientConn
  <2>3. ConnInv'
    BY <1>19 DEF IInv, PeerFails, HandshakeFails, ConnInv, TypeOK, BeforeRecord,
           InNewClientConn, NegotiationLists, PeerErrors
  <2>4. VerdictInv'
    BY <1>19 DEF IInv, PeerFails, HandshakeFails, VerdictInv, TypeOK, BeforeRecord,
           InNewClientConn
  <2>5. OutcomeInv'
    BY <1>19 DEF IInv, PeerFails, HandshakeFails, OutcomeInv, TypeOK, PhasesOpen,
           Connected, HandshakeRecorded, BeforeRecord, InNewClientConn, NegotiationLists,
           PeerErrors
  <2>6. DurationInv'
    BY <1>19, DurationTypes DEF IInv, PeerFails, HandshakeFails, DurationInv, ClockInv,
           TypeOK, Times, NoTime, BeforeRecord
  <2>7. ReportInv' /\ DurationsFit'
    BY <1>19 DEF IInv, PeerFails, HandshakeFails, ReportInv, PhaseOrderInv,
           ExplainedInv, VerdictReportedInv, BlameInv, Returning, TypeOK, DurationsFit
  <2> QED
    BY <2>1, <2>2, <2>3, <2>4, <2>5, <2>6, <2>7 DEF IInv
<1>20. CASE UseOfClosedConn
  <2>1. TypeOK'
    BY <1>20 DEF IInv, UseOfClosedConn, HandshakeFails, TypeOK, HandshakeErrors,
           InNewClientConn
  <2>2. ClockInv'
    BY <1>20 DEF IInv, UseOfClosedConn, HandshakeFails, ClockInv, TypeOK, Times,
           NoTime, BeforeRecord, InNewClientConn
  <2>3. ConnInv' /\ VerdictInv'
    BY <1>20 DEF IInv, UseOfClosedConn, HandshakeFails, ConnInv, TypeOK, BeforeRecord,
           InNewClientConn, VerdictInv
  <2>4. OutcomeInv'
    BY <1>20 DEF IInv, UseOfClosedConn, HandshakeFails, OutcomeInv, TypeOK, PhasesOpen,
           Connected, HandshakeRecorded, BeforeRecord, InNewClientConn
  <2>5. DurationInv'
    BY <1>20, DurationTypes DEF IInv, UseOfClosedConn, HandshakeFails, DurationInv,
           ClockInv, TypeOK, Times, NoTime, BeforeRecord
  <2>6. ReportInv' /\ DurationsFit'
    BY <1>20 DEF IInv, UseOfClosedConn, HandshakeFails, ReportInv, PhaseOrderInv,
           ExplainedInv, VerdictReportedInv, BlameInv, Returning, TypeOK, DurationsFit
  <2> QED
    BY <2>1, <2>2, <2>3, <2>4, <2>5, <2>6 DEF IInv
<1>21. ASSUME NEW v \in {"verified"} \cup HostKeyErrors, VerifyFirstKey(v) PROVE IInv'
  <2>1. TypeOK'
    BY <1>21, HostKeyErrorsAssumption DEF IInv, VerifyFirstKey, HostKeyCallback, send,
           TypeOK, Verdict, InNewClientConn
  <2>2. ClockInv'
    BY <1>21 DEF IInv, VerifyFirstKey, HostKeyCallback, send, ClockInv, TypeOK, Times,
           NoTime, BeforeRecord, InNewClientConn
  <2>3. ConnInv'
    BY <1>21 DEF IInv, VerifyFirstKey, HostKeyCallback, send, ConnInv, TypeOK, BeforeRecord,
           InNewClientConn
  <2>4. VerdictInv'
    BY <1>21, HostKeyErrorsAssumption DEF IInv, VerifyFirstKey, HostKeyCallback, send,
           VerdictInv, ClockInv, TypeOK, Verdict, HostKeyReasons, BeforeRecord,
           InNewClientConn
  <2>5. OutcomeInv'
    BY <1>21 DEF IInv, VerifyFirstKey, HostKeyCallback, send, OutcomeInv, TypeOK, PhasesOpen,
           Connected, HandshakeRecorded, BeforeRecord, InNewClientConn
  <2>6. DurationInv'
    BY <1>21, DurationTypes DEF IInv, VerifyFirstKey, HostKeyCallback, send, DurationInv,
           ClockInv, TypeOK, Times, NoTime, BeforeRecord
  <2>7. ReportInv' /\ DurationsFit'
    BY <1>21 DEF IInv, VerifyFirstKey, HostKeyCallback, send, ReportInv, PhaseOrderInv,
           ExplainedInv, VerdictReportedInv, BlameInv, Returning, TypeOK, DurationsFit
  <2> QED
    BY <2>1, <2>2, <2>3, <2>4, <2>5, <2>6, <2>7 DEF IInv
<1>22. ASSUME NEW v \in {"verified"} \cup HostKeyErrors, VerifyRekey(v) PROVE IInv'
  <2>1. TypeOK'
    BY <1>22, HostKeyErrorsAssumption DEF IInv, VerifyRekey, HostKeyCallback, send, TypeOK,
           Verdict, InNewClientConn
  <2>2. ClockInv'
    BY <1>22 DEF IInv, VerifyRekey, HostKeyCallback, send, ClockInv, TypeOK, Times, NoTime,
           BeforeRecord, InNewClientConn
  <2>3. ConnInv'
    BY <1>22 DEF IInv, VerifyRekey, HostKeyCallback, send, ConnInv, TypeOK, BeforeRecord,
           InNewClientConn
  <2>4. VerdictInv'
    BY <1>22, HostKeyErrorsAssumption DEF IInv, VerifyRekey, HostKeyCallback, send,
           VerdictInv, ClockInv, TypeOK, Verdict, HostKeyReasons, BeforeRecord,
           InNewClientConn
  <2>5. OutcomeInv'
    BY <1>22 DEF IInv, VerifyRekey, HostKeyCallback, send, OutcomeInv, TypeOK, PhasesOpen,
           Connected, HandshakeRecorded, BeforeRecord, InNewClientConn
  <2>6. DurationInv'
    BY <1>22, DurationTypes DEF IInv, VerifyRekey, HostKeyCallback, send, DurationInv,
           ClockInv, TypeOK, Times, NoTime, BeforeRecord
  <2>7. ReportInv'
    BY <1>22 DEF IInv, VerifyRekey, HostKeyCallback, send, VerdictInv, ReportInv,
           PhaseOrderInv, ExplainedInv, VerdictReportedInv, BlameInv, Returning, TypeOK
  <2>8. DurationsFit'
    BY <1>22 DEF IInv, VerifyRekey, HostKeyCallback, send, DurationsFit, TypeOK
  <2> QED
    BY <2>1, <2>2, <2>3, <2>4, <2>5, <2>6, <2>7, <2>8 DEF IInv
<1>23. ASSUME NEW macs \in SUBSET Directions, TransportReadyCallback(macs) PROVE IInv'
  <2>1. TypeOK'
    <3>1. received # NoTime => now - received \in Nat
      BY DEF IInv, ClockInv, TypeOK, Times, NoTime
    <3>2. result' \in Result
      BY <1>23, <3>1 DEF IInv, TransportReadyCallback, keyExchangeDuration, errAbort, TypeOK, Result
    <3> QED
      BY <1>23, <3>2 DEF IInv, TransportReadyCallback, keyExchangeDuration, errAbort, TypeOK, HandshakeErrors
  <2>2. ClockInv'
    BY <1>23 DEF IInv, TransportReadyCallback, keyExchangeDuration, errAbort, ClockInv, TypeOK, Times, NoTime,
           BeforeRecord, InNewClientConn
  <2>3. ConnInv'
    BY <1>23 DEF IInv, TransportReadyCallback, keyExchangeDuration, errAbort, ConnInv, TypeOK, BeforeRecord, InNewClientConn
  <2>4. VerdictInv'
    BY <1>23 DEF IInv, TransportReadyCallback, keyExchangeDuration, errAbort, VerdictInv, TypeOK, BeforeRecord,
           InNewClientConn
  <2>5. OutcomeInv'
    BY <1>23 DEF IInv, TransportReadyCallback, keyExchangeDuration, errAbort, VerdictInv, ClockInv, Result,
           OutcomeInv, TypeOK, PhasesOpen, Connected, HandshakeRecorded, BeforeRecord,
           InNewClientConn
  <2>6. DurationInv'
    BY <1>23, DurationTypes DEF IInv, TransportReadyCallback, keyExchangeDuration, errAbort, DurationInv, ClockInv,
           TypeOK, Times, NoTime, BeforeRecord, Result
  <2>7. ReportInv'
    BY <1>23 DEF IInv, TransportReadyCallback, keyExchangeDuration, errAbort, ReportInv, PhaseOrderInv, ExplainedInv,
           VerdictReportedInv, BlameInv, Returning, TypeOK, Result
  <2>8. DurationsFit'
    BY <1>23 DEF IInv, TransportReadyCallback, keyExchangeDuration, errAbort, DurationsFit, TypeOK, Result
  <2> QED
    BY <2>1, <2>2, <2>3, <2>4, <2>5, <2>6, <2>7, <2>8 DEF IInv
<1>24. CASE RecordHandshake
  <2>1. TypeOK'
    <3> DEFINE r == WithVersionExchange(result)
               p == IF r.VersionExchangeSuccess THEN "key_exchange"
                                               ELSE "version_exchange"
               e == classifyKexError(ctxErr, handshakeErr)
    <3>1. r \in Result
      BY <1>24, VersionExchangeRecorded DEF IInv, RecordHandshake, failedPhase
    <3>2. handshakeErr # "none" /\ e \in Reasons
      BY <1>24, ClassifiedReason DEF IInv, TypeOK, OutcomeInv, RecordHandshake, failedPhase
    <3>3. p \in Phases
      BY DEF Phases
    <3>4. result' = IF handshakeErr = "errAbort"
                    THEN [r EXCEPT !.KeyExchangeSuccess = TRUE]
                    ELSE [r EXCEPT !.ErrorPhase = p, !.ErrorReason = e]
      BY <1>24, <3>2 DEF RecordHandshake, failedPhase
    <3> HIDE DEF r, p, e
    <3>5. [r EXCEPT !.KeyExchangeSuccess = TRUE] \in Result
      BY <3>1 DEF Result
    <3>6. result' \in Result
      BY <3>1, <3>2, <3>3, <3>4, <3>5, FailureRecorded
    <3> QED
      BY <1>24, <3>6 DEF IInv, RecordHandshake, failedPhase, TypeOK
  <2>2. ClockInv'
    BY <1>24 DEF IInv, RecordHandshake, failedPhase, WithVersionExchange, ClockInv, TypeOK, Times,
           NoTime, BeforeRecord, InNewClientConn
  <2>3. ConnInv'
    BY <1>24 DEF IInv, RecordHandshake, failedPhase, WithVersionExchange, ConnInv, TypeOK,
           BeforeRecord, InNewClientConn
  <2>4. VerdictInv'
    BY <1>24 DEF IInv, RecordHandshake, failedPhase, WithVersionExchange, VerdictInv, TypeOK,
           BeforeRecord, InNewClientConn
  <2>5. OutcomeInv'
    <3> DEFINE r == WithVersionExchange(result)
               p == IF r.VersionExchangeSuccess THEN "key_exchange"
                                               ELSE "version_exchange"
               e == classifyKexError(ctxErr, handshakeErr)
    <3>1. /\ r \in Result /\ Connected /\ PhasesOpen
          /\ r.TCPConnectSuccess = result.TCPConnectSuccess
          /\ r.DNSLookup = result.DNSLookup
          /\ r.DNSLookupSuccess = result.DNSLookupSuccess
          /\ r.KeyExchangeSuccess = FALSE /\ r.ServerHostKeyVerifySuccess = FALSE
          /\ r.Success = FALSE /\ r.Algorithms = result.Algorithms
          /\ r.ErrorPhase = "none" /\ r.ErrorReason = "none"
      BY <1>24, VersionExchangeRecorded DEF IInv, RecordHandshake, failedPhase, OutcomeInv,
             PhasesOpen, TypeOK, Result, ZeroResult
    <3>2. r.VersionExchangeSuccess = (received # NoTime)
      BY <1>24, <3>1, VersionExchangeRecorded DEF IInv, RecordHandshake, failedPhase,
             WithVersionExchange, PhasesOpen, Result, TypeOK
    <3>3. /\ handshakeErr # "none" /\ e \in Reasons /\ e # "none"
          /\ handshakeErr = "closed" => e = classifyContextError(ctxErr)
      BY <1>24, ClassifiedReason, ContextOutranks DEF IInv, TypeOK, OutcomeInv,
             ConnInv, RecordHandshake, failedPhase
    <3>4. p \in Phases /\ p = IF received = NoTime THEN "version_exchange"
                                                    ELSE "key_exchange"
      BY <3>2 DEF Phases
    <3>5. result' = IF handshakeErr = "errAbort"
                    THEN [r EXCEPT !.KeyExchangeSuccess = TRUE]
                    ELSE [r EXCEPT !.ErrorPhase = p, !.ErrorReason = e]
      BY <1>24, <3>3 DEF RecordHandshake, failedPhase
    <3>6. /\ pc' = "hostkey"
          /\ UNCHANGED <<ctxErr, target, received, handshakeErr, firstVerdict>>
          /\ handshakeErr = "errAbort" =>
               received # NoTime /\ result.Algorithms /\ firstVerdict # "none"
      BY <1>24 DEF IInv, RecordHandshake, failedPhase, OutcomeInv
    <3> HIDE DEF r, p, e
    <3>7. CASE handshakeErr = "errAbort"
      <4>1. /\ result'.KeyExchangeSuccess = TRUE
            /\ \A f \in DOMAIN ZeroResult \ {"KeyExchangeSuccess"} : result'[f] = r[f]
        BY <3>1, <3>5, <3>7 DEF Result, ZeroResult
      <4>2. Connected'
        BY <3>1, <3>6, <4>1 DEF Connected, ZeroResult
      <4>3. HandshakeRecorded'
        <5>1. /\ result'.VersionExchangeSuccess = (received' # NoTime)
              /\ result'.KeyExchangeSuccess = (handshakeErr' = "errAbort")
              /\ ~result'.ServerHostKeyVerifySuccess /\ ~result'.Success
          BY <3>1, <3>2, <3>6, <3>7, <4>1 DEF ZeroResult
        <5>2. result'.ErrorPhase = "none" /\ result'.ErrorReason = "none"
          BY <3>1, <4>1 DEF ZeroResult
        <5> QED
          BY <3>6, <3>7, <5>1, <5>2 DEF HandshakeRecorded
      <4>4. result'.Algorithms = result.Algorithms
        BY <3>1, <4>1 DEF ZeroResult
      <4> QED
        BY <3>6, <3>7, <4>2, <4>3, <4>4 DEF OutcomeInv, BeforeRecord, InNewClientConn
    <3>8. CASE handshakeErr # "errAbort"
      <4>1. /\ result'.ErrorPhase = p /\ result'.ErrorReason = e
            /\ \A f \in DOMAIN ZeroResult \ {"ErrorPhase", "ErrorReason"} :
                 result'[f] = r[f]
        BY <3>1, <3>5, <3>8 DEF Result, ZeroResult
      <4>2. Connected'
        BY <3>1, <3>6, <4>1 DEF Connected, ZeroResult
      <4>3. HandshakeRecorded'
        <5>1. /\ result'.VersionExchangeSuccess = (received' # NoTime)
              /\ result'.KeyExchangeSuccess = (handshakeErr' = "errAbort")
              /\ ~result'.ServerHostKeyVerifySuccess /\ ~result'.Success
          BY <3>1, <3>2, <3>6, <3>8, <4>1 DEF ZeroResult
        <5>2. /\ result'.ErrorPhase = IF received' = NoTime THEN "version_exchange"
                                                            ELSE "key_exchange"
              /\ result'.ErrorReason # "none"
              /\ handshakeErr' = "closed" =>
                   result'.ErrorReason = classifyContextError(ctxErr')
          BY <3>3, <3>4, <3>6, <4>1
        <5> QED
          BY <3>6, <3>8, <5>1, <5>2 DEF HandshakeRecorded
      <4> QED
        BY <3>3, <3>6, <3>8, <4>2, <4>3 DEF OutcomeInv, BeforeRecord, InNewClientConn
    <3> QED
      BY <3>7, <3>8
  <2>6. DurationInv'
    BY <1>24, DurationTypes DEF IInv, RecordHandshake, failedPhase, WithVersionExchange,
           DurationInv, ClockInv, TypeOK, Times, NoTime, BeforeRecord, Result
  <2>7. ReportInv'
    BY <1>24 DEF IInv, RecordHandshake, failedPhase, WithVersionExchange, ReportInv, PhaseOrderInv,
           ExplainedInv, VerdictReportedInv, BlameInv, Returning, TypeOK, Result
  <2>8. DurationsFit'
    BY <1>24 DEF IInv, RecordHandshake, failedPhase, WithVersionExchange, DurationsFit, TypeOK, Result
  <2> QED
    BY <2>1, <2>2, <2>3, <2>4, <2>5, <2>6, <2>7, <2>8 DEF IInv
<1>25. CASE RecordHostKey
  <2>1. TypeOK'
    <3>1. WithHostKey(result) \in Result
      BY HostKeyRecorded DEF IInv
    <3>2. result' \in Result
      <4> DEFINE r == WithHostKey(result)
                 s == /\ r.ErrorPhase = "none" /\ r.KeyExchangeSuccess
                      /\ r.ServerHostKeyVerifySuccess
      <4>1. result' = [r EXCEPT !.Success = s]
        BY <1>25 DEF RecordHostKey
      <4>2. s \in BOOLEAN
        OBVIOUS
      <4> HIDE DEF r, s
      <4>3. r \in Result
        BY <3>1 DEF r
      <4> QED  BY <4>1, <4>2, <4>3 DEF Result
    <3> QED
      BY <1>25, <3>2 DEF IInv, RecordHostKey, TypeOK
  <2>2. ClockInv'
    BY <1>25 DEF IInv, RecordHostKey, WithHostKey, ClockInv, TypeOK, Times, NoTime,
           BeforeRecord, InNewClientConn
  <2>3. ConnInv'
    BY <1>25 DEF IInv, RecordHostKey, WithHostKey, ConnInv, TypeOK, BeforeRecord,
           InNewClientConn
  <2>4. VerdictInv'
    BY <1>25 DEF IInv, RecordHostKey, WithHostKey, VerdictInv, TypeOK, BeforeRecord,
           InNewClientConn
  <2>5. OutcomeInv'
    BY <1>25 DEF IInv, RecordHostKey, WithHostKey, OutcomeInv, TypeOK, PhasesOpen,
           Connected, HandshakeRecorded, BeforeRecord, InNewClientConn, Result
  <2>6. DurationInv'
    BY <1>25, DurationTypes DEF IInv, RecordHostKey, WithHostKey, DurationInv,
           ClockInv, TypeOK, Times, NoTime, BeforeRecord, Result
  <2>7. ReportInv'
    <3> DEFINE r == WithHostKey(result)
               s == /\ r.ErrorPhase = "none" /\ r.KeyExchangeSuccess
                    /\ r.ServerHostKeyVerifySuccess
    <3>1. /\ r \in Result /\ Connected /\ HandshakeRecorded
          /\ r.TCPConnectSuccess = result.TCPConnectSuccess
          /\ r.DNSLookup = result.DNSLookup
          /\ r.DNSLookupSuccess = result.DNSLookupSuccess
          /\ r.VersionExchangeSuccess = result.VersionExchangeSuccess
          /\ r.KeyExchangeSuccess = result.KeyExchangeSuccess
          /\ r.Algorithms = result.Algorithms
      BY <1>25, HostKeyRecorded DEF IInv, RecordHostKey, OutcomeInv, ZeroResult
    <3>2. /\ r.ServerHostKeyVerifySuccess = (firstVerdict = "verified")
          /\ firstVerdict \in {"none", "verified"} =>
               r.ErrorPhase = result.ErrorPhase /\ r.ErrorReason = result.ErrorReason
          /\ firstVerdict \in HostKeyReasons =>
               r.ErrorPhase = "key_exchange" /\ r.ErrorReason = firstVerdict
      <4>1. /\ hostKeyResultCh = IF firstVerdict = "none" THEN "empty" ELSE firstVerdict
            /\ firstVerdict \in {"none", "verified"} \cup HostKeyReasons
            /\ result.ServerHostKeyVerifySuccess = FALSE
        BY <1>25, <3>1 DEF IInv, RecordHostKey, VerdictInv, TypeOK, Verdict,
               HandshakeRecorded, Result
      <4>2. "none" \notin HostKeyReasons /\ "verified" \notin HostKeyReasons
        BY DEF HostKeyReasons
      <4> QED
        BY <4>1, <4>2, HostKeyRecorded DEF IInv
    <3>3. firstVerdict \in {"none", "verified"} \cup HostKeyReasons
      BY DEF IInv, TypeOK, Verdict
    <3>4. result' = [r EXCEPT !.Success = s]
      BY <1>25 DEF RecordHostKey
    <3> HIDE DEF r, s
    <3>5. /\ result'.Success = s
          /\ \A f \in DOMAIN ZeroResult \ {"Success"} : result'[f] = r[f]
      BY <3>1, <3>4 DEF Result, ZeroResult
    <3>6. /\ UNCHANGED <<ctxErr, handshakeErr, firstVerdict>>
          /\ firstVerdict # "none" => received # NoTime
          /\ handshakeErr = "closed" => ctxErr # "none"
          /\ handshakeErr = "errAbort" =>
               received # NoTime /\ result.Algorithms /\ firstVerdict # "none"
      BY <1>25 DEF IInv, RecordHostKey, VerdictInv, ConnInv, OutcomeInv
    <3>7. PhaseOrderInv'
      <4>1. /\ result'.TCPConnectSuccess /\ result'.DNSLookupSuccess = result'.DNSLookup
            /\ result'.VersionExchangeSuccess = (received # NoTime)
            /\ result'.KeyExchangeSuccess = (handshakeErr = "errAbort")
        <5>1. /\ result'.TCPConnectSuccess = r.TCPConnectSuccess
              /\ result'.DNSLookup = r.DNSLookup
              /\ result'.DNSLookupSuccess = r.DNSLookupSuccess
              /\ result'.VersionExchangeSuccess = r.VersionExchangeSuccess
              /\ result'.KeyExchangeSuccess = r.KeyExchangeSuccess
          BY <3>5 DEF ZeroResult
        <5> QED  BY <3>1, <5>1 DEF Connected, HandshakeRecorded
      <4>2. /\ result'.ServerHostKeyVerifySuccess = (firstVerdict = "verified")
            /\ result'.ErrorPhase = r.ErrorPhase
        BY <3>2, <3>5 DEF ZeroResult
      <4>3. CASE firstVerdict \in HostKeyReasons
        <5>1. result'.ErrorPhase = "key_exchange" /\ firstVerdict # "verified"
          <6>1. r.ErrorPhase = "key_exchange" /\ "verified" \notin HostKeyReasons
            BY <3>2, <4>3 DEF HostKeyReasons
          <6> QED  BY <4>2, <4>3, <6>1
        <5>2. received # NoTime
          BY <3>6, <4>3 DEF HostKeyReasons
        <5> QED  BY <3>6, <4>1, <4>2, <5>1, <5>2 DEF PhaseOrderInv
      <4>4. CASE firstVerdict \in {"none", "verified"}
        <5>1. result'.ErrorPhase = result.ErrorPhase
          BY <3>2, <4>2, <4>4
        <5>2. result.ErrorPhase = IF handshakeErr = "errAbort" THEN "none"
                                  ELSE IF received = NoTime THEN "version_exchange"
                                                            ELSE "key_exchange"
          BY <3>1 DEF HandshakeRecorded
        <5> QED  BY <3>6, <4>1, <4>2, <4>4, <5>1, <5>2 DEF PhaseOrderInv
      <4> QED  BY <3>3, <4>3, <4>4
    <3>8. ExplainedInv'
      <4>1. s = (handshakeErr = "errAbort" /\ firstVerdict = "verified")
        BY <3>1, <3>2, <3>3, <3>6 DEF s, HandshakeRecorded, HostKeyReasons
      <4>2. r.ErrorPhase = "none" <=> s
        BY <3>1, <3>2, <3>3, <3>6, <4>1 DEF HandshakeRecorded, HostKeyReasons
      <4>3. r.ErrorReason = "none" <=> s
        BY <3>1, <3>2, <3>3, <3>6, <4>1 DEF HandshakeRecorded, HostKeyReasons
      <4> QED
        BY <3>1, <3>5, <3>6, <4>1, <4>2, <4>3 DEF ExplainedInv, HandshakeRecorded,
               ZeroResult
    <3>9. VerdictReportedInv' /\ BlameInv'
      BY <3>1, <3>2, <3>3, <3>5, <3>6 DEF VerdictReportedInv, BlameInv,
             HandshakeRecorded, ZeroResult, HostKeyReasons
    <3> QED
      BY <3>7, <3>8, <3>9 DEF ReportInv
  <2>8. DurationsFit'
    BY <1>25 DEF IInv, RecordHostKey, WithHostKey, DurationsFit, TypeOK, Result
  <2> QED
    BY <2>1, <2>2, <2>3, <2>4, <2>5, <2>6, <2>7, <2>8 DEF IInv
<1>26. CASE Return
  <2>1. TypeOK'
    <3>1. result' \in Result
      BY <1>26 DEF IInv, Return, TypeOK, Result
    <3> QED
      BY <1>26, <3>1 DEF IInv, Return, TypeOK
  <2>2. ClockInv'
    BY <1>26 DEF IInv, Return, ClockInv, TypeOK, Times, NoTime, BeforeRecord, InNewClientConn
  <2>3. ConnInv'
    BY <1>26 DEF IInv, Return, ConnInv, TypeOK, BeforeRecord, InNewClientConn
  <2>4. VerdictInv'
    BY <1>26 DEF IInv, Return, VerdictInv, TypeOK, BeforeRecord, InNewClientConn
  <2>5. OutcomeInv'
    BY <1>26 DEF IInv, Return, OutcomeInv, TypeOK, PhasesOpen, Connected,
           HandshakeRecorded, BeforeRecord, InNewClientConn, Result
  <2>6. DurationInv'
    BY <1>26, DurationTypes DEF IInv, Return, DurationInv, ClockInv, TypeOK, Times,
           NoTime, BeforeRecord, Result
  <2>7. ReportInv'
    BY <1>26 DEF IInv, Return, ReportInv, PhaseOrderInv, ExplainedInv,
           VerdictReportedInv, BlameInv, Returning, TypeOK, Result
  <2>8. DurationsFit'
    BY <1>26, DurationTypes DEF IInv, Return, DurationInv, ClockInv, DurationsFit,
           TypeOK, Times, NoTime, BeforeRecord, Result
  <2> QED
    BY <2>1, <2>2, <2>3, <2>4, <2>5, <2>6, <2>7, <2>8 DEF IInv
<1>27. CASE UNCHANGED vars
  <2>1. TypeOK'
    BY <1>27 DEF IInv, vars, TypeOK
  <2>2. ClockInv'
    BY <1>27 DEF IInv, vars, ClockInv, TypeOK, Times, NoTime, BeforeRecord, InNewClientConn
  <2>3. ConnInv'
    BY <1>27 DEF IInv, vars, ConnInv, TypeOK, BeforeRecord, InNewClientConn
  <2>4. VerdictInv'
    BY <1>27 DEF IInv, vars, VerdictInv, TypeOK, BeforeRecord, InNewClientConn
  <2>5. OutcomeInv'
    BY <1>27 DEF IInv, vars, OutcomeInv, TypeOK, PhasesOpen, Connected,
           HandshakeRecorded, BeforeRecord, InNewClientConn
  <2>6. DurationInv'
    BY <1>27 DEF IInv, vars, DurationInv, ClockInv, TypeOK, Times, NoTime, BeforeRecord
  <2>7. ReportInv'
    BY <1>27 DEF IInv, vars, ReportInv, PhaseOrderInv, ExplainedInv,
           VerdictReportedInv, BlameInv, Returning, TypeOK
  <2>8. DurationsFit'
    BY <1>27 DEF IInv, vars, DurationsFit, TypeOK
  <2> QED
    BY <2>1, <2>2, <2>3, <2>4, <2>5, <2>6, <2>7, <2>8 DEF IInv
<1> QED
  BY <1>1, <1>2, <1>3, <1>4, <1>5, <1>6, <1>7, <1>8, <1>9, <1>10, <1>11, <1>12, <1>13,
         <1>14, <1>15, <1>16, <1>17, <1>18, <1>19, <1>20, <1>21, <1>22, <1>23, <1>24,
         <1>25, <1>26, <1>27 DEF Next, Run, Dialer, Library, Context, Done

-----------------------------------------------------------------------------
\* The invariant holds throughout every behaviour of a probe.
LEMMA InvHolds == Spec => []IInv
  BY InitInv, NextInv, PTL DEF Spec

\* Type correctness: in particular no duration Run computes is ever negative, and
\* every reason and phase it reports is one of the package's constants
\* (probe.go:275, 292, 334, 351, 463-539).
THEOREM TypeCorrect == Spec => []TypeOK
<1>1. IInv => TypeOK
  BY DEF IInv
<1> QED
  BY InvHolds, <1>1, PTL

\* The phases of every returned result succeed in order and the failure is charged
\* to the first phase that did not succeed (probe.go:279-286, 364-392).
THEOREM PhasesInOrder == Spec => []PhaseOrder
<1>1. IInv => PhaseOrder
  BY DEF IInv, ReportInv, PhaseOrderInv, Returning, PhaseOrder
<1> QED
  BY InvHolds, <1>1, PTL

\* A returned result is a complete success or carries a phase and a reason
\* (probe.go:384-394).
THEOREM FailuresExplained == Spec => []FailureExplained
<1>1. IInv => FailureExplained
  BY DEF IInv, ReportInv, ExplainedInv, Returning, FailureExplained
<1> QED
  BY InvHolds, <1>1, PTL

\* The host key verdict reported is that of the first key exchange, for any number
\* of later ones (probe.go:190-195, 324-327, 383-392).
THEOREM FirstVerdictReported == Spec => []VerdictIsFirst
<1>1. IInv => VerdictIsFirst
  BY DEF IInv, ReportInv, VerdictReportedInv, Returning, VerdictIsFirst
<1> QED
  BY InvHolds, <1>1, PTL

\* The error of a connection that Run closed itself is blamed on the context
\* (probe.go:302-305, 461-472).
THEOREM OwnCloseExplained == Spec => []OwnCloseBlamedOnContext
<1>1. IInv => OwnCloseBlamedOnContext
  BY DEF IInv, ReportInv, BlameInv, Returning, OwnCloseBlamedOnContext
<1> QED
  BY InvHolds, <1>1, PTL

\* The durations of the phases fit into the duration of the probe, however late the
\* clock is read (probe.go:240, 256-263, 275, 292, 334, 351).
THEOREM PhasesFitIntoProbe == Spec => []DurationsFit
<1>1. IInv => DurationsFit
  BY DEF IInv
<1> QED
  BY InvHolds, <1>1, PTL

-----------------------------------------------------------------------------
(***************************************************************************)
(* The ladder of phases.  The refinement needs to know, beyond IInv, what  *)
(* an error of the dial or of the handshake says about the phase reached,  *)
(* and that the reason recorded for it still fits when Run returns: the    *)
(* context may end in between.                                             *)
(***************************************************************************)
ErrorInv ==
    /\ conn # "none" <=> pc \notin {"start", "dial"} /\ dialErr = "none"
    /\ afterFunc # "unset" => conn # "none"
    /\ connectStart # NoTime \/ target = "ip" => resolved
    /\ dialErr = "dns" => target = "hostname" /\ connectStart = NoTime
    /\ dialErr \in AttemptErrors => connectStart # NoTime
    /\ dialErr = "context" => ctxErr # "none"
    /\ handshakeErr # "none" => conn # "none"
    /\ received # NoTime => conn # "none"
    /\ handshakeErr \in NegotiationLists => received # NoTime /\ firstVerdict = "none"

Late == {"hostkey", "return", "done"}

\* The phases that are recorded as successful are those before the one reached.
ReachedInv ==
    pc \in Late =>
      /\ result.DNSLookup = (target = "hostname")
      /\ result.DNSLookupSuccess = (target = "hostname" /\ connectStart # NoTime)
      /\ result.TCPConnectSuccess = (conn # "none")
      /\ result.VersionExchangeSuccess = (received # NoTime)
      /\ result.KeyExchangeSuccess = (handshakeErr = "errAbort")

CauseInv ==
    pc \in Late /\ handshakeErr # "errAbort"
      /\ (pc = "hostkey" \/ firstVerdict \notin HostKeyReasons) =>
        result.ErrorReason \in Ladder!Causes

LadderInv == ErrorInv /\ ReachedInv /\ CauseInv

\* The reasons of a phase stay reasons of it when the context ends.
LEMMA CausesKept ==
    ASSUME UNCHANGED <<target, connectStart, received, handshakeErr, firstVerdict>>,
           (conn' # "none") = (conn # "none"), ctxErr' = ctxErr \/ ctxErr = "none"
    PROVE  Ladder!Causes \subseteq Ladder!Causes' /\ PhaseReached' = PhaseReached
  <1>1. PhaseReached' = PhaseReached
    BY DEF PhaseReached
  <1> QED  BY <1>1 DEF Ladder!Causes

\* How classifyDialError explains an error of the dial (probe.go:474-499).
LEMMA DialCause ==
    ASSUME IInv, ErrorInv, pc = "dialed", dialErr # "none"
    PROVE  classifyDialError(ctxErr, dialErr) \in Ladder!Causes
  <1>1. /\ received = NoTime /\ handshakeErr = "none" /\ conn = "none"
        /\ target \in {"hostname", "ip"} /\ dialErr \in DialErrors
        /\ ctxErr \in {"none", "deadline", "canceled"}
    BY DEF IInv, TypeOK, ClockInv, OutcomeInv, ErrorInv, BeforeRecord
  <1>2. CASE ctxErr # "none"
    BY <1>1, <1>2 DEF classifyDialError, classifyContextError, Ladder!Causes
  <1>3. CASE ctxErr = "none"
    <2>1. CASE connectStart # NoTime \/ target = "ip"
      <3>1. PhaseReached = "tcp_connect"
        BY <1>1, <2>1 DEF PhaseReached
      <3>2. dialErr \in AttemptErrors \cup {"net_timeout", "other"}
        BY <1>1, <1>3, <2>1 DEF ErrorInv, DialErrors
      <3> QED  BY <1>3, <3>1, <3>2 DEF classifyDialError, classifyContextError,
                   AttemptErrors, Ladder!Causes
    <2>2. CASE ~(connectStart # NoTime \/ target = "ip")
      <3>1. PhaseReached = "dns_lookup"
        BY <1>1, <2>2 DEF PhaseReached
      <3>2. dialErr \in {"dns", "net_timeout", "other"}
        BY <1>1, <1>3, <2>2 DEF ErrorInv, DialErrors
      <3> QED  BY <1>3, <3>1, <3>2 DEF classifyDialError, classifyContextError, Ladder!Causes
    <2> QED  BY <2>1, <2>2
  <1> QED  BY <1>2, <1>3

\* A list without a common algorithm has a reason of its own (probe.go:524-539).
LEMMA NegotiationClassified ==
    ASSUME NEW what \in NegotiationLists
    PROVE  classifyNegotiationError(what) \in NegotiationReasons
  BY DEF classifyNegotiationError, NegotiationReasons

\* How classifyKexError explains an error of the handshake (probe.go:501-522).
LEMMA KexCause ==
    ASSUME IInv, ErrorInv, pc = "over", handshakeErr # "errAbort"
    PROVE  classifyKexError(ctxErr, handshakeErr) \in Ladder!Causes
  <1>1. /\ conn # "none" /\ handshakeErr \in HandshakeErrors
        /\ ctxErr \in {"none", "deadline", "canceled"}
        /\ handshakeErr = "closed" => ctxErr # "none"
    BY DEF IInv, TypeOK, ConnInv, OutcomeInv, ErrorInv
  <1>2. CASE ctxErr # "none"
    BY <1>1, <1>2 DEF classifyKexError, classifyContextError, Ladder!Causes
  <1>3. CASE ctxErr = "none"
    <2>1. classifyKexError(ctxErr, handshakeErr) = KexErrorAlone(ctxErr, handshakeErr)
      BY <1>3 DEF classifyKexError, classifyContextError
    <2>2. PhaseReached \in {"version_exchange", "key_exchange"}
      BY <1>1 DEF PhaseReached
    <2>3. CASE handshakeErr \in NegotiationLists
      <3>1. PhaseReached = "key_exchange" /\ firstVerdict = "none"
        BY <1>1, <2>3 DEF PhaseReached, ErrorInv
      <3>2. KexErrorAlone(ctxErr, handshakeErr) \in
              {classifyNegotiationError(handshakeErr), "timeout", "connection_reset", "other"}
        BY DEF KexErrorAlone
      <3> QED  BY <2>1, <2>3, <3>1, <3>2, NegotiationClassified DEF Ladder!Causes
    <2>4. CASE handshakeErr \notin NegotiationLists
      <3>1. KexErrorAlone(ctxErr, handshakeErr) \in {"timeout", "connection_reset", "other"}
        BY <2>4 DEF KexErrorAlone
      <3> QED  BY <2>1, <2>2, <3>1 DEF Ladder!Causes
    <2> QED  BY <2>3, <2>4
  <1> QED  BY <1>2, <1>3

\* A step after the outcome is recorded keeps what the ladder needs of it, also when
\* the context ends with it.
LEMMA LateStep ==
    ASSUME ReachedInv, CauseInv, pc \in Late, pc' = pc \/ (pc = "return" /\ pc' = "done"),
           UNCHANGED <<target, connectStart, received, handshakeErr, firstVerdict>>,
           (conn' # "none") = (conn # "none"), ctxErr' = ctxErr \/ ctxErr = "none",
           result'.DNSLookup = result.DNSLookup,
           result'.DNSLookupSuccess = result.DNSLookupSuccess,
           result'.TCPConnectSuccess = result.TCPConnectSuccess,
           result'.VersionExchangeSuccess = result.VersionExchangeSuccess,
           result'.KeyExchangeSuccess = result.KeyExchangeSuccess,
           result'.ErrorReason = result.ErrorReason
    PROVE  ReachedInv' /\ CauseInv'
  <1>1. ReachedInv'
    BY DEF ReachedInv, Late
  <1>2. Ladder!Causes \subseteq Ladder!Causes'
    BY CausesKept
  <1>3. CauseInv'
    BY <1>2 DEF CauseInv, Late
  <1> QED  BY <1>1, <1>3

\* Initially no phase has been left.
LEMMA InitLadderInv == Init => LadderInv
  <1> SUFFICES ASSUME Init  PROVE LadderInv
    OBVIOUS
  <1>1. ErrorInv
    BY DEF Init, ErrorInv, NoTime, AttemptErrors, NegotiationLists
  <1>2. ReachedInv /\ CauseInv
    BY DEF Init, ReachedInv, CauseInv, Late
  <1> QED  BY <1>1, <1>2 DEF LadderInv

\* The words of the code for errors and lists are different from the empty one.
LEMMA NoErrorIsNoList == "none" \notin NegotiationLists /\ "none" \notin AttemptErrors
  BY Zenon DEF NegotiationLists, AttemptErrors

\* The steps of the context and the goroutines it starts, of the clock and of a key
\* exchange after the first may come at any time.
LEMMA AnytimeLadderInv ==
    ASSUME IInv, LadderInv,
           \/ Tick \/ Deadline \/ Cancel \/ AfterFuncStarts \/ AfterFuncCloses
           \/ \E v \in {"verified"} \cup HostKeyErrors : VerifyRekey(v)
           \/ UNCHANGED vars
    PROVE  LadderInv'
  <1> USE DEF clockVars, dialVars, connVars, keyVars
  <1>1. /\ UNCHANGED <<pc, target, resolved, connectStart, received, dialErr, handshakeErr,
                       result>>
        /\ ctxErr' = ctxErr \/ ctxErr = "none"
    BY DEF Tick, Deadline, Cancel, ContextEnds, AfterFuncStarts, AfterFuncCloses,
           VerifyRekey, HostKeyCallback, vars
  <1>2. firstVerdict' = firstVerdict
    BY DEF Tick, Deadline, Cancel, ContextEnds, AfterFuncStarts, AfterFuncCloses,
           VerifyRekey, HostKeyCallback, vars, IInv, VerdictInv
  <1>3. (conn' # "none") = (conn # "none") /\ (afterFunc' # "unset") = (afterFunc # "unset")
    BY DEF Tick, Deadline, Cancel, ContextEnds, AfterFuncStarts, AfterFuncCloses,
           VerifyRekey, HostKeyCallback, vars, LadderInv, ErrorInv
  <1>4. ErrorInv'
    BY <1>1, <1>2, <1>3 DEF LadderInv, ErrorInv
  <1>5. CASE pc \in Late
    <2>1. ReachedInv' /\ CauseInv'
      BY <1>1, <1>2, <1>3, <1>5, LateStep DEF LadderInv
    <2> QED  BY <1>4, <2>1 DEF LadderInv
  <1>6. CASE pc \notin Late
    <2>1. ReachedInv' /\ CauseInv'
      BY <1>1, <1>6 DEF ReachedInv, CauseInv
    <2> QED  BY <1>4, <2>1 DEF LadderInv
  <1> QED  BY <1>5, <1>6

\* The steps of the dial.
LEMMA DialLadderInv ==
    ASSUME IInv, LadderInv,
           \/ StartDial \/ LookupSucceeds \/ ControlContext \/ DialSucceeds
           \/ \E err \in DialErrors : DialFails(err)
           \/ \E mss \in MSSValues : RecordConnected(mss)
           \/ StartHandshake
    PROVE  LadderInv'
  <1> USE DEF clockVars, dialVars, connVars, keyVars
  <1>0. /\ pc \in {"start", "dial", "dialed", "connected"} /\ pc' \notin Late
        /\ UNCHANGED <<target, ctxErr, handshakeErr, received, firstVerdict>>
    BY DEF StartDial, LookupSucceeds, ControlContext, DialSucceeds, DialFails,
           RecordConnected, StartHandshake, Late
  <1>1. /\ handshakeErr = "none" /\ received = NoTime /\ (pc \in {"start", "dial"} => dialErr = "none")
    BY <1>0 DEF IInv, OutcomeInv, ClockInv, ConnInv, BeforeRecord
  <1>2. ReachedInv' /\ CauseInv'
    BY <1>0 DEF ReachedInv, CauseInv
  <1>3. ErrorInv'
    <2>1. CASE StartDial \/ LookupSucceeds \/ StartHandshake
                 \/ \E mss \in MSSValues : RecordConnected(mss)
      BY <1>0, <1>1, <2>1, NoErrorIsNoList DEF LadderInv, ErrorInv, StartDial, LookupSucceeds,
             RecordConnected, StartHandshake, IInv, ConnInv
    <2>2. CASE ControlContext
      BY <1>0, <1>1, <2>2, NoErrorIsNoList DEF LadderInv, ErrorInv, ControlContext
    <2>3. CASE DialSucceeds
      BY <1>0, <1>1, <2>3, NoErrorIsNoList DEF LadderInv, ErrorInv, DialSucceeds
    <2>4. ASSUME NEW err \in DialErrors, DialFails(err)  PROVE ErrorInv'
      BY <1>0, <1>1, <2>4, NoErrorIsNoList DEF LadderInv, ErrorInv, DialFails, DialErrors,
             IInv, TypeOK
    <2> QED  BY <2>1, <2>2, <2>3, <2>4
  <1> QED  BY <1>2, <1>3 DEF LadderInv

\* The steps of the handshake.
LEMMA HandshakeLadderInv ==
    ASSUME IInv, LadderInv,
           \/ \E id \in Identifications : ReadIdentification(id)
           \/ AgreeAlgorithms \/ ReadKexReply \/ ReadNewKeys
           \/ \E what \in NegotiationLists : NegotiationFails(what)
           \/ \E err \in PeerErrors : PeerFails(err)
           \/ UseOfClosedConn
           \/ \E v \in {"verified"} \cup HostKeyErrors : VerifyFirstKey(v)
           \/ \E macs \in SUBSET Directions : TransportReadyCallback(macs)
    PROVE  LadderInv'
  <1> USE DEF clockVars, dialVars, connVars, keyVars
  <1>0. /\ pc \in InNewClientConn /\ pc' \in InNewClientConn \cup {"over"}
        /\ UNCHANGED <<target, ctxErr, dialErr, resolved, connectStart, afterFunc>>
        /\ conn' \in {conn, "closed"}
    BY DEF ReadIdentification, AgreeAlgorithms, ReadKexReply, ReadNewKeys, LibraryStep,
           NegotiationFails, PeerFails, UseOfClosedConn, HandshakeFails, VerifyFirstKey,
           TransportReadyCallback, InNewClientConn
  <1>1. handshakeErr = "none" /\ conn # "none" /\ conn' # "none" /\ dialErr = "none"
    BY <1>0 DEF IInv, OutcomeInv, ConnInv
  <1>2. ReachedInv' /\ CauseInv'
    BY <1>0 DEF ReachedInv, CauseInv, Late, InNewClientConn
  <1>3. handshakeErr' \in NegotiationLists => received' # NoTime /\ firstVerdict' = "none"
    <2>1. ASSUME NEW what \in NegotiationLists, NegotiationFails(what)
          PROVE  received' # NoTime /\ firstVerdict' = "none"
      BY <2>1 DEF NegotiationFails, HandshakeFails, IInv, ClockInv, VerdictInv
    <2>2. CASE ~\E what \in NegotiationLists : NegotiationFails(what)
      <3>1. handshakeErr' \in PeerErrors \cup {"none", "closed", "errAbort"}
        BY <1>1, <2>2 DEF ReadIdentification, AgreeAlgorithms, ReadKexReply, ReadNewKeys,
               LibraryStep, PeerFails, UseOfClosedConn, HandshakeFails, VerifyFirstKey,
               TransportReadyCallback, errAbort
      <3>2. handshakeErr' \notin NegotiationLists
        BY <3>1, Zenon DEF PeerErrors, NegotiationLists
      <3> QED  BY <3>2
    <2> QED  BY <2>1, <2>2
  <1>4. ErrorInv'
    BY <1>0, <1>1, <1>3, NoErrorIsNoList DEF LadderInv, ErrorInv, InNewClientConn
  <1> QED  BY <1>2, <1>4 DEF LadderInv

\* The steps that record the outcome, and the return.
LEMMA RecordLadderInv ==
    ASSUME IInv, LadderInv, RecordDialError \/ RecordHandshake \/ RecordHostKey \/ Return
    PROVE  LadderInv'
  <1> USE DEF clockVars, dialVars, connVars, keyVars
  <1>0. /\ pc \in {"dialed", "over", "hostkey", "return"} /\ pc' \notin {"start", "dial"}
        /\ UNCHANGED <<target, resolved, ctxErr, dialErr, connectStart, received, handshakeErr,
                       firstVerdict>>
        /\ (conn' # "none") = (conn # "none")
        /\ (afterFunc' # "unset") = (afterFunc # "unset")
    BY DEF RecordDialError, RecordHandshake, RecordHostKey, Return
  <1>1. ErrorInv'
    BY <1>0 DEF LadderInv, ErrorInv
  <1>2. Ladder!Causes \subseteq Ladder!Causes'
    BY <1>0, CausesKept
  <1>3. result \in Result
    BY DEF IInv, TypeOK
  <1>4. CASE RecordDialError
    <2> DEFINE r == WithDNSLookup(result)
               p == IF target = "hostname" /\ ~DNSLookupSucceeded
                    THEN "dns_lookup" ELSE "tcp_connect"
               e == classifyDialError(ctxErr, dialErr)
    <2>1. /\ pc = "dialed" /\ pc' = "return" /\ dialErr # "none"
          /\ result' = [r EXCEPT !.ErrorPhase = p, !.ErrorReason = e]
      BY <1>4 DEF RecordDialError
    <2>2. e \in Ladder!Causes /\ e \in Reasons /\ p \in Phases
      BY <2>1, DialCause, ClassifiedReason DEF IInv, TypeOK, LadderInv, Phases
    <2>3. /\ received = NoTime /\ handshakeErr = "none" /\ conn = "none"
          /\ result = ZeroResult
      BY <2>1 DEF IInv, ClockInv, OutcomeInv, BeforeRecord, LadderInv, ErrorInv
    <2>4. /\ r \in Result
          /\ r.DNSLookup = (target = "hostname") /\ r.DNSLookupSuccess = DNSLookupSucceeded
          /\ r.TCPConnectSuccess = result.TCPConnectSuccess
          /\ r.VersionExchangeSuccess = result.VersionExchangeSuccess
          /\ r.KeyExchangeSuccess = result.KeyExchangeSuccess
      BY <2>1, DNSLookupRecorded DEF IInv, ZeroResult
    <2> HIDE DEF r, p, e
    <2>5. /\ result'.ErrorReason = e
          /\ \A f \in DOMAIN ZeroResult \ {"ErrorPhase", "ErrorReason"} : result'[f] = r[f]
      BY <2>1, <2>4 DEF Result, ZeroResult
    <2>6. /\ result'.DNSLookup = r.DNSLookup /\ result'.DNSLookupSuccess = r.DNSLookupSuccess
          /\ result'.TCPConnectSuccess = r.TCPConnectSuccess
          /\ result'.VersionExchangeSuccess = r.VersionExchangeSuccess
          /\ result'.KeyExchangeSuccess = r.KeyExchangeSuccess
      BY <2>5 DEF ZeroResult
    <2>7. /\ result.TCPConnectSuccess = FALSE /\ result.VersionExchangeSuccess = FALSE
          /\ result.KeyExchangeSuccess = FALSE
      BY <2>3 DEF ZeroResult
    <2>8. ReachedInv'
      BY <1>0, <2>3, <2>4, <2>6, <2>7 DEF ReachedInv, DNSLookupSucceeded
    <2>9. CauseInv'
      BY <1>2, <2>2, <2>5 DEF CauseInv
    <2> QED  BY <1>1, <2>8, <2>9 DEF LadderInv
  <1>5. CASE RecordHandshake
    <2>1. pc = "over" /\ pc' = "hostkey" /\ handshakeErr # "none" /\ Connected
      BY <1>5 DEF RecordHandshake, IInv, OutcomeInv
    <2>2. /\ Connected' /\ HandshakeRecorded'
      BY <2>1, NextInv, <1>5 DEF Next, Run, IInv, OutcomeInv
    <2>3. connectStart # NoTime /\ conn # "none"
      BY <2>1 DEF IInv, ConnInv, ClockInv, LadderInv, ErrorInv
    <2>4. ReachedInv'
      BY <1>0, <2>2, <2>3 DEF ReachedInv, Connected, HandshakeRecorded
    <2>5. ASSUME handshakeErr # "errAbort"
          PROVE  result'.ErrorReason = classifyKexError(ctxErr, handshakeErr)
      <3> DEFINE r == WithVersionExchange(result)
                 p == failedPhase(r)
                 e == classifyKexError(ctxErr, handshakeErr)
      <3>1. r \in Result
        BY <2>1, VersionExchangeRecorded DEF IInv
      <3>2. result' = [r EXCEPT !.ErrorPhase = p, !.ErrorReason = e]
        BY <1>5, <2>1, <2>5 DEF RecordHandshake
      <3> HIDE DEF r, p, e
      <3>3. result'.ErrorReason = e
        BY <3>1, <3>2 DEF Result
      <3> QED  BY <3>3 DEF e
    <2>6. CauseInv'
      BY <1>0, <1>2, <2>1, <2>5, KexCause DEF CauseInv, LadderInv
    <2> QED  BY <1>1, <2>4, <2>6 DEF LadderInv
  <1>6. CASE RecordHostKey
    <2> DEFINE r == WithHostKey(result)
               s == /\ r.ErrorPhase = "none" /\ r.KeyExchangeSuccess
                    /\ r.ServerHostKeyVerifySuccess
    <2>1. pc = "hostkey" /\ pc' = "return" /\ result' = [r EXCEPT !.Success = s]
      BY <1>6 DEF RecordHostKey
    <2>2. /\ r \in Result /\ r.DNSLookup = result.DNSLookup
          /\ r.DNSLookupSuccess = result.DNSLookupSuccess
          /\ r.TCPConnectSuccess = result.TCPConnectSuccess
          /\ r.VersionExchangeSuccess = result.VersionExchangeSuccess
          /\ r.KeyExchangeSuccess = result.KeyExchangeSuccess
          /\ hostKeyResultCh \in {"empty", "verified"} => r.ErrorReason = result.ErrorReason
      BY HostKeyRecorded DEF IInv, ZeroResult
    <2>3. firstVerdict \notin HostKeyReasons => hostKeyResultCh \in {"empty", "verified"}
      BY <2>1 DEF IInv, TypeOK, VerdictInv, Verdict
    <2> HIDE DEF r, s
    <2>4. /\ result'.DNSLookup = r.DNSLookup /\ result'.DNSLookupSuccess = r.DNSLookupSuccess
          /\ result'.TCPConnectSuccess = r.TCPConnectSuccess
          /\ result'.VersionExchangeSuccess = r.VersionExchangeSuccess
          /\ result'.KeyExchangeSuccess = r.KeyExchangeSuccess
          /\ result'.ErrorReason = r.ErrorReason
      BY <2>1, <2>2 DEF Result
    <2>5. ReachedInv'
      BY <1>0, <2>1, <2>2, <2>4 DEF ReachedInv, LadderInv, Late
    <2>6. CauseInv'
      BY <1>0, <1>2, <2>1, <2>2, <2>3, <2>4 DEF CauseInv, LadderInv, Late
    <2> QED  BY <1>1, <2>5, <2>6 DEF LadderInv
  <1>7. CASE Return
    <2>1. pc = "return" /\ pc' = "done" /\ result' = [result EXCEPT !.Duration = now]
      BY <1>7 DEF Return
    <2>2. /\ result'.DNSLookup = result.DNSLookup
          /\ result'.DNSLookupSuccess = result.DNSLookupSuccess
          /\ result'.TCPConnectSuccess = result.TCPConnectSuccess
          /\ result'.VersionExchangeSuccess = result.VersionExchangeSuccess
          /\ result'.KeyExchangeSuccess = result.KeyExchangeSuccess
          /\ result'.ErrorReason = result.ErrorReason
      BY <1>3, <2>1 DEF Result
    <2>3. pc \in Late
      BY <2>1 DEF Late
    <2>4. ReachedInv' /\ CauseInv'
      BY <1>0, <2>1, <2>2, <2>3, LateStep DEF LadderInv
    <2> QED  BY <1>1, <2>4 DEF LadderInv
  <1> QED  BY <1>4, <1>5, <1>6, <1>7

\* What the ladder needs is kept by every step.
LEMMA NextLadderInv == IInv /\ LadderInv /\ [Next]_vars => LadderInv'
  BY AnytimeLadderInv, DialLadderInv, HandshakeLadderInv, RecordLadderInv
     DEF Next, Run, Dialer, Library, Context, Done

\* A step that stays in its phase is a stuttering step of the ladder.
LEMMA SamePhase ==
    ASSUME UNCHANGED <<target, connectStart, received, firstVerdict, ctxErr>>,
           (handshakeErr' = "errAbort") = (handshakeErr = "errAbort"),
           (conn' # "none") = (conn # "none"),
           \/ pc # "done" /\ pc' # "done"
           \/ pc = "done" /\ pc' = "done" /\ result' = result
    PROVE  UNCHANGED Ladder!vars
  <1>1. PhaseReached' = PhaseReached
    BY DEF PhaseReached
  <1>2. Reported' = Reported
    BY DEF Reported, PhasesSucceeded
  <1> QED  BY <1>1, <1>2 DEF Ladder!vars

\* The ladder reports nothing before Run returns.
LEMMA NothingReported == pc # "done" => Reported = Ladder!NoReport
  BY DEF Reported, Ladder!NoReport

\* Initially a probe is at the foot of the ladder.
LEMMA InitLadder == Init => Ladder!Init
  <1> SUFFICES ASSUME Init  PROVE Ladder!Init
    OBVIOUS
  <1>1. Reported = Ladder!NoReport
    BY NothingReported DEF Init
  <1>2. PhaseReached = IF target = "hostname" THEN "dns_lookup" ELSE "tcp_connect"
    BY DEF Init, PhaseReached
  <1> QED  BY <1>1, <1>2 DEF Init, Ladder!Init

\* The return is the one step that reports, and what it reports follows from the phase
\* reached and the verdict (probe.go:364-394).
LEMMA ReturnStops ==
    ASSUME IInv, LadderInv, Return
    PROVE  Ladder!Stop
  <1> USE DEF clockVars, dialVars, connVars, keyVars
  <1>0. /\ pc = "return" /\ pc' = "done" /\ result' = [result EXCEPT !.Duration = now]
        /\ UNCHANGED <<target, connectStart, received, firstVerdict, ctxErr, handshakeErr>>
        /\ (conn' # "none") = (conn # "none")
        /\ result \in Result
    BY DEF Return, IInv, TypeOK
  <1>1. /\ result'.DNSLookup = result.DNSLookup
        /\ result'.DNSLookupSuccess = result.DNSLookupSuccess
        /\ result'.TCPConnectSuccess = result.TCPConnectSuccess
        /\ result'.VersionExchangeSuccess = result.VersionExchangeSuccess
        /\ result'.KeyExchangeSuccess = result.KeyExchangeSuccess
        /\ result'.ServerHostKeyVerifySuccess = result.ServerHostKeyVerifySuccess
        /\ result'.ErrorPhase = result.ErrorPhase /\ result'.ErrorReason = result.ErrorReason
        /\ result'.Success = result.Success
    BY <1>0 DEF Result
  <1>2. UNCHANGED <<target, PhaseReached, firstVerdict, ctxErr>>
    BY <1>0 DEF PhaseReached
  <1>3. Reported = Ladder!NoReport
    BY <1>0, NothingReported
  <1>4. /\ result.DNSLookup = (target = "hostname")
        /\ result.DNSLookupSuccess = (target = "hostname" /\ connectStart # NoTime)
        /\ result.TCPConnectSuccess = (conn # "none")
        /\ result.VersionExchangeSuccess = (received # NoTime)
        /\ result.KeyExchangeSuccess = (handshakeErr = "errAbort")
    BY <1>0 DEF LadderInv, ReachedInv, Late
  <1>5. /\ conn # "none" => connectStart # NoTime
        /\ received # NoTime => conn # "none"
        /\ handshakeErr = "errAbort" => received # NoTime /\ firstVerdict # "none"
        /\ target \in {"hostname", "ip"}
        /\ firstVerdict \in {"none", "verified"} \cup HostKeyReasons
    BY <1>0 DEF IInv, TypeOK, ClockInv, OutcomeInv, LadderInv, ErrorInv, Verdict
  <1>6. PhasesSucceeded(result') = Ladder!Completed
    <2>1. PhasesSucceeded(result') = PhasesSucceeded(result)
      BY <1>1 DEF PhasesSucceeded
    <2>2. ASSUME NEW p \in Phases
          PROVE  p \in PhasesSucceeded(result) <=> p \in Ladder!Completed
      BY <1>4, <1>5 DEF PhasesSucceeded, PhaseReached, Phases, Ladder!Completed, Ladder!Before,
             Ladder!Phases
    <2>3. PhasesSucceeded(result) \subseteq Phases /\ Ladder!Completed \subseteq Phases
      BY DEF PhasesSucceeded, Ladder!Completed, Ladder!Before, Ladder!Phases, Phases
    <2> QED  BY <2>1, <2>2, <2>3
  <1>7. result.ServerHostKeyVerifySuccess = (firstVerdict = "verified")
    BY <1>0 DEF IInv, ReportInv, VerdictReportedInv, Returning, Result
  <1>8. Reported' = Ladder!Report(result.Success, result.ErrorPhase, result.ErrorReason)
    BY <1>0, <1>1, <1>6, <1>7 DEF Reported, Ladder!Report
  <1>9. CASE firstVerdict \in HostKeyReasons
    <2>1. /\ result.ErrorPhase = "key_exchange" /\ result.ErrorReason = firstVerdict
          /\ result.Success = FALSE
      BY <1>0, <1>9 DEF IInv, ReportInv, VerdictReportedInv, ExplainedInv, Returning, Result
    <2>2. Ladder!Reject
      BY <1>8, <1>9, <2>1 DEF Ladder!Reject
    <2> QED  BY <1>2, <1>3, <2>2 DEF Ladder!Stop
  <1>10. CASE firstVerdict \notin HostKeyReasons /\ handshakeErr = "errAbort"
    <2>1. PhaseReached = "complete" /\ firstVerdict = "verified"
      BY <1>5, <1>10 DEF PhaseReached
    <2>2. result.ErrorPhase \notin Phases
      BY <1>0, <1>4, <1>5, <1>7, <1>10, <2>1 DEF IInv, ReportInv, PhaseOrderInv, Returning, Phases
    <2>3. /\ result.ErrorPhase = "none" /\ result.ErrorReason = "none"
          /\ result.Success = TRUE
      BY <1>0, <2>2 DEF IInv, ReportInv, ExplainedInv, Returning, Result
    <2>4. Ladder!Succeed
      BY <1>8, <2>1, <2>3 DEF Ladder!Succeed
    <2> QED  BY <1>2, <1>3, <2>4 DEF Ladder!Stop
  <1>11. CASE firstVerdict \notin HostKeyReasons /\ handshakeErr # "errAbort"
    <2>1. result.ErrorReason \in Ladder!Causes
      BY <1>0, <1>11 DEF LadderInv, CauseInv, Late
    <2>2. result.ErrorPhase = PhaseReached /\ PhaseReached # "complete"
      BY <1>0, <1>4, <1>5, <1>11 DEF IInv, ReportInv, PhaseOrderInv, Returning, PhaseReached
    <2>3. result.Success = FALSE
      BY <1>0, <2>2 DEF IInv, ReportInv, ExplainedInv, Returning, PhaseReached, Result
    <2>4. Ladder!Fail
      BY <1>8, <1>11, <2>1, <2>2, <2>3 DEF Ladder!Fail
    <2> QED  BY <1>2, <1>3, <2>4 DEF Ladder!Stop
  <1> QED  BY <1>9, <1>10, <1>11

\* Every step of a probe is a step of the ladder or leaves it alone.
LEMMA NextLadder == IInv /\ LadderInv /\ [Next]_vars => [Ladder!Next]_Ladder!vars
  <1> SUFFICES ASSUME IInv, LadderInv, [Next]_vars  PROVE [Ladder!Next]_Ladder!vars
    OBVIOUS
  <1> USE DEF clockVars, dialVars, connVars, keyVars
  <1>1. CASE \/ Tick \/ AfterFuncStarts \/ AfterFuncCloses \/ UNCHANGED vars
             \/ \E v \in {"verified"} \cup HostKeyErrors : VerifyRekey(v)
    <2>1. /\ UNCHANGED <<pc, target, connectStart, received, ctxErr, handshakeErr, result>>
      BY <1>1 DEF Tick, AfterFuncStarts, AfterFuncCloses, VerifyRekey, HostKeyCallback,
             vars
    <2>2. firstVerdict' = firstVerdict
      BY <1>1 DEF Tick, AfterFuncStarts, AfterFuncCloses, VerifyRekey, HostKeyCallback, vars,
             IInv, VerdictInv
    <2>3. (conn' # "none") = (conn # "none")
      BY <1>1 DEF Tick, AfterFuncStarts, AfterFuncCloses, VerifyRekey, vars, LadderInv, ErrorInv
    <2> QED  BY <2>1, <2>2, <2>3, SamePhase
  <1>2. CASE Deadline \/ Cancel
    <2>1. PICK err \in {"deadline", "canceled"} : ContextEnds(err)
      BY <1>2 DEF Deadline, Cancel
    <2>2. PhaseReached' = PhaseReached /\ Reported' = Reported
      BY <2>1 DEF ContextEnds, PhaseReached, Reported, PhasesSucceeded
    <2>3. Ladder!ContextEnds(err)
      BY <2>1, <2>2 DEF ContextEnds, Ladder!ContextEnds
    <2> QED  BY <2>3 DEF Ladder!Next
  <1>3. CASE \/ StartDial \/ LookupSucceeds \/ RecordDialError \/ StartHandshake
             \/ \E err \in DialErrors : DialFails(err)
             \/ \E mss \in MSSValues : RecordConnected(mss)
             \/ AgreeAlgorithms \/ ReadKexReply \/ ReadNewKeys
             \/ RecordHandshake \/ RecordHostKey
    <2>1. /\ UNCHANGED <<target, connectStart, received, firstVerdict, ctxErr, conn, handshakeErr>>
          /\ pc # "done" /\ pc' # "done"
      BY <1>3 DEF StartDial, LookupSucceeds, RecordDialError, StartHandshake, DialFails,
             RecordConnected, AgreeAlgorithms, ReadKexReply, ReadNewKeys, LibraryStep,
             RecordHandshake, RecordHostKey
    <2> QED  BY <2>1, SamePhase
  <1>4. CASE \/ \E what \in NegotiationLists : NegotiationFails(what)
             \/ \E err \in PeerErrors : PeerFails(err)
             \/ UseOfClosedConn
    <2>1. PICK err \in NegotiationLists \cup PeerErrors \cup {"closed"} :
            pc \in InNewClientConn /\ HandshakeFails(err)
      BY <1>4 DEF NegotiationFails, PeerFails, UseOfClosedConn, InNewClientConn
    <2>2. err # "errAbort"
      BY <2>1, Zenon DEF NegotiationLists, PeerErrors
    <2>3. handshakeErr = "none" /\ conn # "none"
      BY <2>1 DEF IInv, OutcomeInv, ConnInv
    <2>4. /\ UNCHANGED <<target, connectStart, received, firstVerdict, ctxErr>>
          /\ (handshakeErr' = "errAbort") = (handshakeErr = "errAbort")
          /\ (conn' # "none") = (conn # "none")
          /\ pc # "done" /\ pc' # "done"
      BY <2>1, <2>2, <2>3 DEF HandshakeFails, InNewClientConn
    <2> QED  BY <2>4, SamePhase
  <1>5. CASE ControlContext
    <2>1. /\ UNCHANGED <<pc, target, received, firstVerdict, ctxErr, conn, handshakeErr>>
          /\ pc # "done" /\ pc' # "done"
          /\ connectStart' = CompareAndSwap
      BY <1>5 DEF ControlContext
    <2>2. CASE connectStart # NoTime
      <3>1. connectStart' = connectStart
        BY <2>1, <2>2 DEF CompareAndSwap
      <3> QED  BY <2>1, <3>1, SamePhase
    <2>3. CASE connectStart = NoTime
      <3>1. pc = "dial" /\ now # NoTime
        BY <1>5, <2>3 DEF ControlContext, IInv, ClockInv, TypeOK, NoTime
      <3>2. received = NoTime /\ handshakeErr = "none" /\ conn = "none" /\ connectStart' # NoTime
        BY <2>1, <2>3, <3>1 DEF IInv, ClockInv, OutcomeInv, BeforeRecord, LadderInv, ErrorInv,
               CompareAndSwap
      <3>3. Reported = Ladder!NoReport /\ Reported' = Reported
        BY <2>1, NothingReported DEF Reported
      <3>4. PhaseReached' = "tcp_connect"
        BY <2>1, <3>2 DEF PhaseReached
      <3>5. PhaseReached \in {"dns_lookup", "tcp_connect"}
        BY <3>2 DEF PhaseReached
      <3> QED  BY <2>1, <3>3, <3>4, <3>5 DEF Ladder!Next, Ladder!Advance, Ladder!vars
    <2> QED  BY <2>2, <2>3
  <1>6. CASE DialSucceeds
    <2>1. /\ pc = "dial" /\ pc' = "dialed" /\ conn' = "open" /\ connectStart # NoTime
          /\ UNCHANGED <<target, connectStart, received, firstVerdict, ctxErr, handshakeErr>>
      BY <1>6 DEF DialSucceeds
    <2>2. received = NoTime /\ handshakeErr = "none" /\ conn = "none"
      BY <2>1 DEF IInv, ClockInv, OutcomeInv, BeforeRecord, LadderInv, ErrorInv
    <2>3. PhaseReached = "tcp_connect" /\ PhaseReached' = "version_exchange"
      BY <2>1, <2>2 DEF PhaseReached
    <2>4. Reported = Ladder!NoReport /\ Reported' = Reported
      BY <2>1, NothingReported DEF Reported
    <2> QED  BY <2>1, <2>3, <2>4 DEF Ladder!Next, Ladder!Advance
  <1>7. CASE \E id \in Identifications : ReadIdentification(id)
    <2>1. /\ pc = "version" /\ pc' = "kexinit" /\ received' = now /\ conn = "open"
          /\ UNCHANGED <<target, connectStart, firstVerdict, ctxErr, handshakeErr, conn>>
      BY <1>7 DEF ReadIdentification
    <2>2. received = NoTime /\ handshakeErr = "none" /\ now # NoTime
      BY <2>1 DEF IInv, TypeOK, ClockInv, OutcomeInv, InNewClientConn, NoTime
    <2>3. PhaseReached = "version_exchange" /\ PhaseReached' = "key_exchange"
      BY <2>1, <2>2 DEF PhaseReached
    <2>4. Reported = Ladder!NoReport /\ Reported' = Reported
      BY <2>1, NothingReported DEF Reported
    <2> QED  BY <2>1, <2>3, <2>4 DEF Ladder!Next, Ladder!Advance
  <1>8. CASE \E v \in {"verified"} \cup HostKeyErrors : VerifyFirstKey(v)
    <2>1. PICK v \in {"verified"} \cup HostKeyErrors : VerifyFirstKey(v)
      BY <1>8
    <2>2. /\ pc = "verify" /\ pc' = "newkeys"
          /\ UNCHANGED <<target, connectStart, received, ctxErr, handshakeErr, conn>>
          /\ firstVerdict = "none" /\ firstVerdict' = v
      BY <2>1 DEF VerifyFirstKey, HostKeyCallback, IInv, VerdictInv
    <2>3. received # NoTime /\ handshakeErr = "none"
      BY <2>2 DEF IInv, ClockInv, OutcomeInv, InNewClientConn
    <2>4. PhaseReached = "key_exchange" /\ PhaseReached' = PhaseReached
      BY <2>2, <2>3 DEF PhaseReached
    <2>5. Reported = Ladder!NoReport /\ Reported' = Reported
      BY <2>2, NothingReported DEF Reported
    <2>6. v \in {"verified"} \cup HostKeyReasons
      BY HostKeyErrorsAssumption
    <2> QED  BY <2>2, <2>4, <2>5, <2>6 DEF Ladder!Next, Ladder!Verify
  <1>9. CASE \E macs \in SUBSET Directions : TransportReadyCallback(macs)
    <2>1. /\ pc = "session" /\ pc' = "over" /\ handshakeErr' = "errAbort"
          /\ UNCHANGED <<target, connectStart, received, firstVerdict, ctxErr>>
      BY <1>9 DEF TransportReadyCallback, errAbort
    <2>2. received # NoTime /\ handshakeErr = "none" /\ firstVerdict # "none"
      BY <2>1 DEF IInv, ClockInv, OutcomeInv, VerdictInv, InNewClientConn
    <2>3. PhaseReached = "key_exchange" /\ PhaseReached' = "complete"
      BY <2>1, <2>2 DEF PhaseReached
    <2>4. Reported = Ladder!NoReport /\ Reported' = Reported
      BY <2>1, NothingReported DEF Reported
    <2> QED  BY <2>1, <2>2, <2>3, <2>4 DEF Ladder!Next, Ladder!Advance
  <1>10. CASE Return
    BY <1>10, ReturnStops DEF Ladder!Next
  <1> QED  BY <1>1, <1>2, <1>3, <1>4, <1>5, <1>6, <1>7, <1>8, <1>9, <1>10
           DEF Next, Run, Dialer, Library, Context, Done

\* Run implements the ladder of phases, for any clock and any number of key exchanges:
\* in every behaviour the phases are entered one after the other, and what is returned is
\* the phase reached and a reason of that phase (probe.go:264-394, 461-539).
THEOREM ClimbsTheLadder == Spec => ImplementsPhaseLadder
  <1>1. Spec => []LadderInv
    BY InvHolds, InitLadderInv, NextLadderInv, PTL DEF Spec
  <1> QED
    BY <1>1, InvHolds, InitLadder, NextLadder, PTL DEF Spec, ImplementsPhaseLadder, Ladder!Spec
=============================================================================
