------------------------------- MODULE Probe -------------------------------
(***************************************************************************)
(* One call of probe.Run (internal/probe/probe.go): dial the target, run   *)
(* the SSH transport handshake up to the TransportReadyCallback, abort it  *)
(* there, and report how far the probe got and why it stopped.             *)
(*                                                                         *)
(* The steps of Run interleave with                                        *)
(*   - the dialer, whose connect attempts race each other and each call    *)
(*     ControlContext on a goroutine of their own;                         *)
(*   - the context, which may expire or be cancelled at any moment, and    *)
(*     the context.AfterFunc goroutine that then closes the connection;    *)
(*   - golang.org/x/crypto/ssh, which calls HostKeyCallback on its key     *)
(*     exchange goroutine, once for every key exchange of the connection;  *)
(*   - the server, which may answer, stay silent or hang up.               *)
(*                                                                         *)
(* The dialer, the resolver, x/crypto/ssh and the server are external: they*)
(* are modelled by what Run relies on.  Durations are differences of the   *)
(* clock `now', which is bounded by MaxTime.  "none" stands for an empty   *)
(* string or a nil error of the code.                                      *)
(***************************************************************************)
EXTENDS Integers

CONSTANTS
    MaxTime,            \* bound on the clock
    MaxRekeys,          \* bound on key exchanges after the first
    HostKeyErrors,      \* reasons verifyHostKey may fail with
    Identifications,    \* kinds of identification string the server may send
    StripServerIdentificationComments   \* Options field of the same name

(***************************************************************************)
(* The constants of probe.go: phases and reasons a Result may carry.       *)
(***************************************************************************)
Phases == {"dns_lookup", "tcp_connect", "version_exchange", "key_exchange"}

HostKeyReasons == {"server_host_key_unknown", "server_host_key_mismatch",
                   "server_host_key_revoked", "server_host_key_rejected",
                   "server_host_certificate_invalid"}

NegotiationReasons == {"no_common_kex_algorithm", "no_common_host_key_algorithm",
                       "no_common_cipher", "no_common_mac", "no_common_algorithm"}

Reasons == HostKeyReasons \cup NegotiationReasons \cup
           {"connection_refused", "no_route_to_host", "network_unreachable",
            "dns_failure", "connection_reset", "timeout", "canceled",
            "user_auth_reached", "other"}

(***************************************************************************)
(* Identification strings, by what parseServerIdentification makes of them:*)
(* it rejects them, or they conform to RFC 4253 without or with comments,  *)
(* or they parse but do not conform (a minus in softwareversion, or too    *)
(* long by the CR LF).                                                     *)
(***************************************************************************)
AllIdentifications == {"unparsable", "conformant", "commented", "nonconformant"}

ASSUME MaxTimeAssumption   == MaxTime \in Nat
ASSUME MaxRekeysAssumption == MaxRekeys \in Nat
ASSUME HostKeyErrorsAssumption == HostKeyErrors \subseteq HostKeyReasons
ASSUME IdentificationsAssumption == Identifications \subseteq AllIdentifications
ASSUME StripAssumption == StripServerIdentificationComments \in BOOLEAN

NoTime  == -1                       \* a nil *time.Time
Times   == Nat \cup {NoTime}
Verdict == {"verified"} \cup HostKeyReasons
Directions == {"client_to_server", "server_to_client"}
MSSValues  == {0, 1460}             \* 0: the socket option could not be read

\* Errors of DialContext; "context" is the dialer giving up because ctx is done.
AttemptErrors == {"econnrefused", "ehostunreach", "enetunreach", "econnreset"}
DialErrors == AttemptErrors \cup {"dns", "net_timeout", "context", "other"}

\* Lists on which x/crypto's findAgreedAlgorithms may find nothing in common.
NegotiationLists ==
    {"key exchange", "host key", "client to server cipher",
     "server to client cipher", "client to server MAC", "server to client MAC",
     "client to server compression"}

\* Errors the peer or the network causes during the handshake.
PeerErrors == {"eof", "unexpected_eof", "econnreset", "epipe", "net_timeout", "other"}

\* "closed" is the error of using a connection closed by this process.
HandshakeErrors == PeerErrors \cup NegotiationLists \cup {"closed", "errAbort"}

VARIABLES
    pc,             \* where Run is; "version".."session" are inside NewClientConn
    now,            \* the clock
    ctxErr,         \* ctx.Err()
    target,         \* whether the target is a hostname or an IP literal
    resolved,       \* the dialer has addresses to connect to
    dialStart, connectStart, dialEnd,
    dialErr,
    conn,           \* rawConn
    afterFunc,      \* the context.AfterFunc registered on ctx
    versionExchangeStart,
    received,       \* identificationWatcher.received
    identification, \* identificationWatcher.identification
    handshakeErr,
    hostKeyResultCh,\* the channel of capacity 1: empty or the value it holds
    rekeys,         \* key exchanges the server may still start
    firstVerdict,   \* history: verdict of the first HostKeyCallback
    result

clockVars == <<dialStart, connectStart, dialEnd, versionExchangeStart, received>>
dialVars  == <<target, resolved, dialErr>>
connVars  == <<conn, afterFunc>>
keyVars   == <<hostKeyResultCh, rekeys, firstVerdict>>
vars == <<pc, now, ctxErr, clockVars, dialVars, connVars, identification,
          handshakeErr, keyVars, result>>

InNewClientConn == {"version", "kexinit", "kexreply", "verify", "newkeys", "session"}

Result == [DNSLookup : BOOLEAN, DNSLookupSuccess : BOOLEAN, DNSLookupDuration : Nat,
           TCPConnectSuccess : BOOLEAN, TCPConnectDuration : Nat, TCPMSS : MSSValues,
           ServerIdentification : (AllIdentifications \ {"unparsable"}) \cup {"none"},
           VersionExchangeSuccess : BOOLEAN, VersionExchangeDuration : Nat,
           KeyExchangeSuccess : BOOLEAN, KeyExchangeDuration : Nat,
           \* Algorithms: the key exchange, host key and cipher names are set;
           \* MACs: the directions whose MAC name is not empty
           Algorithms : BOOLEAN, MACs : SUBSET Directions,
           ServerHostKeyVerifySuccess : BOOLEAN,
           ErrorPhase : Phases \cup {"none"}, ErrorReason : Reasons \cup {"none"},
           Duration : Nat, Success : BOOLEAN]

ZeroResult ==
    [DNSLookup |-> FALSE, DNSLookupSuccess |-> FALSE, DNSLookupDuration |-> 0,
     TCPConnectSuccess |-> FALSE, TCPConnectDuration |-> 0, TCPMSS |-> 0,
     ServerIdentification |-> "none",
     VersionExchangeSuccess |-> FALSE, VersionExchangeDuration |-> 0,
     KeyExchangeSuccess |-> FALSE, KeyExchangeDuration |-> 0,
     Algorithms |-> FALSE, MACs |-> {},
     ServerHostKeyVerifySuccess |-> FALSE,
     ErrorPhase |-> "none", ErrorReason |-> "none", Duration |-> 0, Success |-> FALSE]

Init ==
    /\ pc = "start"
    /\ now = 0
    /\ ctxErr \in {"none", "canceled"}      \* the caller may be gone already
    /\ target \in {"hostname", "ip"}
    /\ resolved = (target = "ip")
    /\ dialStart = NoTime /\ connectStart = NoTime /\ dialEnd = NoTime
    /\ dialErr = "none"
    /\ conn = "none"
    /\ afterFunc = "unset"
    /\ versionExchangeStart = NoTime
    /\ received = NoTime
    /\ identification = "none"
    /\ handshakeErr = "none"
    /\ hostKeyResultCh = "empty"
    /\ rekeys = 0
    /\ firstVerdict = "none"
    /\ result = ZeroResult

-----------------------------------------------------------------------------
(***************************************************************************)
(* Classification of errors.                                               *)
(***************************************************************************)
\* Variant of classifyContextError that does not tell the ends of a context apart.
AnyEndIsCanceled(err) == IF err = "none" THEN "none" ELSE "canceled"

classifyContextError(err) ==
    CASE err = "deadline" -> "timeout"
      [] err = "canceled" -> "canceled"
      [] OTHER -> "none"

classifyDialError(ctx, err) ==
    IF classifyContextError(ctx) # "none" THEN classifyContextError(ctx)
    ELSE CASE err = "net_timeout"  -> "timeout"
           [] err = "econnrefused" -> "connection_refused"
           [] err = "ehostunreach" -> "no_route_to_host"
           [] err = "enetunreach"  -> "network_unreachable"
           [] err = "econnreset"   -> "connection_reset"
           [] err = "dns"          -> "dns_failure"
           [] OTHER -> "other"

classifyNegotiationError(what) ==
    CASE what = "key exchange" -> "no_common_kex_algorithm"
      [] what = "host key"     -> "no_common_host_key_algorithm"
      [] what \in {"client to server cipher", "server to client cipher"} -> "no_common_cipher"
      [] what \in {"client to server MAC", "server to client MAC"}       -> "no_common_mac"
      [] OTHER -> "no_common_algorithm"

\* The reason without regard to the context.
KexErrorAlone(ctx, err) ==
    CASE err \in NegotiationLists -> classifyNegotiationError(err)
      [] err = "net_timeout"      -> "timeout"
      [] err \in {"eof", "unexpected_eof", "econnreset", "epipe"} -> "connection_reset"
      [] OTHER -> "other"

classifyKexError(ctx, err) ==
    IF classifyContextError(ctx) # "none" THEN classifyContextError(ctx)
    ELSE KexErrorAlone(ctx, err)

\* parseServerIdentification and withoutComments, on kinds of identification.
parseServerIdentification(id) == IF id = "unparsable" THEN "none" ELSE id
withoutComments(id) == IF id = "commented" THEN "conformant" ELSE id

-----------------------------------------------------------------------------
(***************************************************************************)
(* The context and the clock.                                              *)
(***************************************************************************)
Tick ==
    /\ pc # "done"          \* nothing reads the clock after the return
    /\ now < MaxTime
    /\ now' = now + 1
    /\ UNCHANGED <<pc, ctxErr, clockVars, dialVars, connVars, identification,
                   handshakeErr, keyVars, result>>

\* The effective timeout expires, or the scraper goes away.
ContextEnds(err) ==
    /\ ctxErr = "none"
    /\ ctxErr' = err
    /\ UNCHANGED <<pc, now, clockVars, dialVars, connVars, identification,
                   handshakeErr, keyVars, result>>

Deadline == ContextEnds("deadline")
Cancel   == ContextEnds("canceled")

\* context.AfterFunc starts its function on a goroutine of its own; from then
\* on stop() does not prevent it.
AfterFuncStarts ==
    /\ afterFunc = "armed"
    /\ ctxErr # "none"
    /\ afterFunc' = "running"
    /\ UNCHANGED <<pc, now, ctxErr, clockVars, dialVars, conn, identification,
                   handshakeErr, keyVars, result>>

AfterFuncCloses ==
    /\ afterFunc = "running"
    /\ afterFunc' = "fired"
    /\ conn' = "closed"
    /\ UNCHANGED <<pc, now, ctxErr, clockVars, dialVars, identification,
                   handshakeErr, keyVars, result>>

-----------------------------------------------------------------------------
(***************************************************************************)
(* Dialing.                                                                *)
(***************************************************************************)
StartDial ==
    /\ pc = "start"
    /\ pc' = "dial"
    /\ dialStart' = now
    /\ UNCHANGED <<now, ctxErr, connectStart, dialEnd, versionExchangeStart, received,
                   dialVars, connVars, identification, handshakeErr, keyVars, result>>

LookupSucceeds ==
    /\ pc = "dial"
    /\ ~resolved
    /\ resolved' = TRUE
    /\ UNCHANGED <<pc, now, ctxErr, clockVars, target, dialErr, connVars,
                   identification, handshakeErr, keyVars, result>>

\* Variant of CompareAndSwap that stores the time of every attempt.
StoreEveryAttempt == now

CompareAndSwap == IF connectStart = NoTime THEN now ELSE connectStart

\* Called for every connect attempt; only the first one's time is kept.  The dialer
\* starts no attempt and returns no connection once ctx is done; a context that ends
\* between that check and the step is one that ends right after the step.  An attempt
\* that lost the dual-stack race may still call it after DialContext has returned the
\* winner's connection.
ControlContext ==
    /\ (pc = "dial" /\ ctxErr = "none") \/ (pc = "dialed" /\ dialErr = "none")
    /\ resolved
    /\ connectStart' = CompareAndSwap
    /\ UNCHANGED <<pc, now, ctxErr, dialStart, dialEnd, versionExchangeStart, received,
                   dialVars, connVars, identification, handshakeErr, keyVars, result>>

DialSucceeds ==
    /\ pc = "dial"
    /\ ctxErr = "none"
    /\ connectStart # NoTime
    /\ pc' = "dialed"
    /\ dialEnd' = now
    /\ conn' = "open"
    /\ UNCHANGED <<now, ctxErr, dialStart, connectStart, versionExchangeStart, received,
                   dialVars, afterFunc, identification, handshakeErr, keyVars, result>>

\* A socket can fail before ControlContext runs, so that "other" and
\* "net_timeout" need no attempt.
DialFails(err) ==
    /\ pc = "dial"
    /\ err = "dns" => ~resolved
    /\ err \in AttemptErrors => connectStart # NoTime
    /\ err = "context" => ctxErr # "none"
    /\ pc' = "dialed"
    /\ dialErr' = err
    /\ dialEnd' = now
    /\ UNCHANGED <<now, ctxErr, dialStart, connectStart, versionExchangeStart, received,
                   target, resolved, connVars, identification, handshakeErr, keyVars,
                   result>>

\* The part of the result that is derived from connectStart.
DNSLookupSucceeded == target = "hostname" /\ connectStart # NoTime

WithDNSLookup(r) ==
    [r EXCEPT !.DNSLookup = (target = "hostname"),
              !.DNSLookupSuccess = DNSLookupSucceeded,
              !.DNSLookupDuration = IF DNSLookupSucceeded THEN connectStart - dialStart
                                                          ELSE 0]

RecordDialError ==
    /\ pc = "dialed"
    /\ dialErr # "none"
    /\ pc' = "return"
    /\ result' = [WithDNSLookup(result) EXCEPT
                    !.ErrorPhase = IF target = "hostname" /\ ~DNSLookupSucceeded
                                   THEN "dns_lookup" ELSE "tcp_connect",
                    !.ErrorReason = classifyDialError(ctxErr, dialErr)]
    /\ UNCHANGED <<now, ctxErr, clockVars, dialVars, connVars, identification,
                   handshakeErr, keyVars>>

RecordConnected(mss) ==
    /\ pc = "dialed"
    /\ dialErr = "none"
    /\ pc' = "connected"
    /\ result' = [WithDNSLookup(result) EXCEPT
                    !.TCPConnectSuccess = TRUE,
                    !.TCPConnectDuration =
                        dialEnd - (IF connectStart # NoTime THEN connectStart ELSE dialStart),
                    !.TCPMSS = mss]
    /\ UNCHANGED <<now, ctxErr, clockVars, dialVars, connVars, identification,
                   handshakeErr, keyVars>>

-----------------------------------------------------------------------------
(***************************************************************************)
(* The handshake inside ssh.NewClientConn.  On any error NewClientConn     *)
(* closes the connection it was given.                                     *)
(***************************************************************************)
\* Variant of forceClose that does not arm it.
NoForceClose == "unset"

forceClose == "armed"

StartHandshake ==
    /\ pc = "connected"
    /\ pc' = "version"
    /\ afterFunc' = forceClose
    /\ versionExchangeStart' = now
    /\ UNCHANGED <<now, ctxErr, dialStart, connectStart, dialEnd, received, dialVars,
                   conn, identification, handshakeErr, keyVars, result>>

\* The line starting with "SSH-" is read; identificationWatcher sees its end at
\* the same byte as x/crypto's readVersion.
ReadIdentification(id) ==
    /\ pc = "version"
    /\ conn = "open"
    /\ pc' = "kexinit"
    /\ received' = now
    /\ identification' = id
    /\ UNCHANGED <<now, ctxErr, dialStart, connectStart, dialEnd, versionExchangeStart,
                   dialVars, connVars, handshakeErr, keyVars, result>>

\* The steps below have no guard on conn: the packet may have been read before
\* the connection was closed.
LibraryStep(from, to) ==
    /\ pc = from
    /\ pc' = to
    /\ UNCHANGED <<now, ctxErr, clockVars, dialVars, connVars, identification,
                   handshakeErr, hostKeyResultCh, firstVerdict, result>>

AgreeAlgorithms == LibraryStep("kexinit", "kexreply") /\ UNCHANGED rekeys
ReadKexReply    == LibraryStep("kexreply", "verify") /\ UNCHANGED rekeys
ReadNewKeys     == LibraryStep("newkeys", "session") /\ rekeys' = MaxRekeys

HandshakeFails(err) ==
    /\ pc' = "over"
    /\ handshakeErr' = err
    /\ conn' = "closed"
    /\ UNCHANGED <<now, ctxErr, clockVars, dialVars, afterFunc, identification, keyVars,
                   result>>

NegotiationFails(what) == pc = "kexinit" /\ HandshakeFails(what)

PeerFails(err) ==
    /\ pc \in {"version", "kexinit", "kexreply", "newkeys"}
    /\ conn = "open"
    /\ HandshakeFails(err)

UseOfClosedConn ==
    /\ pc \in {"version", "kexinit", "kexreply", "newkeys"}
    /\ conn = "closed"
    /\ HandshakeFails("closed")

\* Variants of send: the channel has no buffer, and nobody receives yet; the newest
\* verdict replaces the one waiting.
SendUnbuffered(v) == hostKeyResultCh
SendReplacing(v)  == v

\* The select that sends: a verdict that finds the channel full is dropped.
send(v) == IF hostKeyResultCh = "empty" THEN v ELSE hostKeyResultCh

\* The callback never blocks and never fails.
HostKeyCallback(v) ==
    /\ hostKeyResultCh' = send(v)
    /\ firstVerdict' = IF firstVerdict = "none" THEN v ELSE firstVerdict

VerifyFirstKey(v) ==
    /\ pc = "verify"
    /\ pc' = "newkeys"
    /\ HostKeyCallback(v)
    /\ UNCHANGED <<now, ctxErr, clockVars, dialVars, connVars, identification,
                   handshakeErr, rekeys, result>>

\* The server may start another key exchange as soon as the first is complete;
\* the callback of one already under way may run after Run has returned.
VerifyRekey(v) ==
    /\ rekeys > 0
    /\ rekeys' = rekeys - 1
    /\ HostKeyCallback(v)
    /\ UNCHANGED <<pc, now, ctxErr, clockVars, dialVars, connVars, identification,
                   handshakeErr, result>>

\* Variant of keyExchangeDuration that starts with the version exchange.
DurationFromVersionStart == now - versionExchangeStart

keyExchangeDuration == IF received # NoTime THEN now - received ELSE 0

\* Variant of errAbort that errors.Is does not recognise.
OtherError == "other"

errAbort == "errAbort"

TransportReadyCallback(macs) ==
    /\ pc = "session"
    /\ pc' = "over"
    /\ handshakeErr' = errAbort
    /\ conn' = "closed"
    /\ result' = [result EXCEPT !.KeyExchangeDuration = keyExchangeDuration,
                                !.Algorithms = TRUE,
                                !.MACs = macs]
    /\ UNCHANGED <<now, ctxErr, clockVars, dialVars, afterFunc, identification, keyVars>>

-----------------------------------------------------------------------------
(***************************************************************************)
(* After the handshake: recording its outcome and returning.               *)
(***************************************************************************)
WithVersionExchange(r) ==
    IF received = NoTime THEN r
    ELSE [r EXCEPT !.VersionExchangeSuccess = TRUE,
                   !.VersionExchangeDuration = received - versionExchangeStart,
                   !.ServerIdentification =
                      IF StripServerIdentificationComments
                      THEN withoutComments(parseServerIdentification(identification))
                      ELSE parseServerIdentification(identification)]

\* Variant of failedPhase that charges every failure to the key exchange.
KeyExchangePhase(r) == "key_exchange"

failedPhase(r) == IF r.VersionExchangeSuccess THEN "key_exchange" ELSE "version_exchange"

\* handshakeErr = "none" is the branch the code calls unreachable while the
\* callback returns errAbort.
RecordHandshake ==
    /\ pc = "over"
    /\ pc' = "hostkey"
    /\ LET r == WithVersionExchange(result) IN
       result' =
         IF handshakeErr = "errAbort"
         THEN [r EXCEPT !.KeyExchangeSuccess = TRUE]
         ELSE IF handshakeErr = "none"
         THEN [r EXCEPT !.ErrorPhase = "key_exchange", !.ErrorReason = "user_auth_reached"]
         ELSE [r EXCEPT !.ErrorPhase = failedPhase(r),
                        !.ErrorReason = classifyKexError(ctxErr, handshakeErr)]
    /\ UNCHANGED <<now, ctxErr, clockVars, dialVars, connVars, identification,
                   handshakeErr, keyVars>>

\* The verdict waiting in the channel, if there is one, outranks the outcome
\* of the handshake.
WithHostKey(r) ==
    IF hostKeyResultCh = "empty" THEN r
    ELSE IF hostKeyResultCh = "verified" THEN [r EXCEPT !.ServerHostKeyVerifySuccess = TRUE]
    ELSE [r EXCEPT !.ServerHostKeyVerifySuccess = FALSE,
                   !.ErrorPhase = "key_exchange",
                   !.ErrorReason = hostKeyResultCh]

RecordHostKey ==
    /\ pc = "hostkey"
    /\ pc' = "return"
    /\ hostKeyResultCh' = "empty"
    /\ LET r == WithHostKey(result)
       IN  result' = [r EXCEPT !.Success = /\ r.ErrorPhase = "none"
                                           /\ r.KeyExchangeSuccess
                                           /\ r.ServerHostKeyVerifySuccess]
    /\ UNCHANGED <<now, ctxErr, clockVars, dialVars, connVars, identification,
                   handshakeErr, rekeys, firstVerdict>>

\* The deferred calls: disarm the force-close, close the connection, take the
\* duration.  After a failed dial there is only the duration.
Return ==
    /\ pc = "return"
    /\ pc' = "done"
    /\ afterFunc' = IF afterFunc = "armed" THEN "stopped" ELSE afterFunc
    /\ conn' = IF conn = "none" THEN "none" ELSE "closed"
    /\ result' = [result EXCEPT !.Duration = now]
    /\ UNCHANGED <<now, ctxErr, clockVars, dialVars, identification, handshakeErr,
                   keyVars>>

Done == pc = "done" /\ UNCHANGED vars

-----------------------------------------------------------------------------
Run ==
    \/ StartDial \/ RecordDialError \/ \E mss \in MSSValues : RecordConnected(mss)
    \/ StartHandshake \/ RecordHandshake \/ RecordHostKey \/ Return

Dialer ==
    \/ LookupSucceeds \/ ControlContext \/ DialSucceeds
    \/ \E err \in DialErrors : DialFails(err)

Library ==
    \/ \E id \in Identifications : ReadIdentification(id)
    \/ AgreeAlgorithms \/ ReadKexReply \/ ReadNewKeys
    \/ \E what \in NegotiationLists : NegotiationFails(what)
    \/ \E err \in PeerErrors : PeerFails(err)
    \/ UseOfClosedConn
    \/ \E v \in {"verified"} \cup HostKeyErrors : VerifyFirstKey(v) \/ VerifyRekey(v)
    \/ \E macs \in SUBSET Directions : TransportReadyCallback(macs)

Context == Deadline \/ Cancel \/ AfterFuncStarts \/ AfterFuncCloses

Next == Run \/ Dialer \/ Library \/ Context \/ Tick \/ Done

Spec == Init /\ [][Next]_vars

(***************************************************************************)
(* Fairness: Run's own goroutine and the callbacks it is called back on    *)
(* keep running, the deadline of the context expires, the dialer gives up  *)
(* when it does, and a closed connection fails.  Nothing is assumed of the *)
(* resolver, the network or the server.                                    *)
(***************************************************************************)
Fairness ==
    /\ WF_vars(Run)
    /\ WF_vars(Deadline)
    /\ WF_vars(AfterFuncStarts)
    /\ WF_vars(AfterFuncCloses)
    /\ WF_vars(DialFails("context"))
    /\ WF_vars(UseOfClosedConn)
    /\ WF_vars(\E v \in {"verified"} \cup HostKeyErrors : VerifyFirstKey(v))
    /\ WF_vars(\E macs \in SUBSET Directions : TransportReadyCallback(macs))

FairSpec == Spec /\ Fairness

-----------------------------------------------------------------------------
(***************************************************************************)
(* Properties.                                                             *)
(***************************************************************************)
\* Every variable has its type; in particular no duration that Run subtracts
\* from two clock readings (probe.go:275, 292, 334, 351) is ever negative.
TypeOK ==
    /\ pc \in InNewClientConn \cup {"start", "dial", "dialed", "connected", "over",
                                    "hostkey", "return", "done"}
    /\ now \in Nat
    /\ ctxErr \in {"none", "deadline", "canceled"}
    /\ target \in {"hostname", "ip"}
    /\ resolved \in BOOLEAN
    /\ dialStart \in Times /\ connectStart \in Times /\ dialEnd \in Times
    /\ dialErr \in DialErrors \cup {"none"}
    /\ conn \in {"none", "open", "closed"}
    /\ afterFunc \in {"unset", "armed", "running", "fired", "stopped"}
    /\ versionExchangeStart \in Times
    /\ received \in Times
    /\ identification \in AllIdentifications \cup {"none"}
    /\ handshakeErr \in HandshakeErrors \cup {"none"}
    /\ hostKeyResultCh \in Verdict \cup {"empty"}
    /\ rekeys \in Nat
    /\ firstVerdict \in Verdict \cup {"none"}
    /\ result \in Result

\* The phases of a returned result succeed in order, and the failed phase is the
\* first that did not succeed; only a rejected host key is charged to a key
\* exchange that completed (probe.go:279-286, 364-392).
PhaseOrder ==
    pc = "done" =>
      /\ result.KeyExchangeSuccess => result.VersionExchangeSuccess
      /\ result.VersionExchangeSuccess => result.TCPConnectSuccess
      /\ result.TCPConnectSuccess /\ result.DNSLookup => result.DNSLookupSuccess
      /\ result.ErrorPhase = "dns_lookup" <=> (result.DNSLookup /\ ~result.DNSLookupSuccess)
      /\ result.ErrorPhase = "tcp_connect" <=>
            /\ ~result.TCPConnectSuccess
            /\ result.DNSLookup => result.DNSLookupSuccess
      /\ result.ErrorPhase = "version_exchange" <=>
            (result.TCPConnectSuccess /\ ~result.VersionExchangeSuccess)
      /\ result.ErrorPhase = "key_exchange" <=>
            /\ result.VersionExchangeSuccess
            /\ ~(result.KeyExchangeSuccess /\ result.ServerHostKeyVerifySuccess)

\* A returned result is either a success, with every phase completed, all
\* algorithms recorded and the host key verified, or carries both a phase and a
\* reason: ssh_transport_success 0 never comes without an explanation.  It rests
\* on HostKeyCallback having run before NewClientConn returns (probe.go:384-394).
FailureExplained ==
    pc = "done" =>
      /\ result.Success <=> result.ErrorPhase = "none"
      /\ result.Success <=> result.ErrorReason = "none"
      /\ result.Success => /\ result.KeyExchangeSuccess
                           /\ result.Algorithms
                           /\ firstVerdict = "verified"

\* The verdict that is reported is the one of the first key exchange, whatever
\* later key exchanges of the same connection said and however the handshake
\* ended; a failed one is the reason reported (probe.go:190-195, 324-327, 383-392).
VerdictIsFirst ==
    pc = "done" =>
      /\ result.ServerHostKeyVerifySuccess <=> firstVerdict = "verified"
      /\ firstVerdict \in HostKeyReasons =>
            result.ErrorPhase = "key_exchange" /\ result.ErrorReason = firstVerdict

\* An error that Run caused itself, by closing the connection when the context
\* ended, is blamed on the context and never reported as a failure of the server
\* (probe.go:302-305, 461-472).
OwnCloseBlamedOnContext ==
    (pc = "done" /\ handshakeErr = "closed" /\ firstVerdict \notin HostKeyReasons) =>
        result.ErrorReason = classifyContextError(ctxErr) /\ ctxErr # "none"

\* The durations of the phases do not overlap: together they fit into the
\* duration of the probe, with connect attempts that race each other too
\* (probe.go:240, 256-263, 275, 292, 334, 351).
DurationsFit ==
    pc = "done" =>
      result.DNSLookupDuration + result.TCPConnectDuration
        + result.VersionExchangeDuration + result.KeyExchangeDuration <= result.Duration

(***************************************************************************)
(* Probe as a PhaseLadder: the phase is the last one that was entered, the *)
(* verdict the first one, and the report the result that is returned.      *)
(***************************************************************************)
PhaseReached ==
    IF handshakeErr = "errAbort" THEN "complete"
    ELSE IF received # NoTime THEN "key_exchange"
    ELSE IF conn # "none" THEN "version_exchange"
    ELSE IF connectStart # NoTime \/ target = "ip" THEN "tcp_connect"
    ELSE "dns_lookup"

PhasesSucceeded(r) ==
    {p \in Phases : \/ p = "dns_lookup" /\ r.DNSLookup /\ r.DNSLookupSuccess
                    \/ p = "tcp_connect" /\ r.TCPConnectSuccess
                    \/ p = "version_exchange" /\ r.VersionExchangeSuccess
                    \/ p = "key_exchange" /\ r.KeyExchangeSuccess}

Reported ==
    IF pc # "done"
    THEN [completed |-> {}, verified |-> FALSE, success |-> FALSE,
          phase |-> "none", reason |-> "none"]
    ELSE [completed |-> PhasesSucceeded(result),
          verified |-> result.ServerHostKeyVerifySuccess, success |-> result.Success,
          phase |-> result.ErrorPhase, reason |-> result.ErrorReason]

Ladder == INSTANCE PhaseLadder WITH
    phase   <- PhaseReached,
    verdict <- firstVerdict,
    context <- ctxErr,
    report  <- Reported

\* Run implements the ladder of phases.  "Probing proceeds strictly in this order", the
\* phase reported "is the last one the probe reached" and the reason is one of that phase
\* (README.md:493-530), however the dialer, the library and the context interleave with
\* the steps that fill in the result (probe.go:264-394, 461-539).
ImplementsPhaseLadder == Ladder!Spec

\* Run returns, whatever the resolver, the network and the server do: the context
\* bounds the dial and, through the force-close, the handshake (probe.go:264-305).
Termination == <>(pc = "done")

\* collector.go:42 says of ssh_transport_dns_lookup_success that it tells "Whether
\* the target hostname was resolved"; probe.go:271-276 sets it when a connect
\* attempt was started.
ResolvedIsReported ==
    (pc = "done" /\ target = "hostname" /\ resolved) => result.DNSLookupSuccess
=============================================================================
