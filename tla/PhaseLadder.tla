---------------------------- MODULE PhaseLadder ----------------------------
(***************************************************************************)
(* What Run promises whoever reads its result.  A probe passes through its *)
(* phases one at a time and in their order, judges the host key once, in   *)
(* the last of them, and stops once: with success after the last phase, or *)
(* with the phase it had reached and a reason that belongs to that phase.  *)
(* A rejected host key comes first.                                        *)
(***************************************************************************)
CONSTANTS
    HostKeyReasons,     \* reasons to reject a host key
    NegotiationReasons  \* algorithms on which client and server do not agree

VARIABLES
    target,     \* "hostname" or "ip"; an IP literal needs no lookup
    phase,      \* the phase the probe is in; "complete" after the last
    verdict,    \* on the host key: "none", "verified" or why it is rejected
    context,    \* whether and how the context has ended
    report

vars == <<target, phase, verdict, context, report>>

Phases == {"dns_lookup", "tcp_connect", "version_exchange", "key_exchange"}

\* The phases before p; those that a probe in p has completed.
Before(p) ==
    {q \in Phases :
       \/ q = "dns_lookup" /\ p # "dns_lookup"
       \/ q = "tcp_connect" /\ p \in {"version_exchange", "key_exchange", "complete"}
       \/ q = "version_exchange" /\ p \in {"key_exchange", "complete"}
       \/ q = "key_exchange" /\ p = "complete"}

Completed == Before(phase) \ (IF target = "hostname" THEN {} ELSE {"dns_lookup"})

\* What a failure of the phase may be explained with, other than a rejected host key.
\* Whoever reads "canceled" knows that the caller was gone, and a probe that found no
\* common algorithm has seen no host key.
Causes ==
    {"timeout", "other"}
    \cup (IF context = "canceled" THEN {"canceled"} ELSE {})
    \cup (IF phase = "dns_lookup" THEN {"dns_failure"} ELSE {"connection_reset"})
    \cup (IF phase = "tcp_connect"
          THEN {"connection_refused", "no_route_to_host", "network_unreachable"} ELSE {})
    \cup (IF phase = "key_exchange" /\ verdict = "none" THEN NegotiationReasons ELSE {})

Report(success, errorPhase, errorReason) ==
    [completed |-> Completed, verified |-> verdict = "verified", success |-> success,
     phase |-> errorPhase, reason |-> errorReason]

\* Nothing is reported before Run returns.
NoReport == [completed |-> {}, verified |-> FALSE, success |-> FALSE,
             phase |-> "none", reason |-> "none"]

Init ==
    /\ target \in {"hostname", "ip"}
    /\ phase = IF target = "hostname" THEN "dns_lookup" ELSE "tcp_connect"
    /\ verdict = "none"
    /\ context \in {"none", "canceled"}
    /\ report = NoReport

\* The key exchange is not completed without a verdict.
Advance ==
    /\ report = NoReport
    /\ \/ phase = "dns_lookup" /\ phase' = "tcp_connect"
       \/ phase = "tcp_connect" /\ phase' = "version_exchange"
       \/ phase = "version_exchange" /\ phase' = "key_exchange"
       \/ phase = "key_exchange" /\ verdict # "none" /\ phase' = "complete"
    /\ UNCHANGED <<target, verdict, context, report>>

Verify(v) ==
    /\ report = NoReport
    /\ phase = "key_exchange"
    /\ verdict = "none"
    /\ verdict' = v
    /\ UNCHANGED <<target, phase, context, report>>

ContextEnds(err) ==
    /\ context = "none"
    /\ context' = err
    /\ UNCHANGED <<target, phase, verdict, report>>

Succeed ==
    /\ phase = "complete"
    /\ verdict = "verified"
    /\ report' = Report(TRUE, "none", "none")

Reject ==
    /\ verdict \in HostKeyReasons
    /\ report' = Report(FALSE, "key_exchange", verdict)

Fail ==
    /\ phase # "complete"
    /\ verdict \notin HostKeyReasons
    /\ \E reason \in Causes : report' = Report(FALSE, phase, reason)

Stop ==
    /\ report = NoReport
    /\ Succeed \/ Reject \/ Fail
    /\ UNCHANGED <<target, phase, verdict, context>>

Next ==
    \/ Advance \/ Stop
    \/ \E v \in {"verified"} \cup HostKeyReasons : Verify(v)
    \/ \E err \in {"deadline", "canceled"} : ContextEnds(err)

Spec == Init /\ [][Next]_vars
=============================================================================
