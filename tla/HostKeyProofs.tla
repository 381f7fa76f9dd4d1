--------------------------- MODULE HostKeyProofs ---------------------------
(***************************************************************************)
(* Proofs about HostKey: whatever keys there are and whatever known_hosts  *)
(* says about them, a key is accepted exactly if known_hosts vouches for   *)
(* it, and a rejection names its cause.                                    *)
(*                                                                         *)
(* The callback judges once and from its inputs alone, so the inductive    *)
(* invariant says that the verdict is the one of these inputs.  What the   *)
(* lookups return is stated first, as lemmas about any known_hosts and any *)
(* presented key: the proofs of the properties rest on those alone.        *)
(***************************************************************************)
EXTENDS HostKey, TLAPS

\* The verdict that the callback sends.
Verdict(kh, k) ==
    IF verifyHostKey(kh, k) = "nil" THEN "verified"
    ELSE classifyHostKeyVerifyError(verifyHostKey(kh, k))

\* Without a callback there are no lines to look at.
Loaded(kh) == ~kh.configured => kh.listed \cup kh.authorities \cup kh.revoked = {}

IInv ==
    /\ knownHosts \in KnownHosts /\ Loaded(knownHosts)
    /\ key \in Presented
    /\ verdict # "pending" => verdict = Verdict(knownHosts, key)

-----------------------------------------------------------------------------
(***************************************************************************)
(* What the lookups return.                                                *)
(***************************************************************************)
\* A host key by itself: revoked, listed, or with one of the two key errors
\* (knownhosts as verifyHostKey uses it, probe.go:410-440).
LEMMA PlainLookup ==
    ASSUME NEW kh \in KnownHosts, NEW x, kh.configured
    PROVE  /\ check(kh, Plain(x)) = "RevokedError" <=> x \in kh.revoked
           /\ check(kh, Plain(x)) = "nil" <=>
                x \notin kh.revoked /\ x \in kh.listed \cup kh.authorities
           /\ check(kh, Plain(x)) = "KeyError with empty Want" <=>
                x \notin kh.revoked /\ kh.listed \cup kh.authorities = {}
           /\ check(kh, Plain(x)) = "KeyError" <=>
                /\ x \notin kh.revoked \cup kh.listed \cup kh.authorities
                /\ kh.listed \cup kh.authorities # {}
           /\ check(kh, Plain(x)) \in {"RevokedError", "nil"} \cup KeyErrors
  BY DEF check, Plain, KeyErrors, KnownHosts

\* Without a callback every lookup of a key fails with an error of no known kind.
LEMMA NoLookup ==
    ASSUME NEW kh, NEW k, ~kh.configured
    PROVE  check(kh, k) = "other"
  BY DEF check

\* A presented key is a certificate or plain, and a plain key is what Plain makes of it.
LEMMA PresentedCases ==
    ASSUME NEW k \in Presented
    PROVE  \/ k.cert /\ k \in Certificates
           \/ ~k.cert /\ k = Plain(k.key) /\ k.ca = k.key
  <1>1. CASE k \in Certificates
    BY <1>1 DEF Certificates
  <1>2. CASE \E x \in Keys : k = Plain(x)
    BY <1>2 DEF Plain
  <1> QED  BY <1>1, <1>2 DEF Presented

\* A certificate passes the lookup if its CA is trusted, it is valid and neither it nor
\* its CA is revoked.
LEMMA CertificateLookup ==
    ASSUME NEW kh \in KnownHosts, NEW k \in Presented, kh.configured, k.cert
    PROVE  check(kh, k) = "nil" <=>
             /\ k.ca \in kh.authorities /\ k.valid
             /\ k.key \notin kh.revoked /\ k.ca \notin kh.revoked
  BY DEF check

-----------------------------------------------------------------------------
(***************************************************************************)
(* What verifyHostKey makes of the lookups.                                *)
(***************************************************************************)
IsRevoked(kh, k) == k.key \in kh.revoked \/ k.ca \in kh.revoked
LinesOf(kh) == kh.listed \cup kh.authorities
Vouched(kh, k) ==
    /\ k.cert /\ k.valid
    /\ k.ca \in kh.authorities
    /\ k.format \in caSignatureAlgorithms

\* A plain key is judged by its own lookup.
LEMMA PlainJudged ==
    ASSUME NEW kh \in KnownHosts, NEW k \in Presented, kh.configured, ~k.cert
    PROVE  /\ verifyHostKey(kh, k) = "nil" <=> ~IsRevoked(kh, k) /\ k.key \in LinesOf(kh)
           /\ verifyHostKey(kh, k) = "RevokedError" <=> IsRevoked(kh, k)
           /\ verifyHostKey(kh, k) = "KeyError with empty Want" <=>
                ~IsRevoked(kh, k) /\ LinesOf(kh) = {}
           /\ verifyHostKey(kh, k) = "KeyError" <=>
                ~IsRevoked(kh, k) /\ LinesOf(kh) # {} /\ k.key \notin LinesOf(kh)
           /\ verifyHostKey(kh, k) \in {"RevokedError", "nil"} \cup KeyErrors
  <1>1. k = Plain(k.key) /\ k.ca = k.key
    BY PresentedCases
  <1>2. verifyHostKey(kh, k) = check(kh, Plain(k.key))
    BY <1>1 DEF verifyHostKey
  <1> HIDE DEF Plain
  <1> QED  BY <1>1, <1>2, PlainLookup DEF IsRevoked, LinesOf

\* The lookup of a revoked CA outranks the lookup of the key inside the certificate, and
\* a key error is put down to the certificate only if its CA has a line for the target
\* (probe.go:419-440).
LEMMA FallenBack ==
    ASSUME NEW kh \in KnownHosts, NEW k, kh.configured
    PROVE  /\ fallBack(kh, k) = "nil" <=> ~IsRevoked(kh, k) /\ k.key \in LinesOf(kh)
           /\ fallBack(kh, k) = "RevokedError" <=> IsRevoked(kh, k)
           /\ fallBack(kh, k) = "errHostCertificateInvalid" <=>
                ~IsRevoked(kh, k) /\ k.key \notin LinesOf(kh) /\ k.ca \in LinesOf(kh)
           /\ fallBack(kh, k) = "KeyError with empty Want" <=>
                ~IsRevoked(kh, k) /\ LinesOf(kh) = {}
           /\ fallBack(kh, k) = "KeyError" <=>
                ~IsRevoked(kh, k) /\ LinesOf(kh) # {} /\ {k.key, k.ca} \cap LinesOf(kh) = {}
           /\ fallBack(kh, k) \in {"RevokedError", "nil", "errHostCertificateInvalid"}
                                    \cup KeyErrors
  <1> DEFINE ca    == check(kh, Plain(k.ca))
             plain == check(kh, Plain(k.key))
  <1>1. /\ ca = "RevokedError" <=> k.ca \in kh.revoked
        /\ ca = "nil" <=> k.ca \notin kh.revoked /\ k.ca \in LinesOf(kh)
        /\ ca = "KeyError with empty Want" <=> k.ca \notin kh.revoked /\ LinesOf(kh) = {}
        /\ ca \in {"RevokedError", "nil"} \cup KeyErrors
    BY PlainLookup DEF LinesOf
  <1>2. /\ plain = "RevokedError" <=> k.key \in kh.revoked
        /\ plain = "nil" <=> k.key \notin kh.revoked /\ k.key \in LinesOf(kh)
        /\ plain = "KeyError with empty Want" <=> k.key \notin kh.revoked /\ LinesOf(kh) = {}
        /\ plain \in {"RevokedError", "nil"} \cup KeyErrors
    BY PlainLookup DEF LinesOf
  <1>3. fallBack(kh, k) =
          IF ca = "RevokedError" THEN ca
          ELSE IF plain \in KeyErrors /\ ca = "nil" THEN "errHostCertificateInvalid"
          ELSE plain
    BY DEF fallBack
  <1> HIDE DEF ca, plain
  <1> QED  BY <1>1, <1>2, <1>3 DEF IsRevoked, KeyErrors

\* A certificate that the CA vouches for is accepted, any other is judged by the
\* fallback.
LEMMA CertificateJudged ==
    ASSUME NEW kh \in KnownHosts, NEW k \in Presented, kh.configured, k.cert
    PROVE  verifyHostKey(kh, k) =
             IF Vouched(kh, k) /\ ~IsRevoked(kh, k) THEN "nil" ELSE fallBack(kh, k)
  BY CertificateLookup DEF verifyHostKey, Vouched, IsRevoked

\* Without a callback the verdict is that of an error of no known kind.
LEMMA Unconfigured ==
    ASSUME NEW kh, NEW k, ~kh.configured
    PROVE  verifyHostKey(kh, k) = "other" /\ Verdict(kh, k) = "server_host_key_rejected"
  <1>1. check(kh, k) = "other" /\ fallBack(kh, k) = "other"
    BY NoLookup DEF fallBack, KeyErrors
  <1> QED  BY <1>1 DEF verifyHostKey, Verdict, classifyHostKeyVerifyError

\* The verdict of a configured callback, whatever kind of key it judges.
LEMMA Judged ==
    ASSUME NEW kh \in KnownHosts, NEW k \in Presented, kh.configured
    PROVE  /\ Verdict(kh, k) = "verified" <=>
                ~IsRevoked(kh, k) /\ (Vouched(kh, k) \/ k.key \in LinesOf(kh))
           /\ Verdict(kh, k) = "server_host_key_revoked" <=> IsRevoked(kh, k)
           /\ Verdict(kh, k) = "server_host_certificate_invalid" <=>
                /\ ~IsRevoked(kh, k) /\ ~Vouched(kh, k)
                /\ k.cert /\ k.key \notin LinesOf(kh) /\ k.ca \in LinesOf(kh)
           /\ Verdict(kh, k) = "server_host_key_unknown" <=>
                ~IsRevoked(kh, k) /\ LinesOf(kh) = {}
           /\ Verdict(kh, k) = "server_host_key_mismatch" <=>
                ~IsRevoked(kh, k) /\ LinesOf(kh) # {} /\ {k.key, k.ca} \cap LinesOf(kh) = {}
           /\ Verdict(kh, k) # "server_host_key_rejected"
  <1> DEFINE err == verifyHostKey(kh, k)
  <1>1. CASE ~k.cert
    <2>1. ~Vouched(kh, k) /\ k.ca = k.key
      BY <1>1, PresentedCases DEF Vouched
    <2>2. /\ err = "nil" <=> ~IsRevoked(kh, k) /\ k.key \in LinesOf(kh)
          /\ err = "RevokedError" <=> IsRevoked(kh, k)
          /\ err = "KeyError with empty Want" <=> ~IsRevoked(kh, k) /\ LinesOf(kh) = {}
          /\ err = "KeyError" <=>
               ~IsRevoked(kh, k) /\ LinesOf(kh) # {} /\ k.key \notin LinesOf(kh)
          /\ err \in {"RevokedError", "nil"} \cup KeyErrors
      BY <1>1, PlainJudged
    <2> QED  BY <2>1, <2>2 DEF Verdict, classifyHostKeyVerifyError, KeyErrors
  <1>2. CASE k.cert /\ Vouched(kh, k) /\ ~IsRevoked(kh, k)
    <2>1. err = "nil"
      BY <1>2, CertificateJudged
    <2> QED  BY <1>2, <2>1 DEF Verdict, Vouched, LinesOf
  <1>3. CASE k.cert /\ ~(Vouched(kh, k) /\ ~IsRevoked(kh, k))
    <2>1. err = fallBack(kh, k)
      BY <1>3, CertificateJudged
    <2> DEFINE fb == fallBack(kh, k)
    <2>2. /\ fb = "nil" <=> ~IsRevoked(kh, k) /\ k.key \in LinesOf(kh)
          /\ fb = "RevokedError" <=> IsRevoked(kh, k)
          /\ fb = "errHostCertificateInvalid" <=>
               ~IsRevoked(kh, k) /\ k.key \notin LinesOf(kh) /\ k.ca \in LinesOf(kh)
          /\ fb = "KeyError with empty Want" <=> ~IsRevoked(kh, k) /\ LinesOf(kh) = {}
          /\ fb = "KeyError" <=>
               ~IsRevoked(kh, k) /\ LinesOf(kh) # {} /\ {k.key, k.ca} \cap LinesOf(kh) = {}
          /\ fb \in {"RevokedError", "nil", "errHostCertificateInvalid"} \cup KeyErrors
      BY FallenBack
    <2> HIDE DEF fb
    <2> QED  BY <1>3, <2>1, <2>2 DEF Verdict, classifyHostKeyVerifyError, KeyErrors, fb
  <1> QED  BY <1>1, <1>2, <1>3

-----------------------------------------------------------------------------
(***************************************************************************)
(* The invariant, and the properties that follow from it.                  *)
(***************************************************************************)
\* The callback judges its inputs, once, and nothing changes them.
LEMMA InvHolds == Spec => []IInv
  <1>1. Init => IInv
    BY DEF Init, IInv, Loaded
  <1>2. IInv /\ [Next]_vars => IInv'
    BY DEF IInv, Next, vars, HostKeyCallback, Done, Verdict
  <1> QED  BY <1>1, <1>2, PTL DEF Spec

\* A key is verified exactly if known_hosts vouches for it, through a CA or directly, and
\* neither it nor its CA is revoked, for every known_hosts and every presented key
\* (probe.go:410-440).
THEOREM AcceptedIfVouched == Spec => []AcceptedIffVouched
  <1>1. IInv => AcceptedIffVouched
    <2> SUFFICES ASSUME IInv, verdict # "pending"
                 PROVE  verdict = "verified" <=>
                          /\ knownHosts.configured /\ ~Revoked
                          /\ VouchedByCA \/ key.key \in Lines
      BY DEF AcceptedIffVouched
    <2>1. CASE ~knownHosts.configured
      BY <2>1, Unconfigured DEF IInv
    <2>2. CASE knownHosts.configured
      BY <2>2, Judged DEF IInv, Revoked, VouchedByCA, Lines, IsRevoked, Vouched, LinesOf
    <2> QED  BY <2>1, <2>2
  <1> QED  BY <1>1, InvHolds, PTL

\* The reason of a rejection tells its cause, for every known_hosts and every presented
\* key but a certificate whose signer is listed as a host key only (probe.go:428-459).
THEOREM ReasonsTellCause == Spec => []ReasonTellsCause
  <1>1. IInv => ReasonTellsCause
    <2> SUFFICES ASSUME IInv
                 PROVE  ReasonTellsCause
      OBVIOUS
    <2>1. CASE verdict = "pending"
      BY <2>1 DEF ReasonTellsCause
    <2>2. CASE verdict # "pending" /\ ~knownHosts.configured
      BY <2>2, Unconfigured DEF IInv, Loaded, ReasonTellsCause, Revoked, VouchedByCA, Lines,
             TrustedSigner, ListedSigner
    <2>3. CASE verdict # "pending" /\ knownHosts.configured
      <3>1. knownHosts \in KnownHosts /\ key \in Presented /\ verdict = Verdict(knownHosts, key)
        BY <2>3 DEF IInv
      <3>2. ~key.cert => key.ca = key.key
        BY <3>1, PresentedCases
      <3>3. TrustedSigner => key.ca \in Lines /\ key.cert
        BY DEF TrustedSigner, Lines
      <3>4. ~ListedSigner /\ ~TrustedSigner => ~key.cert \/ key.ca \notin Lines
        BY DEF TrustedSigner, ListedSigner, Lines
      <3> QED
        BY <2>3, <3>1, <3>2, <3>3, <3>4, Judged
           DEF ReasonTellsCause, Revoked, VouchedByCA, Lines, IsRevoked, Vouched, LinesOf
    <2> QED  BY <2>1, <2>2, <2>3
  <1> QED  BY <1>1, InvHolds, PTL
=============================================================================
