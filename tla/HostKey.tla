------------------------------ MODULE HostKey ------------------------------
(***************************************************************************)
(* verifyHostKey and classifyHostKeyVerifyError (internal/probe/probe.go): *)
(* the key a server presents is looked up in known_hosts, as it is and, if *)
(* it is a certificate, through its CA and through the key inside it; the  *)
(* errors of the lookups are combined into one reason.                     *)
(*                                                                         *)
(* The callback of x/crypto/ssh/knownhosts is external and is modelled by  *)
(* what verifyHostKey relies on (classify_test.go:249-254).  A known_hosts *)
(* file is reduced to its lines for the target: the keys listed plainly,   *)
(* the keys marked @cert-authority, and the keys marked @revoked, which    *)
(* apply to every target.                                                  *)
(***************************************************************************)
CONSTANTS
    Keys,               \* public keys, of hosts and of CAs alike
    SignatureFormats    \* algorithms a CA may have signed a certificate with

caSignatureAlgorithms ==
    {"ssh-ed25519", "ecdsa-sha2-nistp256", "ecdsa-sha2-nistp384", "ecdsa-sha2-nistp521",
     "sk-ssh-ed25519@openssh.com", "sk-ecdsa-sha2-nistp256@openssh.com",
     "rsa-sha2-512", "rsa-sha2-256"}

KnownHosts == [listed : SUBSET Keys, authorities : SUBSET Keys, revoked : SUBSET Keys,
               configured : BOOLEAN]        \* FALSE: HostKeyCallback is nil

\* `valid': a host certificate for this target, in its validity period, rightly signed.
Certificates == [cert : {TRUE}, key : Keys, ca : Keys, valid : BOOLEAN,
                 format : SignatureFormats]
Plain(k)     == [cert |-> FALSE, key |-> k, ca |-> k, valid |-> FALSE, format |-> "none"]
Presented    == Certificates \cup {Plain(k) : k \in Keys}

\* KeyError.Want holds the lines for the target.
KeyErrors == {"KeyError with empty Want", "KeyError"}

VARIABLES knownHosts, key, verdict

vars == <<knownHosts, key, verdict>>

-----------------------------------------------------------------------------
\* A key passes as a host key if any line for the target has it, @cert-authority lines
\* included; IsRevoked looks at the key and the CA of a certificate, and the error of a
\* certificate is never a KeyError or a RevokedError.
check(kh, k) ==
    IF ~kh.configured THEN "other"
    ELSE IF k.cert
    THEN IF k.ca \in kh.authorities /\ k.valid /\ {k.key, k.ca} \cap kh.revoked = {}
         THEN "nil" ELSE "other"
    ELSE IF k.key \in kh.revoked THEN "RevokedError"
    ELSE IF k.key \in kh.listed \cup kh.authorities THEN "nil"
    ELSE IF kh.listed \cup kh.authorities = {} THEN "KeyError with empty Want"
    ELSE "KeyError"

\* Variants of fallBack: the CA is not looked up for its revocation; an invalid
\* certificate is blamed whoever signed it.
FallBackWithoutCA(kh, k) == check(kh, Plain(k.key))

FallBackBlamesCertificate(kh, k) ==
    IF check(kh, Plain(k.ca)) = "RevokedError" THEN "RevokedError"
    ELSE IF check(kh, Plain(k.key)) \in KeyErrors THEN "errHostCertificateInvalid"
    ELSE check(kh, Plain(k.key))

\* What becomes of a certificate that was not accepted: the CA, then the key inside it,
\* are looked up as host keys.
fallBack(kh, k) ==
    LET caErr    == check(kh, Plain(k.ca))
        plainErr == check(kh, Plain(k.key))
    IN  IF caErr = "RevokedError" THEN caErr
        ELSE IF plainErr \in KeyErrors /\ caErr = "nil" THEN "errHostCertificateInvalid"
        ELSE plainErr

verifyHostKey(kh, k) ==
    IF ~k.cert THEN check(kh, k)
    ELSE IF check(kh, k) = "nil" /\ k.format \in caSignatureAlgorithms THEN "nil"
    ELSE fallBack(kh, k)

classifyHostKeyVerifyError(err) ==
    IF err = "errHostCertificateInvalid" THEN "server_host_certificate_invalid"
    ELSE IF err = "KeyError with empty Want" THEN "server_host_key_unknown"
    ELSE IF err = "KeyError" THEN "server_host_key_mismatch"
    ELSE IF err = "RevokedError" THEN "server_host_key_revoked"
    ELSE "server_host_key_rejected"

Init ==
    /\ knownHosts \in {kh \in KnownHosts :
                         ~kh.configured => kh.listed \cup kh.authorities \cup kh.revoked = {}}
    /\ key \in Presented
    /\ verdict = "pending"

\* The body of HostKeyCallback, up to the verdict it sends.
HostKeyCallback ==
    /\ verdict = "pending"
    /\ LET err == verifyHostKey(knownHosts, key)
       IN  verdict' = IF err = "nil" THEN "verified" ELSE classifyHostKeyVerifyError(err)
    /\ UNCHANGED <<knownHosts, key>>

Done == verdict # "pending" /\ UNCHANGED vars

Next == HostKeyCallback \/ Done

Spec == Init /\ [][Next]_vars

-----------------------------------------------------------------------------
Lines   == knownHosts.listed \cup knownHosts.authorities
Revoked == {key.key, key.ca} \cap knownHosts.revoked # {}

\* A certificate that is valid, from a CA trusted for the target and signed with an
\* algorithm OpenSSH accepts.
VouchedByCA ==
    /\ key.cert /\ key.valid
    /\ key.ca \in knownHosts.authorities
    /\ key.format \in caSignatureAlgorithms

\* A key is verified exactly if known_hosts vouches for it, "through a CA or directly"
\* (README.md:189-190), and neither it nor its CA is @revoked, whichever of the lookups
\* finds that out: the lookup of the certificate reports a revocation as any other
\* error, after which the fallback to the key inside it must not accept (probe.go:410-440).
AcceptedIffVouched ==
    verdict # "pending" =>
      (verdict = "verified" <=>
         knownHosts.configured /\ ~Revoked /\ (VouchedByCA \/ key.key \in Lines))

\* The signer of a certificate: a CA trusted for the target, or a key that known_hosts
\* lists for the target as a host key only.
TrustedSigner == key.cert /\ key.ca \in knownHosts.authorities
ListedSigner  == key.cert /\ key.ca \in knownHosts.listed \ knownHosts.authorities

\* The reason of a rejection, as the table of reasons in README.md:517-521 has it: a
\* revocation outranks all others, an invalid certificate is blamed exactly if a CA
\* trusted for the target signed it, an unknown key and a mismatch are told apart by
\* whether there are lines for the target, and server_host_key_rejected is left for the
\* missing callback (probe.go:428-459).  The signers for which the code departs from the
\* table are left to InvalidCertificateIsFromTrustedCA.
ReasonTellsCause ==
    verdict # "pending" =>
      /\ verdict = "server_host_key_revoked" <=> Revoked
      /\ verdict = "server_host_key_unknown" <=>
            knownHosts.configured /\ ~Revoked /\ Lines = {}
      /\ verdict = "server_host_key_rejected" <=> ~knownHosts.configured
      /\ ~ListedSigner =>
           /\ verdict = "server_host_certificate_invalid" <=>
                 ~Revoked /\ ~VouchedByCA /\ TrustedSigner /\ key.key \notin Lines
           /\ verdict = "server_host_key_mismatch" <=>
                 ~Revoked /\ ~TrustedSigner /\ Lines # {} /\ key.key \notin Lines

\* README.md:520 says of server_host_certificate_invalid that the "host certificate is
\* signed by a CA trusted for the target", which takes an `@cert-authority` line
\* (README.md:183-184); verifyHostKey looks the CA up as a host key (probe.go:428-437),
\* for which a plain line will do.
InvalidCertificateIsFromTrustedCA ==
    verdict = "server_host_certificate_invalid" => TrustedSigner
=============================================================================
