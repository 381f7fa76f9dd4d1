\* What the README says of the signer of an invalid certificate, over two keys.
CONSTANTS
    Keys = {k1, k2}
    SignatureFormats <- TwoFormats
SPECIFICATION Spec
INVARIANTS
    InvalidCertificateIsFromTrustedCA
