\* Every known_hosts over three keys with every plain key and certificate.
CONSTANTS
    Keys = {k1, k2, k3}
    SignatureFormats <- TwoFormats
SPECIFICATION Spec
INVARIANTS
    AcceptedIffVouched
    ReasonTellsCause
