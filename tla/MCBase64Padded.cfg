CONSTANTS
    Payloads <- ShortPayloads
    Endings <- Standard
    PayloadMax = 4
    IntValues = 65536
SPECIFICATION Spec
INVARIANTS
    PaddedRoundTrip
