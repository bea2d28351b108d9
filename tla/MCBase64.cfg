CONSTANTS
    Payloads <- ShortPayloads
    Endings <- AllEndings
    PayloadMax = 4
    IntValues = 65536
SPECIFICATION Spec
INVARIANTS
    TypeOK
    RoundTrip
    TooLongRefused
    PaddingBecomesZeros
