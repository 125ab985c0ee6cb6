SPECIFICATION FairSpec
CONSTANTS
    Threads = {t1, t2}
    Nobody = Nobody
    Base = 4
    VIntValues = 32
    VLongValues = 128
    Byte = 8
    LongBytes = 2
    Versions = {40}
    Payloads <- SomePayloads
INVARIANT ReadAsWritten
PROPERTY EverythingArrives
CHECK_DEADLOCK FALSE
