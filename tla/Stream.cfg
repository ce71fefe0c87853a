\* A plain or a secured connection; payloads that are empty and as long as a header.  The
\* users may do nothing more at any time.
SPECIFICATION Spec

CONSTANTS
    Secure = {FALSE, TRUE}
    Lengths = {0, 2}
    MaxMessages = 2
    MaxSecured = 1

INVARIANTS
    StreamTypeOK
    ReadAsSent

PROPERTIES
    SentIsHanded
    CloseEnds

CHECK_DEADLOCK FALSE
