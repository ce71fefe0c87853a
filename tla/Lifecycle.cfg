\* The life of a client with one configured conversation.  The application may
\* stop anywhere, and destruction or termination is the end.
SPECIFICATION Spec

CONSTANT
    Conversations = {c1}

INVARIANTS
    LifecycleTypeOK
    DeInitializeLeavesNothing

PROPERTIES
    DeInitializeEnds
    StoppedContextSleeps
    DestructionEnds

CHECK_DEADLOCK FALSE
