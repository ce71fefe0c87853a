CONSTANT MaxRequests = 3
SPECIFICATION FairSpec
INVARIANT TypeOK
INVARIANT AtMostOneResponsePerRequest
PROPERTY IdleUntilRequested
PROPERTY RequestReturns
