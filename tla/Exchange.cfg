CONSTANTS
  MaxRequests = 3
  MaxPending = 1
  Payload = {1, 2, 3}
  Unfilled = 0
SPECIFICATION ExchangeFairSpec
INVARIANT ExchangeTypeOK
INVARIANT ResponseIntact
INVARIANT CorrelatedUnlessAckTimeout
PROPERTY ImplementsService
PROPERTY ReturnsOrSpins
