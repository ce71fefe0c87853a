CONSTANTS
  MaxRequests = 1
  MaxPending = 1
  Payload = {1}
  Unfilled = 0
SPECIFICATION ExchangeFairSpec
PROPERTY CallReturns
