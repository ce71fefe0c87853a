CONSTANTS
  MaxRequests = 2
  MaxPending = 0
  Payload = {1, 2}
  Unfilled = 0
SPECIFICATION ExchangeSpec
PROPERTY AckTimeoutMeansNoAck
