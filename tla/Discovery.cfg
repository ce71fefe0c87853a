SPECIFICATION Spec
CONSTANTS
    Peers = {v1, v2, v3}
    Self = self
    Corrupt = corrupt
    Twins = {v2, v3}
    MaxRequests = 2
    MaxDatagrams = 2
    MaxFailures = 1
CHECK_DEADLOCK FALSE
INVARIANTS DiscoveryTypeOK LengthFieldIsTrue ReceivesBalanced IntactUnlessOverwritten ReportBelongsToCall InTimeIsReported
PROPERTIES AnswerIsTaken DiscoveryReturns EveryDatagramRead
