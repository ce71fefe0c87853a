CONSTANT MaxCalls = 3
SPECIFICATION ChannelFairSpec
INVARIANT ChannelTypeOK
INVARIANT ActivatedMeansAccepted
INVARIANT SuccessLasts
INVARIANT ShutdownLeavesNothing
PROPERTY ChannelCallReturns
PROPERTY ShutdownEnds
CHECK_DEADLOCK FALSE
