CONSTANT MaxCalls = 1
SPECIFICATION ChannelSpec
INVARIANT ReaderReadsWhileConnected
CHECK_DEADLOCK FALSE
