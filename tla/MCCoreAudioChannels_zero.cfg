CONSTANTS
    ChannelCounts <- MCChannelCounts
    MaxStreams = 2
    MaxFormats = 1
SPECIFICATION Spec
INVARIANT ChannelsWritesInBounds
