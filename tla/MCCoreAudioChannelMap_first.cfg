CONSTANTS
    Labels <- MCLabels
    Lengths <- MCLengths
SPECIFICATION Spec
INVARIANT ChannelMapIsFirstMatch
