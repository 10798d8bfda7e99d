CONSTANTS
    Endpoints <- MCEndpoints
    MaxRanges = 2
SPECIFICATION Spec
INVARIANT RatesComplete
