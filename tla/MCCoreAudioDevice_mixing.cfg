CONSTANTS
    Streams <- MCStreams
    Faults <- MCMixingFaults
    Pid = 501
    Others <- MCNoOthers
SPECIFICATION Spec
INVARIANT MixingRestoredWhenClosed
