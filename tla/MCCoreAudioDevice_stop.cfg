CONSTANTS
    Streams <- MCStreams
    Faults <- MCStopFaults
    Pid = 501
    Others <- MCNoOthers
SPECIFICATION Spec
INVARIANT SPDIFProcWritesAC3Stream
