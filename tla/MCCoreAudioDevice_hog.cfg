CONSTANTS
    Streams <- MCStreams
    Faults <- MCNoFaults
    Pid = 501
    Others <- MCOthers
SPECIFICATION Spec
INVARIANT ClosedDeviceReleased
