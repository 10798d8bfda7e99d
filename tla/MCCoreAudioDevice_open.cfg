CONSTANTS
    Streams <- MCStreams
    Faults <- MCOpenFaults
    Pid = 501
    Others <- MCNoOthers
SPECIFICATION Spec
INVARIANTS
    TypeOK
    CloseReachesOpenPath
    ClosedDeviceReleased
    OpenDevicePlaying
    SPDIFProcWritesAC3Stream
