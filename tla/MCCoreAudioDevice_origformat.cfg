CONSTANTS
    Streams <- MCStreams
    Faults <- MCOrigFormatFaults
    Pid = 501
    Others <- MCNoOthers
SPECIFICATION Spec
INVARIANT FormatRestoredWhenClosed
