CONSTANTS
    Streams <- MCStreams
    Faults <- MCRevertFaults
    Pid = 501
    Others <- MCNoOthers
SPECIFICATION Spec
INVARIANT RecordedOriginalIsOriginal
