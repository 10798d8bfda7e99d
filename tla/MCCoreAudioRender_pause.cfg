CONSTANTS
    Streams <- MCStreams
    Faults <- MCRenderFaults
    Pid = 501
    Others <- MCOthers
SPECIFICATION RSpec
INVARIANTS
    HogCacheSound
PROPERTY PauseAcknowledged
