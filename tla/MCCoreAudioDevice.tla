------------------------- MODULE MCCoreAudioDevice -------------------------
(* Model-checking instances of CoreAudioDevice: which HAL calls may fail. *)
EXTENDS CoreAudioDevice

\* Two output streams, so that the stream OpenSPDIF picks and the one it
\* reverts can differ from the other one.
MCStreams == {0, 1}

\* No other process uses the device.
MCNoOthers == {}

\* One other process, which takes and releases the hog mode between this
\* process's steps.
MCOthers == {502}

\* No HAL call fails.
MCNoFaults == {}

\* Every call of the open paths whose failure aborts them or is harmless
\* to the recorded original state.  Of the analog calls whose failure has
\* the same effect (no unit; a unit without its callback) one stands for
\* the others, which keeps the subsets of failing calls per step few.
MCOpenFaults ==
    (SpdifOpenCalls \ {"GetOrigFormat", "GetMixing"})
    \cup {"InstanceNew", "SetCurrentDevice", "SetRenderCallback",
         "UnitInitialize", "UnitStart"}

\* The calls that decide who holds the hog mode: auto-hog left on, the
\* take and the release failing, and a failed open that CloseSPDIF undoes.
MCHogFaults == {"SetAutoHog", "SetHog", "ReleaseHog", "ChangeFormat"}

\* The original stream format cannot be read when OpenSPDIF records it.
MCOrigFormatFaults == {"GetOrigFormat", "ChangeFormat", "DeviceStart"}

\* The revert of the stream format in CloseSPDIF fails.
MCRevertFaults == {"RevertFormat", "DeviceStart"}

\* The mixing setting cannot be read when SetMixingSupport first records it.
MCMixingFaults == {"GetMixing"}

\* AudioDeviceStop and AudioDeviceDestroyIOProcID both fail in CloseSPDIF.
MCStopFaults == {"DeviceStop", "DestroyIOProc"}
=============================================================================
