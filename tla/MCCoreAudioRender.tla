------------------------- MODULE MCCoreAudioRender -------------------------
(* Model-checking instances of CoreAudioRender.                            *)
EXTENDS CoreAudioRender, MCCoreAudioDevice

\* The start calls whose failure makes an open fail or, in a faulty
\* OpenDevice, succeed with nothing running; and the calls that decide who
\* holds the hog mode (MCHogFaults) while another process toggles it.
MCRenderFaults ==
    {"DeviceStart", "UnitStart"} \cup MCHogFaults
=============================================================================
