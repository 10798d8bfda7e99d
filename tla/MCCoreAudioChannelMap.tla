------------------------ MODULE MCCoreAudioChannelMap ------------------------
(* Model-checking instance of CoreAudioChannelMap.                        *)
EXTENDS CoreAudioChannelMap

\* The front channels, the LFE, and a label OpenAnalog's switch does not
\* know ("?" in its description), so that matches, misses and layouts with
\* nothing recognised all occur.
MCLabels == {"L", "R", "C", "LFE", "Cvh"}

\* Mono, stereo, 5.1, and counts with no standard layout (3 and 4).
MCLengths == {1, 2, 3, 4, 6}
=============================================================================
