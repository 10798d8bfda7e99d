------------------------- MODULE MCCoreAudioFormats -------------------------
(* Model-checking instance of CoreAudioFormats.                           *)
EXTENDS CoreAudioFormats

\* Common rates, rates between two common ones, and a rate above them all,
\* so that ranges start and end on and off the common list.
MCEndpoints == {8000, 44100, 46000, 48000, 96000, 192000, 250000}
=============================================================================
