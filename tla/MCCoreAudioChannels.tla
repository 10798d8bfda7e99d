------------------------- MODULE MCCoreAudioChannels -------------------------
(* Model-checking instance of CoreAudioChannels.                          *)
EXTENDS CoreAudioChannels

\* No channel, the usual counts, and one above CHANNELS_MAX.
MCChannelCounts == {0, 2, 6, 8, 9}
=============================================================================
