-------------------------- MODULE CoreAudioChannels --------------------------
(***************************************************************************)
(* CoreAudioData::ChannelsList (audiooutputca.cpp): the channel counts    *)
(* the device's stream formats offer, as the array chans of CHANNELS_MAX  *)
(* flags indexed by channel count - 1.  The input is one HAL answer: for  *)
(* each stream of StreamsList the formats of FormatsList, each a format   *)
(* id and mChannelsPerFrame.                                             *)
(***************************************************************************)
EXTENDS Integers, Sequences

CONSTANTS
    ChannelCounts,  \* values of mChannelsPerFrame (a UInt32) the HAL may report
    MaxStreams,     \* the most streams of one device
    MaxFormats      \* the most formats of one stream

VARIABLES
    passthru,   \* the argument of ChannelsList
    streams     \* the formats of each stream

vars == <<passthru, streams>>

CHANNELS_MAX == 8

\* A format: linear PCM, or AC-3 ('IAC3' or kAudioFormat60958AC3).
Format == [id: {"lpcm", "ac3"}, ch: ChannelCounts]

SeqsUpTo(S, n) == UNION {[1..k -> S] : k \in 0..n}

\* A plausible fault: the flag is indexed by the channel count itself.
ChannelIndexUnshifted(f) == f.ch

\* mChannelsPerFrame - 1.  In the code it is UInt32 and wraps to 2^32 - 1
\* for 0; it lies in 0 .. CHANNELS_MAX - 1 exactly when the signed
\* difference does, which is all the property asks (TLC's integers cannot
\* hold 2^32 - 1).
ChannelIndex(f) == f.ch - 1

IsDigital(f) == f.id = "ac3"

\* Every format of every stream (a stream with no formats is skipped).
AllFormats(ss) == UNION {{ss[i][j] : j \in DOMAIN ss[i]} : i \in DOMAIN ss}

\* The entries of chans ChannelsList writes true: in pass-through mode each
\* format's count and, for an AC-3 format, 6 (5.1); without a digital
\* format, each format's count.  Both loops guard the write only by
\* mChannelsPerFrame <= CHANNELS_MAX.
ChannelsWritten(pt, ss) ==
    LET counted     == {ChannelIndex(f) : f \in {g \in AllFormats(ss) :
                                                   g.ch <= CHANNELS_MAX}}
        foundDigital == pt /\ \E f \in AllFormats(ss) : IsDigital(f)
    IN IF ss = <<>> THEN {}
       ELSE counted \cup (IF foundDigital THEN {6 - 1} ELSE {})

\* ChannelsList: false, with every flag cleared, when the stream list is
\* empty; otherwise true and chans set from ChannelsWritten.
ChannelsList(pt, ss) ==
    [ok |-> ss # <<>>,
     chans |-> [i \in 0..CHANNELS_MAX - 1 |-> i \in ChannelsWritten(pt, ss)]]

Init ==
    /\ passthru \in BOOLEAN
    /\ streams \in SeqsUpTo(SeqsUpTo(Format, MaxFormats), MaxStreams)

Next == UNCHANGED vars

Spec == Init /\ [][Next]_vars

\* Every entry ChannelsList writes is inside the std::array chans: the
\* guard mChannelsPerFrame <= CHANNELS_MAX is meant to keep the index
\* mChannelsPerFrame - 1 within 0 .. CHANNELS_MAX - 1.
ChannelsWritesInBounds ==
    ChannelsWritten(passthru, streams) \subseteq 0..CHANNELS_MAX - 1

=============================================================================
