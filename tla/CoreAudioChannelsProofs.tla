----------------------- MODULE CoreAudioChannelsProofs -----------------------
(***************************************************************************)
(* Proofs about CoreAudioData::ChannelsList, for every set of channel      *)
(* counts the HAL may report and every bound on streams and formats.      *)
(***************************************************************************)
EXTENDS CoreAudioChannels, TLAPS

\* What the proofs need of the input: every format of every stream is a
\* Format, so that its mChannelsPerFrame is one of ChannelCounts.
FormatsTyped == passthru \in BOOLEAN /\ AllFormats(streams) \subseteq Format

\* A HAL answer of SeqsUpTo(SeqsUpTo(Format, _), _) carries only Formats.
LEMMA SeqsUpToFormats ==
    ASSUME NEW ss \in SeqsUpTo(SeqsUpTo(Format, MaxFormats), MaxStreams)
    PROVE  AllFormats(ss) \subseteq Format
<1> SUFFICES ASSUME NEW f \in AllFormats(ss) PROVE f \in Format
    OBVIOUS
<1>1. PICK i \in DOMAIN ss : f \in {ss[i][j] : j \in DOMAIN ss[i]}
    BY DEF AllFormats
<1>2. ss[i] \in SeqsUpTo(Format, MaxFormats)
    BY DEF SeqsUpTo
<1>3. PICK j \in DOMAIN ss[i] : f = ss[i][j]
    BY <1>1
<1>4. QED
    BY <1>2, <1>3 DEF SeqsUpTo

\* With no format of zero channels, both loops' writes land in chans:
\* the guard mChannelsPerFrame <= CHANNELS_MAX bounds the index from
\* above, a count of at least 1 bounds it from below, and the AC-3 write
\* is the constant 6 - 1.
LEMMA WrittenInBounds ==
    ASSUME ChannelCounts \subseteq Nat \ {0},
           NEW pt, NEW ss, AllFormats(ss) \subseteq Format
    PROVE  ChannelsWritten(pt, ss) \subseteq 0..CHANNELS_MAX - 1
<1>1. \A f \in AllFormats(ss) : f.ch \in Nat \ {0}
    BY DEF Format
<1>2. \A f \in {g \in AllFormats(ss) : g.ch <= CHANNELS_MAX} :
          ChannelIndex(f) \in 0..CHANNELS_MAX - 1
    BY <1>1 DEF ChannelIndex, CHANNELS_MAX
<1>3. 6 - 1 \in 0..CHANNELS_MAX - 1
    BY DEF CHANNELS_MAX
<1>. QED
    BY <1>2, <1>3 DEF ChannelsWritten

-----------------------------------------------------------------------------

\* The input is typed in every state: ChannelsList is a pure function of
\* one HAL answer, which Next never changes.
LEMMA FormatsTypedInvariant == Spec => []FormatsTyped
<1>1. Init => FormatsTyped
    BY SeqsUpToFormats DEF Init, FormatsTyped
<1>2. FormatsTyped /\ [Next]_vars => FormatsTyped'
    BY DEF FormatsTyped, Next, vars, AllFormats
<1>3. QED
    BY <1>1, <1>2, PTL DEF Spec

\* When the HAL reports no format with mChannelsPerFrame = 0, ChannelsList
\* writes only inside chans, whatever the other counts (those above
\* CHANNELS_MAX included), the number of streams and formats and the
\* pass-through flag.  With the count 0 allowed, the channels_zero run
\* finds the write at index 0 - 1: this theorem shows it is the only one.
THEOREM ChannelsInBoundsCorrect ==
    ASSUME ChannelCounts \subseteq Nat \ {0}
    PROVE  Spec => []ChannelsWritesInBounds
<1>1. FormatsTyped => ChannelsWritesInBounds
    BY WrittenInBounds DEF FormatsTyped, ChannelsWritesInBounds
<1>2. QED
    BY <1>1, FormatsTypedInvariant, PTL
=============================================================================
