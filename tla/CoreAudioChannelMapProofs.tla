---------------------- MODULE CoreAudioChannelMapProofs ----------------------
(***************************************************************************)
(* Proofs about the channel map of OpenAnalog (CreateChannelMap), for     *)
(* every set of labels and of layout lengths.                              *)
(*                                                                         *)
(* FirstMatch is the inner loop of CreateChannelMap, a recursive function *)
(* scan over 0 .. Len(std).  FirstIndex is its closed form: the least      *)
(* index k+1 .. Len(std) holding the label, shifted to count from 0.  The *)
(* provers cannot instantiate an induction rule, so the agreement of scan  *)
(* with FirstIndex is proved one index at a time from the end (AgreeStep) *)
(* and chained over the standard layouts' at most 8 channels.             *)
(***************************************************************************)
EXTENDS CoreAudioChannelMap, TLAPS

\* The least element of a set of integers.
Least(S) == CHOOSE j \in S : \A k \in S : j <= k

\* The indices after k whose label is c.
Js(c, std, k) == {j \in k + 1 .. Len(std) : std[j] = c}

\* What scan[k] computes: the first index after k holding c, from 0, or -1.
FirstIndex(c, std, k) ==
    IF Js(c, std, k) = {} THEN -1 ELSE Least(Js(c, std, k)) - 1

\* The defining equation of scan, for a candidate function s.
ScanEq(s, c, std) ==
    s = [k \in 0 .. Len(std) |->
            IF k = Len(std) THEN -1 ELSE IF std[k + 1] = c THEN k ELSE s[k + 1]]

\* s agrees with FirstIndex on the last j + 1 indices.
Agree(s, c, std, j) ==
    \A k \in 0 .. Len(std) : k >= Len(std) - j => s[k] = FirstIndex(c, std, k)

\* The standard layouts ExtractChannelLabels can produce for a standard
\* layout: the expansions of the four tags, and the empty zero-tag answer.
StdLayouts ==
    {<<>>, <<"Mono">>, <<"L", "R">>, <<"L", "R", "C", "LFE", "Ls", "Rs">>,
     <<"L", "R", "C", "LFE", "Ls", "Rs", "Lc", "Rc">>}

\* The labels of the standard layouts.
StdLabels == {"Mono", "L", "R", "C", "LFE", "Ls", "Rs", "Lc", "Rc"}

\* The inputs: one device layout, one failing allocation, one zero-tag answer.
Inputs ==
    /\ desc \in UNION {[1 .. n -> Labels] : n \in Lengths}
    /\ fail \in Allocations \cup {"none"}
    /\ tag0 \in {"error", <<>>}

-----------------------------------------------------------------------------

LEMMA LeastIs ==
    ASSUME NEW S \in SUBSET Int, NEW m \in S, \A i \in S : m <= i
    PROVE  Least(S) = m
<1>1. Least(S) \in S /\ \A i \in S : Least(S) <= i
    BY DEF Least
<1>2. Least(S) \in Int /\ Least(S) <= m /\ m <= Least(S)
    BY <1>1
<1>3. QED
    BY <1>2

\* One iteration of scan: FirstIndex satisfies scan's equation.
LEMMA FirstIndexStep ==
    ASSUME NEW S, NEW std \in Seq(S), NEW c, NEW k \in 0 .. Len(std) - 1
    PROVE  FirstIndex(c, std, k) =
               IF std[k + 1] = c THEN k ELSE FirstIndex(c, std, k + 1)
<1>1. CASE std[k + 1] = c
    <2>1. k + 1 \in Js(c, std, k) /\ \A i \in Js(c, std, k) : k + 1 <= i
        BY <1>1 DEF Js
    <2>2. Js(c, std, k) \in SUBSET Int
        BY DEF Js
    <2>3. Least(Js(c, std, k)) = k + 1
        BY <2>1, <2>2, LeastIs
    <2>4. QED
        BY <1>1, <2>1, <2>3 DEF FirstIndex
<1>2. CASE std[k + 1] # c
    <2>1. Js(c, std, k) = Js(c, std, k + 1)
        BY <1>2 DEF Js
    <2>2. QED
        BY <1>2, <2>1 DEF FirstIndex
<1>3. QED
    BY <1>1, <1>2

\* Past the end of the standard labels there is no match.
LEMMA FirstIndexEnd ==
    ASSUME NEW S, NEW std \in Seq(S), NEW c
    PROVE  FirstIndex(c, std, Len(std)) = -1
BY DEF FirstIndex, Js

\* The closed form is a solution of scan's equation.
LEMMA FirstIndexSolves ==
    ASSUME NEW S, NEW std \in Seq(S), NEW c
    PROVE  ScanEq([k \in 0 .. Len(std) |-> FirstIndex(c, std, k)], c, std)
BY FirstIndexStep, FirstIndexEnd DEF ScanEq

\* The last index agrees.
LEMMA AgreeBase ==
    ASSUME NEW S, NEW std \in Seq(S), NEW c, NEW s, ScanEq(s, c, std)
    PROVE  Agree(s, c, std, 0)
BY FirstIndexEnd DEF ScanEq, Agree

\* If the last j + 1 indices agree, so do the last j + 2.
LEMMA AgreeStep ==
    ASSUME NEW S, NEW std \in Seq(S), NEW c, NEW s, ScanEq(s, c, std),
           NEW j \in Nat, Agree(s, c, std, j)
    PROVE  Agree(s, c, std, j + 1)
<1> SUFFICES ASSUME NEW k \in 0 .. Len(std), k >= Len(std) - (j + 1)
             PROVE  s[k] = FirstIndex(c, std, k)
    BY DEF Agree
<1>1. CASE k >= Len(std) - j
    BY <1>1 DEF Agree
<1>2. CASE k = Len(std) - (j + 1)
    <2>1. k \in 0 .. Len(std) - 1 /\ k + 1 \in 0 .. Len(std)
        BY <1>2
    <2>2. s[k] = IF std[k + 1] = c THEN k ELSE s[k + 1]
        BY <2>1 DEF ScanEq
    <2>3. s[k + 1] = FirstIndex(c, std, k + 1)
        BY <1>2, <2>1 DEF Agree
    <2>4. QED
        BY <2>1, <2>2, <2>3, FirstIndexStep
<1>3. QED
    BY <1>1, <1>2

\* The inner loop of CreateChannelMap finds the first standard channel with
\* the label, for every standard layout of at most 8 channels.
LEMMA FirstMatchIsFirstIndex ==
    ASSUME NEW S, NEW std \in Seq(S), Len(std) <= 8, NEW c
    PROVE  FirstMatch(c, std) = FirstIndex(c, std, 0)
<1> DEFINE Sc == CHOOSE s : ScanEq(s, c, std)
<1>1. FirstMatch(c, std) = Sc[0]
    BY DEF FirstMatch, ScanEq
<1>2. ScanEq(Sc, c, std)
    BY FirstIndexSolves
<1> HIDE DEF Sc
<1>3. Agree(Sc, c, std, 0)
    BY <1>2, AgreeBase
<1>4. Agree(Sc, c, std, 1)
    BY <1>2, <1>3, AgreeStep
<1>5. Agree(Sc, c, std, 2)
    BY <1>2, <1>4, AgreeStep
<1>6. Agree(Sc, c, std, 3)
    BY <1>2, <1>5, AgreeStep
<1>7. Agree(Sc, c, std, 4)
    BY <1>2, <1>6, AgreeStep
<1>8. Agree(Sc, c, std, 5)
    BY <1>2, <1>7, AgreeStep
<1>9. Agree(Sc, c, std, 6)
    BY <1>2, <1>8, AgreeStep
<1>10. Agree(Sc, c, std, 7)
    BY <1>2, <1>9, AgreeStep
<1>11. Agree(Sc, c, std, 8)
    BY <1>2, <1>10, AgreeStep
<1>12. QED
    BY <1>1, <1>11 DEF Agree

\* The expansion of a standard layout's tag is one of the standard layouts
\* or an error, whatever the HAL answers for the zero tag.
LEMMA StandardExpansion ==
    ASSUME NEW n \in Nat, NEW t0 \in {"error", <<>>}
    PROVE  ExpandTag(StandardTag(n), t0) \in StdLayouts \cup {"error"}
BY DEF ExpandTag, StandardTag, StdLayouts

\* Standard layouts are label sequences of at most 8 channels.
LEMMA StdLayoutsBounded ==
    \A l \in StdLayouts : l \in Seq(StdLabels) /\ Len(l) <= 8
<1>1. <<>> \in Seq(StdLabels) /\ Len(<<>>) <= 8
    BY DEF StdLabels
<1>2. <<"Mono">> \in Seq(StdLabels) /\ Len(<<"Mono">>) <= 8
    BY DEF StdLabels
<1>3. <<"L", "R">> \in Seq(StdLabels) /\ Len(<<"L", "R">>) <= 8
    BY DEF StdLabels
<1>4. LET l == <<"L", "R", "C", "LFE", "Ls", "Rs">> IN l \in Seq(StdLabels) /\ Len(l) <= 8
    BY DEF StdLabels
<1>5. LET l == <<"L", "R", "C", "LFE", "Ls", "Rs", "Lc", "Rc">> IN l \in Seq(StdLabels) /\ Len(l) <= 8
    BY DEF StdLabels
<1>6. QED
    BY <1>1, <1>2, <1>3, <1>4, <1>5 DEF StdLayouts

\* A successful CreateChannelMap of the device layout against its standard
\* layout maps each device channel through FirstMatch on the standard
\* labels, which are StandardLabels.
LEMMA ResultIsMapOfStandard ==
    ASSUME Inputs, Result.status = "noErr"
    PROVE  /\ StandardLabels \in StdLayouts
           /\ Result.map = [i \in DOMAIN desc |-> FirstMatch(desc[i], StandardLabels)]
<1>1. PICK n \in Lengths : desc \in [1 .. n -> Labels]
    BY DEF Inputs
<1>2. n \in Nat \ {0} /\ desc \in Seq(Labels) /\ Len(desc) = n
    BY <1>1, LengthsAssumption
<1> DEFINE stdL == [tag |-> StandardTag(Len(desc)), desc |-> <<>>]
           cusL == [tag |-> "UseChannelDescriptions", desc |-> desc]
           exp  == ExpandTag(StandardTag(Len(desc)), tag0)
           sl   == ExtractChannelLabels(stdL, "stdLabels", fail, tag0)
           cl   == ExtractChannelLabels(cusL, "customLabels", fail, tag0)
<1>3. ChannelsFound(desc) # {}
    BY DEF Result, OpenAnalogChannelMap
<1>4. Result = CreateChannelMap(stdL, cusL, fail, tag0)
    BY <1>3 DEF Result, OpenAnalogChannelMap
<1>5. exp \in StdLayouts \cup {"error"}
    BY <1>2, StandardExpansion DEF Inputs
<1>6. /\ sl.status = "noErr"
      /\ cl.status = "noErr"
      /\ Result.map = [i \in DOMAIN cl.labels |-> MapEntry(cl.labels[i], sl.labels)]
    BY <1>4 DEF CreateChannelMap
<1>7. cl.labels = desc
    BY <1>2, <1>6 DEF ExtractChannelLabels
<1>8. sl.labels = StandardLabels /\ StandardLabels \in StdLayouts
    <2>1. exp # "error"
        BY <1>6 DEF ExtractChannelLabels
    <2>2. sl.labels = exp
        <3>1. CASE Len(exp) > 0
            BY <1>5, <2>1, <3>1, <1>6, StdLayoutsBounded DEF ExtractChannelLabels
        <3>2. CASE Len(exp) = 0
            <4>1. exp = <<>>
                BY <1>5, <2>1, <3>2 DEF StdLayouts
            <4>2. QED
                BY <1>6, <2>1, <4>1 DEF ExtractChannelLabels
        <3>3. QED
            BY <1>5, <2>1, <3>1, <3>2, StdLayoutsBounded
    <2>3. QED
        BY <1>5, <2>1, <2>2 DEF StandardLabels
<1>9. QED
    BY <1>6, <1>7, <1>8 DEF MapEntry

\* Every device channel of the map OpenAnalog hands to the AudioUnit is fed
\* from the first standard channel with its label, or is silent (-1) when
\* the standard layout lacks it: ChannelMapIsFirstMatch, which the
\* channelmap_first run checks for layouts of up to 6 channels over five
\* labels, holds for every set of labels and every layout length.
THEOREM ChannelMapFirstMatchCorrect == Spec => []ChannelMapIsFirstMatch
<1>1. Inputs => ChannelMapIsFirstMatch
    <2> SUFFICES ASSUME Inputs, Result.status = "noErr"
                 PROVE  /\ DOMAIN Result.map = DOMAIN desc
                        /\ \A i \in DOMAIN desc :
                              LET js == {j \in DOMAIN StandardLabels : StandardLabels[j] = desc[i]}
                              IN Result.map[i] = IF js = {} THEN -1
                                                 ELSE (CHOOSE j \in js : \A k \in js : j <= k) - 1
        BY DEF ChannelMapIsFirstMatch
    <2>1. StandardLabels \in StdLayouts
          /\ Result.map = [i \in DOMAIN desc |-> FirstMatch(desc[i], StandardLabels)]
        BY ResultIsMapOfStandard
    <2>2. StandardLabels \in Seq(StdLabels) /\ Len(StandardLabels) <= 8
        BY <2>1, StdLayoutsBounded
    <2>3. DOMAIN Result.map = DOMAIN desc
        BY <2>1
    <2>4. ASSUME NEW i \in DOMAIN desc
          PROVE  LET js == {j \in DOMAIN StandardLabels : StandardLabels[j] = desc[i]}
                 IN Result.map[i] = IF js = {} THEN -1
                                    ELSE (CHOOSE j \in js : \A k \in js : j <= k) - 1
        <3>1. Result.map[i] = FirstIndex(desc[i], StandardLabels, 0)
            BY <2>1, <2>2, FirstMatchIsFirstIndex
        <3>2. Js(desc[i], StandardLabels, 0) =
                  {j \in DOMAIN StandardLabels : StandardLabels[j] = desc[i]}
            BY <2>2 DEF Js
        <3>3. QED
            BY <3>1, <3>2 DEF FirstIndex, Least
    <2>5. QED
        BY <2>3, <2>4
<1>2. Inputs /\ [Next]_vars => Inputs'
    BY DEF Inputs, Next, vars
<1>3. Init => Inputs
    BY DEF Init, Inputs
<1>4. QED
    BY <1>1, <1>2, <1>3, PTL DEF Spec
=============================================================================
