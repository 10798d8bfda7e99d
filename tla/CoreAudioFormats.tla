--------------------------- MODULE CoreAudioFormats ---------------------------
(***************************************************************************)
(* The pure queries of audiooutputca.cpp that turn what the HAL reports   *)
(* about a device into the settings AudioOutputCA offers: the sample rate *)
(* list built by CoreAudioData::RatesList from the device's nominal       *)
(* sample rate ranges.  The input is one HAL answer, chosen in Init and   *)
(* kept; the properties compare the code's result with the definition     *)
(* the code's comment gives.                                              *)
(***************************************************************************)
EXTENDS Integers, Sequences

CONSTANTS
    Endpoints,  \* the rates a range may start or end at (AudioValueRange)
    MaxRanges   \* the most ranges one answer holds

ASSUME EndpointsAssumption == Endpoints \subseteq Nat
ASSUME MaxRangesAssumption == MaxRanges \in Nat

VARIABLE ranges  \* kAudioDevicePropertyAvailableNominalSampleRates

vars == <<ranges>>

\* sCommonSampleRates, indexed from 0 like the C array.
CommonRates == <<8000, 11025, 12000, 16000, 22050, 24000, 32000, 44100,
                 48000, 64000, 88200, 96000, 128000, 176400, 192000>>
NumberCommon == Len(CommonRates)          \* sNumberCommonSampleRates
Common(i) == CommonRates[i + 1]

\* IsRateCommon: the rate is one of the common rates.
IsRateCommon(r) == \E i \in 0..NumberCommon - 1 : Common(i) = r

Range == [min: Endpoints, max: Endpoints]

\* The answers the HAL may give: sequences of ranges with min <= max.
Answers ==
    UNION {[1..n -> {r \in Range : r.min <= r.max}] : n \in 0..MaxRanges}

-----------------------------------------------------------------------------
(* RatesList.                                                              *)

\* The condition of RatesList's index loops: the index is inside
\* sCommonSampleRates and the common rate there is below the bound.
Below(j, bound) == j < NumberCommon /\ Common(j) < bound

\* The index loops of RatesList: starting at i, advance while Below holds;
\* the loop ends at the first index where it fails.
SkipBelow(i, bound) ==
    CHOOSE j \in i..NumberCommon :
        ~Below(j, bound) /\ \A k \in i..j - 1 : Below(k, bound)

\* The common rates from index first up to, not including, index last.
CommonSlice(first, last) == [k \in 1..(last - first) |-> Common(first + k - 1)]

\* A plausible fault: the range's maximum is pushed without the
\* IsRateCommon check.
RangeEndRateUnchecked(range) ==
    IF IsRateCommon(range.min) THEN <<range.min>> ELSE <<range.max>>

\* After the loop over common rates: push the minimum if it is a common rate,
\* else the maximum if it is one.
RangeEndRate(range) ==
    IF IsRateCommon(range.min) THEN <<range.min>>
    ELSE IF IsRateCommon(range.max) THEN <<range.max>>
    ELSE <<>>

\* One iteration of the loop over ranges.  theFirstIndex starts where the
\* previous range left theLastIndex; the loop breaks when it runs off the
\* common rates.
RatesStep(acc, range) ==
    LET first == SkipBelow(acc.last, range.min)
        last  == SkipBelow(first, range.max)
    IN IF acc.stop \/ first >= NumberCommon THEN [acc EXCEPT !.stop = TRUE]
       ELSE [last |-> last, stop |-> FALSE,
             vec |-> acc.vec \o CommonSlice(first, last) \o RangeEndRate(range)]

\* Before the loop: theLastIndex = 0 and finalvec empty.
RatesInit == [last |-> 0, stop |-> FALSE, vec |-> <<>>]

\* The loop over ranges: loop[i] is the state after the first i ranges.
RatesLoop(rs) ==
    LET loop[i \in 0..Len(rs)] ==
            IF i = 0 THEN RatesInit ELSE RatesStep(loop[i - 1], rs[i])
    IN loop

\* CoreAudioData::RatesList for a HAL answer (an empty answer stands for the
\* error returns as well).
RatesList(rs) == RatesLoop(rs)[Len(rs)].vec

-----------------------------------------------------------------------------
Init == ranges \in Answers

Next == UNCHANGED ranges

Spec == Init /\ [][Next]_vars

\* The rates inside one of the ranges that are common.
InRanges(rs) ==
    {r \in {Common(i) : i \in 0..NumberCommon - 1} :
        \E k \in DOMAIN rs : rs[k].min <= r /\ r <= rs[k].max}

\* Every rate RatesList reports is a common rate the device supports: one
\* inside a range it reported, whatever the order of the ranges.
RatesSound ==
    \A k \in DOMAIN RatesList(ranges) : RatesList(ranges)[k] \in InRanges(ranges)

\* The comment of RatesList: "add the minimum, maximum, and common rates in
\* between" - every common rate inside a range is reported.
RatesComplete ==
    \A r \in InRanges(ranges) : \E k \in DOMAIN RatesList(ranges) :
        RatesList(ranges)[k] = r

=============================================================================
