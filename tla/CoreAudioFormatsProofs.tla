------------------------ MODULE CoreAudioFormatsProofs ------------------------
(***************************************************************************)
(* Proofs about CoreAudioData::RatesList, for every set of endpoints and   *)
(* every number of ranges the HAL may report.                              *)
(*                                                                         *)
(* RatesLoop is the recursive function loop over the ranges; its equation  *)
(* comes from NaturalsInduction's FiniteNatInductiveDef.  That every state *)
(* of the loop is sound is shown by a least counterexample, which          *)
(* WellFoundedInduction's WFMin provides.                                  *)
(***************************************************************************)
EXTENDS CoreAudioFormats, NaturalsInduction, WellFoundedInduction, TLAPS

\* The index of sCommonSampleRates past its last entry.
N == NumberCommon

\* The values a sequence holds.
Rng(s) == {s[k] : k \in DOMAIN s}

\* A range of naturals; kept a name of its own, since the provers handle
\* sequences over it better than over the record set written out.
RangeRec == [min: Nat, max: Nat]

\* A HAL answer: ranges of naturals whose minimum is at most the maximum.
AnswerOK(rs) ==
    /\ rs \in Seq(RangeRec)
    /\ \A k \in DOMAIN rs : rs[k].min <= rs[k].max

\* A state of the loop over ranges is sound: theLastIndex is an index of the
\* common rates or one past them, and finalvec holds only common rates
\* that lie in one of the ranges.
Sound(v, rs) ==
    /\ v \in [last: 0..N, stop: BOOLEAN, vec: Seq(Nat)]
    /\ Rng(v.vec) \subseteq InRanges(rs)

\* The step of the loop for the i-th range of the answer, as the binary
\* operator NaturalsInduction's recursive definitions take.
RangeStep(v, i) == RatesStep(v, ranges[i])

-----------------------------------------------------------------------------
(* The table of common rates.                                              *)

LEMMA CommonTable ==
    /\ N = 15
    /\ \A i \in 0..N - 1 : Common(i) \in Nat
    /\ \A i, j \in 0..N - 1 : i <= j => Common(i) <= Common(j)
BY DEF N, NumberCommon, Common, CommonRates

\* A set of naturals with a member has a least member (WFMin).
LEMMA LeastNat ==
    ASSUME NEW S \in SUBSET Nat, S # {}
    PROVE  \E x \in S : \A y \in S : x <= y
<1>1. \E x \in S : \A y \in S : ~(<<y, x>> \in OpToRel(<, Nat))
    BY NatLessThanWellFounded, WFMin
<1>2. \A x, y \in Nat : ~(<<y, x>> \in OpToRel(<, Nat)) => x <= y
    BY DEF OpToRel
<1>. QED BY <1>1, <1>2

\* The index loops end at the first index from i where Below fails, at N
\* at the latest.
LEMMA SkipBelowSpec ==
    ASSUME NEW i \in 0..N, NEW bound
    PROVE  /\ SkipBelow(i, bound) \in i..N
           /\ ~Below(SkipBelow(i, bound), bound)
           /\ \A k \in i..SkipBelow(i, bound) - 1 : Below(k, bound)
<1> DEFINE E == {j \in i..N : ~Below(j, bound)}
<1>1. N \in E
    BY CommonTable DEF Below, N
<1>2. PICK x \in E : \A y \in E : x <= y
    BY <1>1, LeastNat, CommonTable
<1>3. x \in i..NumberCommon /\ ~Below(x, bound) /\ \A k \in i..x - 1 : Below(k, bound)
    BY <1>2, CommonTable DEF N
<1>. QED BY <1>3 DEF SkipBelow, N

-----------------------------------------------------------------------------
(* One iteration of the loop over ranges.                                  *)

\* finalvec.push_back appends: the values of a concatenation are those of
\* its parts.
LEMMA RngConcat ==
    ASSUME NEW a \in Seq(Nat), NEW b \in Seq(Nat)
    PROVE  a \o b \in Seq(Nat) /\ Rng(a \o b) = Rng(a) \cup Rng(b)
<1>1. a \o b \in Seq(Nat)
    OBVIOUS
<1>2. Rng(a \o b) \subseteq Rng(a) \cup Rng(b)
    BY DEF Rng
<1>3. Rng(a) \subseteq Rng(a \o b)
    BY DEF Rng
<1>4. Rng(b) \subseteq Rng(a \o b)
    <2> SUFFICES ASSUME NEW k \in DOMAIN b PROVE b[k] \in Rng(a \o b)
        BY DEF Rng
    <2>1. Len(a) + k \in DOMAIN (a \o b) /\ (a \o b)[Len(a) + k] = b[k]
        OBVIOUS
    <2>. QED BY <2>1 DEF Rng
<1>. QED BY <1>1, <1>2, <1>3, <1>4

\* A common rate between the minimum and the maximum of the i-th range is
\* one RatesList may report.
LEMMA InRangesI ==
    ASSUME NEW rs, NEW i \in DOMAIN rs, NEW j \in 0..N - 1,
           rs[i].min <= Common(j), Common(j) <= rs[i].max
    PROVE  Common(j) \in InRanges(rs)
BY DEF InRanges, N

\* The common rates the inner loop pushes, from theFirstIndex up to
\* theLastIndex, lie in the range: the ones before theFirstIndex are below
\* its minimum, and the loop stops at the first one not below its maximum.
LEMMA CommonSliceSound ==
    ASSUME NEW rs, NEW i \in DOMAIN rs, rs[i].min \in Nat, rs[i].max \in Nat,
           NEW first \in 0..N - 1, ~Below(first, rs[i].min),
           NEW last \in first..N, \A k \in first..last - 1 : Below(k, rs[i].max)
    PROVE  /\ CommonSlice(first, last) \in Seq(Nat)
           /\ Rng(CommonSlice(first, last)) \subseteq InRanges(rs)
<1>1. rs[i].min <= Common(first)
    BY CommonTable DEF Below, N
<1>2. ASSUME NEW k \in 1..(last - first)
      PROVE  /\ first + k - 1 \in 0..N - 1
             /\ rs[i].min <= Common(first + k - 1)
             /\ Common(first + k - 1) <= rs[i].max
    <2>1. first + k - 1 \in first..last - 1
        OBVIOUS
    <2>2. Below(first + k - 1, rs[i].max)
        BY <2>1
    <2>3. first + k - 1 \in 0..N - 1 /\ Common(first + k - 1) < rs[i].max
        BY <2>2, CommonTable DEF Below, N
    <2>4. Common(first) <= Common(first + k - 1)
        BY <2>3, CommonTable
    <2>. QED BY <1>1, <2>3, <2>4, CommonTable
<1>3. CommonSlice(first, last) \in Seq(Nat)
    BY <1>2, CommonTable DEF CommonSlice
<1>4. Rng(CommonSlice(first, last)) \subseteq InRanges(rs)
    <2> SUFFICES ASSUME NEW k \in 1..(last - first)
                 PROVE  Common(first + k - 1) \in InRanges(rs)
        BY DEF Rng, CommonSlice
    <2>. QED BY <1>2, InRangesI
<1>. QED BY <1>3, <1>4

\* The end rate pushed after the inner loop is the range's minimum or
\* maximum, and only when it is a common rate.
LEMMA RangeEndRateSound ==
    ASSUME NEW rs, NEW i \in DOMAIN rs, rs[i].min \in Nat, rs[i].max \in Nat,
           rs[i].min <= rs[i].max
    PROVE  /\ RangeEndRate(rs[i]) \in Seq(Nat)
           /\ Rng(RangeEndRate(rs[i])) \subseteq InRanges(rs)
<1>1. CASE IsRateCommon(rs[i].min)
    <2>1. PICK j \in 0..N - 1 : Common(j) = rs[i].min
        BY <1>1 DEF IsRateCommon, N
    <2>2. rs[i].min \in InRanges(rs)
        BY <2>1, InRangesI
    <2>. QED BY <1>1, <2>2 DEF RangeEndRate, Rng
<1>2. CASE ~IsRateCommon(rs[i].min) /\ IsRateCommon(rs[i].max)
    <2>1. PICK j \in 0..N - 1 : Common(j) = rs[i].max
        BY <1>2 DEF IsRateCommon, N
    <2>2. rs[i].max \in InRanges(rs)
        BY <2>1, InRangesI
    <2>. QED BY <1>2, <2>2 DEF RangeEndRate, Rng
<1>3. CASE ~IsRateCommon(rs[i].min) /\ ~IsRateCommon(rs[i].max)
    BY <1>3 DEF RangeEndRate, Rng
<1>. QED BY <1>1, <1>2, <1>3

\* One iteration of the loop over ranges keeps its state sound: it either
\* breaks (theFirstIndex ran off the common rates, or an earlier range
\* broke) or pushes the common rates inside the range and an end rate.
LEMMA RatesStepSound ==
    ASSUME NEW rs, AnswerOK(rs), NEW i \in 1..Len(rs), NEW v, Sound(v, rs)
    PROVE  Sound(RatesStep(v, rs[i]), rs)
<1>1. i \in DOMAIN rs /\ rs[i] \in [min: Nat, max: Nat] /\ rs[i].min <= rs[i].max
    <2>1. rs \in Seq(RangeRec)
        BY DEF AnswerOK
    <2>2. i \in DOMAIN rs /\ rs[i] \in RangeRec
        BY <2>1
    <2>. QED BY <2>2 DEF AnswerOK, RangeRec
<1>2. v.last \in 0..N /\ v.vec \in Seq(Nat)
    BY DEF Sound
<1>3. PICK fst \in 0..N : fst = SkipBelow(v.last, rs[i].min)
    BY <1>2, SkipBelowSpec
<1>4. ~Below(fst, rs[i].min)
    BY <1>2, <1>3, SkipBelowSpec
<1>5. CASE v.stop \/ fst >= N
    <2>1. RatesStep(v, rs[i]) = [v EXCEPT !.stop = TRUE]
        BY <1>3, <1>5 DEF RatesStep, N
    <2>. QED BY <2>1 DEF Sound, Rng
<1>6. CASE ~(v.stop \/ fst >= N)
    <2>1. fst \in 0..N - 1
        BY <1>3, <1>6, CommonTable
    <2>2. PICK lst \in fst..N : /\ lst = SkipBelow(fst, rs[i].max)
                               /\ \A k \in fst..lst - 1 : Below(k, rs[i].max)
        BY <1>3, SkipBelowSpec
    <2>3. RatesStep(v, rs[i]) =
              [last |-> lst, stop |-> FALSE,
               vec |-> v.vec \o CommonSlice(fst, lst) \o RangeEndRate(rs[i])]
        BY <1>3, <1>6, <2>2 DEF RatesStep, N
    <2>4. CommonSlice(fst, lst) \in Seq(Nat)
          /\ Rng(CommonSlice(fst, lst)) \subseteq InRanges(rs)
        BY <1>1, <1>4, <2>1, <2>2, CommonSliceSound
    <2>5. RangeEndRate(rs[i]) \in Seq(Nat) /\ Rng(RangeEndRate(rs[i])) \subseteq InRanges(rs)
        BY <1>1, RangeEndRateSound
    <2>6. /\ v.vec \o CommonSlice(fst, lst) \o RangeEndRate(rs[i]) \in Seq(Nat)
          /\ Rng(v.vec \o CommonSlice(fst, lst) \o RangeEndRate(rs[i])) \subseteq InRanges(rs)
        <3>1. v.vec \o CommonSlice(fst, lst) \in Seq(Nat)
              /\ Rng(v.vec \o CommonSlice(fst, lst)) \subseteq InRanges(rs)
            BY <1>2, <2>4, RngConcat DEF Sound
        <3>. QED BY <3>1, <2>5, RngConcat
    <2>7. lst \in 0..N
        <3>1. fst \in 0..N /\ lst \in fst..N
            BY <1>3, <2>2, Zenon
        <3>2. N \in Nat
            BY CommonTable
        <3>. QED BY <3>1, <3>2
    <2>. QED BY <2>3, <2>6, <2>7 DEF Sound
<1>. QED BY <1>5, <1>6

-----------------------------------------------------------------------------
(* The loop over ranges.                                                   *)

\* The recursive function of RatesLoop satisfies its defining equation.
LEMMA RatesLoopEq ==
    ASSUME ranges \in Seq(RangeRec)
    PROVE  RatesLoop(ranges) =
               [i \in 0..Len(ranges) |->
                   IF i = 0 THEN RatesInit ELSE RangeStep(RatesLoop(ranges)[i - 1], i)]
<1>1. FiniteNatInductiveDefHypothesis(RatesLoop(ranges), RatesInit, RangeStep, 0, Len(ranges))
    BY DEF FiniteNatInductiveDefHypothesis, RatesLoop, RangeStep
<1>2. FiniteNatInductiveDefConclusion(RatesLoop(ranges), RatesInit, RangeStep, 0, Len(ranges))
    BY <1>1, FiniteNatInductiveDef
<1>. QED BY <1>2 DEF FiniteNatInductiveDefConclusion

\* Before the loop (theLastIndex = 0, finalvec empty) the state is sound.
LEMMA RatesInitSound ==
    ASSUME NEW rs
    PROVE  Sound(RatesInit, rs)
<1>1. RatesInit \in [last: 0..N, stop: BOOLEAN, vec: Seq(Nat)]
    BY CommonTable DEF RatesInit
<1>2. Rng(RatesInit.vec) = {}
    BY DEF RatesInit, Rng
<1>. QED BY <1>1, <1>2 DEF Sound

\* Every state of the loop over a HAL answer is sound.  A least index
\* whose state is not sound cannot be 0 (RatesInitSound), and cannot be
\* a later one, whose state is one step from a sound state
\* (RatesStepSound).
LEMMA RatesLoopSound ==
    ASSUME AnswerOK(ranges)
    PROVE  \A i \in 0..Len(ranges) : Sound(RatesLoop(ranges)[i], ranges)
<1>1. ranges \in Seq(RangeRec)
    BY DEF AnswerOK
<1>2. RatesLoop(ranges) =
          [i \in 0..Len(ranges) |->
              IF i = 0 THEN RatesInit ELSE RangeStep(RatesLoop(ranges)[i - 1], i)]
    BY <1>1, RatesLoopEq
<1> SUFFICES ASSUME {i \in 0..Len(ranges) : ~Sound(RatesLoop(ranges)[i], ranges)} # {}
             PROVE  FALSE
    OBVIOUS
<1>3. PICK m \in {i \in 0..Len(ranges) : ~Sound(RatesLoop(ranges)[i], ranges)} :
          \A y \in {i \in 0..Len(ranges) : ~Sound(RatesLoop(ranges)[i], ranges)} : m <= y
    <2>1. {i \in 0..Len(ranges) : ~Sound(RatesLoop(ranges)[i], ranges)} \in SUBSET Nat
        BY <1>1
    <2>. QED BY <2>1, LeastNat, Zenon
<1>4. m # 0
    <2>1. RatesLoop(ranges)[0] = RatesInit
        BY <1>1, <1>2
    <2>. QED BY <1>3, <2>1, RatesInitSound
<1>5. m - 1 \in 0..Len(ranges) /\ Sound(RatesLoop(ranges)[m - 1], ranges)
    BY <1>1, <1>3, <1>4
<1>6. RatesLoop(ranges)[m] = RatesStep(RatesLoop(ranges)[m - 1], ranges[m])
    BY <1>1, <1>2, <1>3, <1>4 DEF RangeStep
<1>7. m \in 1..Len(ranges)
    BY <1>1, <1>3, <1>4
<1>8. Sound(RatesLoop(ranges)[m], ranges)
    BY <1>5, <1>6, <1>7, RatesStepSound
<1>. QED BY <1>3, <1>8

-----------------------------------------------------------------------------
(* The invariant.                                                          *)

\* Every answer Init allows is a HAL answer of the proofs' form, and Next
\* never changes it.
LEMMA AnswerInvariant == Spec => []AnswerOK(ranges)
<1>1. Init => AnswerOK(ranges)
    <2> SUFFICES ASSUME ranges \in Answers PROVE AnswerOK(ranges)
        BY DEF Init
    <2>1. PICK n \in 0..MaxRanges :
              ranges \in [1..n -> {r \in Range : r.min <= r.max}]
        BY Zenon DEF Answers
    <2>2. ranges \in Seq(RangeRec)
        <3>1. n \in Nat /\ ranges \in [1..n -> RangeRec]
            <4>1. {r \in Range : r.min <= r.max} \subseteq RangeRec
                BY EndpointsAssumption DEF Range, RangeRec
            <4>2. n \in Nat
                BY MaxRangesAssumption
            <4>. QED BY <2>1, <4>1, <4>2
        <3>. QED BY <3>1
    <2>. QED BY <2>1, <2>2 DEF AnswerOK
<1>2. AnswerOK(ranges) /\ [Next]_vars => AnswerOK(ranges)'
    BY DEF AnswerOK, Next, vars
<1>. QED BY <1>1, <1>2, PTL DEF Spec

\* CoreAudioData::RatesList reports only common rates that lie inside a
\* range the HAL reported, for every answer of at most MaxRanges ranges
\* over any endpoints: RatesSound, which the rates_sound run checks on
\* endpoints at the common rates and between them.
THEOREM RatesSoundCorrect == Spec => []RatesSound
<1>1. AnswerOK(ranges) => RatesSound
    <2> SUFFICES ASSUME AnswerOK(ranges) PROVE RatesSound
        OBVIOUS
    <2>1. Len(ranges) \in 0..Len(ranges)
        BY DEF AnswerOK
    <2>2. Sound(RatesLoop(ranges)[Len(ranges)], ranges)
        BY <2>1, RatesLoopSound
    <2>. QED BY <2>2 DEF Sound, Rng, RatesSound, RatesList
<1>. QED BY <1>1, AnswerInvariant, PTL
=============================================================================
