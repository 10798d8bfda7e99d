------------------------ MODULE CoreAudioDeviceProofs ------------------------
(***************************************************************************)
(* Proofs about the device life cycle of CoreAudioDevice, for every set of *)
(* streams, every set of failing HAL calls and every pid.                  *)
(***************************************************************************)
EXTENDS CoreAudioDevice, WellFoundedInduction, TLAPS

\* The members of CoreAudioData and the fields of the device, and the type
\* of each, stated field by field so that the provers need not unfold the
\* record sets DataType and HALType.
DataFields == {"digitalInUse", "hog", "mixerRestore", "revertFormat",
               "formatOrig", "streamID", "streamIndex", "ioProc",
               "initialized", "started", "outputUnit"}

DataFieldsTyped(r) ==
    /\ r.digitalInUse \in BOOLEAN
    /\ r.hog \in HogOwners
    /\ r.mixerRestore \in {-1, 0, 1}
    /\ r.revertFormat \in BOOLEAN
    /\ r.formatOrig \in Fmts \cup {"none"}
    /\ r.streamID \in Streams \cup {NoStream}
    /\ r.streamIndex \in Streams \cup {NoStream}
    /\ r.ioProc \in BOOLEAN
    /\ r.initialized \in BOOLEAN
    /\ r.started \in BOOLEAN
    /\ r.outputUnit \in BOOLEAN

HALFields == {"fmt", "hog", "mix", "proc", "unit"}

HALFieldsTyped(r) ==
    /\ r.fmt \in [Streams -> Fmts]
    /\ r.hog \in HogOwners
    /\ r.mix \in BOOLEAN
    /\ r.proc \in {"none", "registered", "running"}
    /\ r.unit \in {"none", "instance", "initialized", "running"}

\* The members are well typed, and a recorded original format
\* (mRevertFormat) names a format and a stream: CloseSPDIF writes
\* mFormatOrig back to stream mStreamID only then.
DataOK(dd) ==
    /\ dd = [x \in DataFields |-> dd[x]]
    /\ DataFieldsTyped(dd)
    /\ dd.revertFormat => dd.formatOrig \in Fmts /\ dd.streamID \in Streams

HALOK(h) == h = [x \in HALFields |-> h[x]] /\ HALFieldsTyped(h)

\* The result of a helper that returns the members and the device.
Typed(r) == DataOK(r.d) /\ HALOK(r.hal)

\* The inductive invariant behind TypeOK.
IInv ==
    /\ DataOK(d)
    /\ HALOK(hal)
    /\ phase \in {"open", "closed"}
    /\ orig \in [fmt: [Streams -> Fmts], mix: BOOLEAN]

-----------------------------------------------------------------------------
(* The record types, field by field.                                       *)

\* DataType holds exactly the records of the eleven members.
LEMMA DataTypeFields ==
    ASSUME NEW r
    PROVE  r \in DataType <=> r = [x \in DataFields |-> r[x]] /\ DataFieldsTyped(r)
BY DEF DataType, DataFields, DataFieldsTyped

\* HALType holds exactly the records of the five device fields.
LEMMA HALTypeFields ==
    ASSUME NEW r
    PROVE  r \in HALType <=> HALOK(r)
BY DEF HALType, HALOK, HALFields, HALFieldsTyped

-----------------------------------------------------------------------------
(* The first stream: a non-empty set of stream indices has a least one.    *)

\* OpenSPDIF takes the first AC-3 stream: FirstStream of a non-empty set of
\* naturals is a member of the set and no larger than any other.
LEMMA FirstStreamIsLeast ==
    ASSUME NEW S \in SUBSET Nat, S # {}
    PROVE  /\ FirstStream(S) \in S
           /\ \A j \in S : FirstStream(S) <= j
<1>1. \E x \in S : \A y \in S : ~(<<y, x>> \in OpToRel(<, Nat))
    BY NatLessThanWellFounded, WFMin
<1>2. \A x, y \in Nat : ~(<<y, x>> \in OpToRel(<, Nat)) => x <= y
    BY DEF OpToRel
<1>3. \E x \in S : \A y \in S : x <= y
    BY <1>1, <1>2
<1>. QED BY <1>3 DEF FirstStream

-----------------------------------------------------------------------------
(* Each helper of CoreAudioData keeps the members and the device typed.    *)

\* SetHogStatus changes mHog and the device's hog owner only.
LEMMA SetHogStatusTyped ==
    ASSUME NEW dd, DataOK(dd), NEW h, HALOK(h), NEW hog \in BOOLEAN, NEW F
    PROVE  /\ Typed(SetHogStatus(dd, h, hog, F))
           /\ SetHogStatus(dd, h, hog, F).hal.fmt = h.fmt
<1>. DEFINE toggled == HogToggle(h, Pid)
<1>1. HALOK(toggled) /\ toggled.fmt = h.fmt /\ toggled.hog \in HogOwners
    BY DEF HALOK, HALFieldsTyped, HALFields, HogToggle, HogOwners
<1>. HIDE DEF toggled
<1>2. DataOK([dd EXCEPT !.hog = toggled.hog])
    BY <1>1 DEF DataOK, DataFieldsTyped, DataFields
<1>3. CASE hog /\ dd.hog = -1 /\ "SetHog" \notin F
    BY <1>1, <1>2, <1>3 DEF SetHogStatus, Typed, toggled
<1>4. CASE ~(hog /\ dd.hog = -1 /\ "SetHog" \notin F)
           /\ ~hog /\ dd.hog > -1 /\ "ReleaseHog" \notin F
    BY <1>1, <1>2, <1>4 DEF SetHogStatus, Typed, toggled
<1>5. CASE ~(hog /\ dd.hog = -1 /\ "SetHog" \notin F)
           /\ ~(~hog /\ dd.hog > -1 /\ "ReleaseHog" \notin F)
    BY <1>5 DEF SetHogStatus, Typed
<1>. QED BY <1>3, <1>4, <1>5

\* SetMixingSupport changes mMixerRestore and the device's mixing only.
LEMMA SetMixingSupportTyped ==
    ASSUME NEW dd, DataOK(dd), NEW h, HALOK(h), NEW mix \in BOOLEAN,
           NEW call, NEW F
    PROVE  /\ Typed(SetMixingSupport(dd, h, mix, call, F))
           /\ SetMixingSupport(dd, h, mix, call, F).hal.fmt = h.fmt
<1>1. CASE call \in F
    BY <1>1 DEF SetMixingSupport, Typed
<1>2. CASE call \notin F
    <2>1. MixerRestoreValue(h, F) \in {0, 1}
        BY DEF MixerRestoreValue
    <2>. QED BY <1>2, <2>1 DEF SetMixingSupport, Typed, DataOK, DataFieldsTyped,
                               DataFields, HALOK, HALFieldsTyped, HALFields
<1>. QED BY <1>1, <1>2

\* AudioStreamChangeFormat sets one stream to one format.
LEMMA ChangeFormatTyped ==
    ASSUME NEW fmt \in [Streams -> Fmts], NEW s \in Streams, NEW f \in Fmts,
           NEW call, NEW F
    PROVE  /\ AudioStreamChangeFormat(fmt, s, f, call, F).fmt \in [Streams -> Fmts]
           /\ AudioStreamChangeFormat(fmt, s, f, call, F).ok \in BOOLEAN
BY DEF AudioStreamChangeFormat

\* Setting the formats and the IOProc state keeps the device typed.
LEMMA SetFmtProcTyped ==
    ASSUME NEW h, HALOK(h), NEW fm \in [Streams -> Fmts],
           NEW p \in {"none", "registered", "running"}
    PROVE  /\ HALOK([h EXCEPT !.fmt = fm, !.proc = p])
           /\ HALOK([h EXCEPT !.proc = p, !.fmt = fm])
BY DEF HALOK, HALFieldsTyped, HALFields

\* Setting the flags of a started IOProc or unit keeps the members typed.
LEMMA SetFlagsTyped ==
    ASSUME NEW dd, DataOK(dd), NEW a \in BOOLEAN, NEW b \in BOOLEAN
    PROVE  DataOK([dd EXCEPT !.ioProc = @ \/ a, !.started = @ \/ b])
BY DEF DataOK, DataFieldsTyped, DataFields

\* OpenSPDIF keeps everything typed, and the original format it records is
\* one of the stream it switches.
LEMMA OpenSPDIFTyped ==
    ASSUME NEW dd, DataOK(dd), NEW h, HALOK(h),
           NEW ac3At \in SUBSET Streams, NEW F
    PROVE  Typed(OpenSPDIF(dd, h, ac3At, F))
<1>1. CASE ac3At = {}
    BY <1>1 DEF OpenSPDIF, Typed
<1>2. CASE ac3At # {}
    <2>. DEFINE i        == FirstStream(ac3At)
                readOrig == ~dd.revertFormat /\ "GetOrigFormat" \notin F
                autoHog  == "SetAutoHog" \in F
                found    == [dd EXCEPT !.streamIndex = i, !.streamID = i,
                               !.formatOrig = IF readOrig THEN h.fmt[i] ELSE @,
                               !.revertFormat = @ \/ readOrig,
                               !.digitalInUse = TRUE]
                hogged   == IF autoHog THEN [d |-> found, hal |-> h]
                            ELSE SetHogStatus(found, h, TRUE, F)
                mixed    == IF autoHog THEN hogged
                            ELSE SetMixingSupport(hogged.d, hogged.hal, FALSE,
                                                  "SetMixing", F)
                changed  == AudioStreamChangeFormat(mixed.hal.fmt, i, "ac3",
                                                    "ChangeFormat", F)
                created  == changed.ok /\ "CreateIOProc" \notin F
                started  == created /\ "DeviceStart" \notin F
    <2>1. i \in Streams
        BY <1>2, FirstStreamIsLeast, StreamsAssumption
    <2>. HIDE DEF i
    <2>2. DataOK(found)
        BY <2>1 DEF DataOK, DataFieldsTyped, DataFields, HALOK, HALFieldsTyped,
                    Fmts
    <2>. HIDE DEF found
    <2>3. Typed(hogged)
        BY <2>2, SetHogStatusTyped DEF Typed
    <2>. HIDE DEF hogged
    <2>4. Typed(mixed)
        BY <2>3, SetMixingSupportTyped DEF Typed
    <2>. HIDE DEF mixed
    <2>5. changed.fmt \in [Streams -> Fmts] /\ changed.ok \in BOOLEAN
        BY <2>1, <2>4, ChangeFormatTyped DEF Typed, HALOK, HALFieldsTyped, Fmts
    <2>. HIDE DEF changed
    <2>6. created \in BOOLEAN /\ started \in BOOLEAN
        BY <2>5
    <2>. HIDE DEF created, started
    <2>7. DataOK([mixed.d EXCEPT !.ioProc = @ \/ created,
                                 !.started = @ \/ started])
        BY <2>4, <2>6, SetFlagsTyped DEF Typed
    <2>8. HALOK([mixed.hal EXCEPT !.fmt = changed.fmt,
                                  !.proc = IF started THEN "running"
                                             ELSE IF created THEN "registered"
                                             ELSE @])
        <3>1. (IF started THEN "running" ELSE IF created THEN "registered"
                 ELSE mixed.hal.proc) \in {"none", "registered", "running"}
            BY <2>4 DEF Typed, HALOK, HALFieldsTyped
        <3>. QED BY <2>4, <2>5, <3>1, SetFmtProcTyped DEF Typed
    <2>9. OpenSPDIF(dd, h, ac3At, F).d =
            [mixed.d EXCEPT !.ioProc = @ \/ created, !.started = @ \/ started]
        BY <1>2 DEF OpenSPDIF, i, found, hogged, mixed, changed, created,
                    started
    <2>10. OpenSPDIF(dd, h, ac3At, F).hal =
            [mixed.hal EXCEPT !.fmt = changed.fmt,
                              !.proc = IF started THEN "running"
                                         ELSE IF created THEN "registered"
                                         ELSE @]
        BY <1>2 DEF OpenSPDIF, i, found, hogged, mixed, changed, created,
                    started
    <2>. QED BY <2>7, <2>8, <2>9, <2>10 DEF Typed
<1>. QED BY <1>1, <1>2

\* Clearing the members of a closed S/PDIF path keeps them typed, and no
\* original format is recorded any more.
LEMMA ClearSPDIFTyped ==
    ASSUME NEW dd, DataOK(dd)
    PROVE  DataOK([dd EXCEPT !.started = FALSE, !.ioProc = FALSE,
                   !.revertFormat = FALSE, !.mixerRestore = -1,
                   !.streamIndex = NoStream])
BY DEF DataOK, DataFieldsTyped, DataFields

\* CloseSPDIF reverts the format only when one is recorded, so it writes a
\* format to a stream; it clears mRevertFormat.
LEMMA CloseSPDIFTyped ==
    ASSUME NEW dd, DataOK(dd), NEW h, HALOK(h), NEW F
    PROVE  Typed(CloseSPDIF(dd, h, F))
<1>1. CASE ~dd.digitalInUse
    BY <1>1 DEF CloseSPDIF, Typed
<1>2. CASE dd.digitalInUse
    <2>. DEFINE stopped   == dd.started /\ "DeviceStop" \notin F
                destroyed == dd.ioProc /\ "DestroyIOProc" \notin F
                reverted  == AudioStreamChangeFormat(h.fmt, dd.streamID,
                                  dd.formatOrig, "RevertFormat", F)
                unhogged  == SetHogStatus(dd, h, FALSE, F)
                restored  == IF dd.mixerRestore > -1
                               THEN SetMixingSupport(unhogged.d, unhogged.hal,
                                                     dd.mixerRestore # 0,
                                                     "RestoreMixing", F)
                               ELSE unhogged
    <2>1. Typed(unhogged)
        BY SetHogStatusTyped
    <2>. HIDE DEF unhogged
    <2>2. Typed(restored)
        BY <2>1, SetMixingSupportTyped DEF Typed
    <2>. HIDE DEF restored
    <2>3. dd.revertFormat => reverted.fmt \in [Streams -> Fmts]
        BY ChangeFormatTyped DEF DataOK, HALOK, HALFieldsTyped
    <2>. HIDE DEF reverted
    <2>4. DataOK([restored.d EXCEPT !.started = FALSE, !.ioProc = FALSE,
                   !.revertFormat = FALSE, !.mixerRestore = -1,
                   !.streamIndex = NoStream])
        BY <2>2, ClearSPDIFTyped DEF Typed
    <2>5. HALOK([restored.hal EXCEPT
                   !.proc = IF destroyed THEN "none"
                              ELSE IF stopped THEN "registered"
                              ELSE @,
                   !.fmt = IF dd.revertFormat THEN reverted.fmt ELSE @])
        <3>1. (IF destroyed THEN "none" ELSE IF stopped THEN "registered"
                 ELSE restored.hal.proc) \in {"none", "registered", "running"}
            BY <2>2 DEF Typed, HALOK, HALFieldsTyped
        <3>2. (IF dd.revertFormat THEN reverted.fmt ELSE restored.hal.fmt)
                \in [Streams -> Fmts]
            BY <2>2, <2>3 DEF Typed, HALOK, HALFieldsTyped
        <3>. QED BY <2>2, <3>1, <3>2, SetFmtProcTyped DEF Typed
    <2>6. CloseSPDIF(dd, h, F).d =
            [restored.d EXCEPT !.started = FALSE, !.ioProc = FALSE,
               !.revertFormat = FALSE, !.mixerRestore = -1,
               !.streamIndex = NoStream]
        BY <1>2 DEF CloseSPDIF, unhogged, restored
    <2>7. CloseSPDIF(dd, h, F).hal =
            [restored.hal EXCEPT
               !.proc = IF destroyed THEN "none"
                          ELSE IF stopped THEN "registered"
                          ELSE @,
               !.fmt = IF dd.revertFormat THEN reverted.fmt ELSE @]
        BY <1>2 DEF CloseSPDIF, unhogged, restored, reverted
    <2>. QED BY <2>4, <2>5, <2>6, <2>7 DEF Typed
<1>. QED BY <1>1, <1>2

\* Setting the flags of the analog steps that succeeded keeps the members
\* typed.
LEMMA SetUnitFlagsTyped ==
    ASSUME NEW dd, DataOK(dd), NEW a \in BOOLEAN, NEW b \in BOOLEAN,
           NEW c \in BOOLEAN, NEW e \in BOOLEAN
    PROVE  DataOK([dd EXCEPT !.outputUnit = @ \/ a, !.ioProc = @ \/ b,
                             !.initialized = @ \/ c, !.started = @ \/ e])
BY DEF DataOK, DataFieldsTyped, DataFields

\* AnalogUnitSetup sets the flags of the steps that succeeded and the unit.
LEMMA AnalogUnitSetupTyped ==
    ASSUME NEW dd, DataOK(dd), NEW h, HALOK(h), NEW F
    PROVE  Typed(AnalogUnitSetup(dd, h, F))
<1>. DEFINE created     == "FindComponent" \notin F /\ "InstanceNew" \notin F
            deviceSet   == created /\ "SetCurrentDevice" \notin F
            callbackSet == deviceSet /\ "SetStreamFormat" \notin F
                                     /\ "SetRenderCallback" \notin F
            initialized == callbackSet /\ "UnitInitialize" \notin F
            started     == initialized /\ "UnitStart" \notin F
<1>1. /\ created \in BOOLEAN /\ callbackSet \in BOOLEAN
      /\ initialized \in BOOLEAN /\ started \in BOOLEAN
    OBVIOUS
<1>. HIDE DEF created, deviceSet, callbackSet, initialized, started
<1>2. DataOK([dd EXCEPT !.outputUnit = @ \/ created,
                        !.ioProc = @ \/ callbackSet,
                        !.initialized = @ \/ initialized,
                        !.started = @ \/ started])
    BY <1>1, SetUnitFlagsTyped
<1>3. HALOK([h EXCEPT !.unit = IF started THEN "running"
                                 ELSE IF initialized THEN "initialized"
                                 ELSE IF created THEN "instance"
                                 ELSE @])
    BY DEF HALOK, HALFieldsTyped, HALFields
<1>. QED BY <1>2, <1>3
         DEF AnalogUnitSetup, Typed, created, deviceSet, callbackSet,
             initialized, started

\* CloseAnalog clears the flags and disposes of the unit.
LEMMA CloseAnalogTyped ==
    ASSUME NEW dd, DataOK(dd), NEW h, HALOK(h)
    PROVE  Typed(CloseAnalog(dd, h))
BY DEF CloseAnalog, Typed, DataOK, DataFieldsTyped, DataFields,
       HALOK, HALFieldsTyped, HALFields

\* The analog half of OpenDevice keeps everything typed.
LEMMA OpenDeviceAnalogTyped ==
    ASSUME NEW dd, DataOK(dd), NEW h, HALOK(h), NEW F
    PROVE  Typed(OpenDeviceAnalog(dd, h, F))
<1>1. DataOK([dd EXCEPT !.digitalInUse = FALSE])
    BY DEF DataOK, DataFieldsTyped, DataFields
<1>. DEFINE an == OpenAnalog(dd, h, F)
            cl == IF an.result < 0 THEN CloseAnalog(an.d, an.hal) ELSE an
<1>2. Typed(an)
    BY <1>1, AnalogUnitSetupTyped DEF OpenAnalog
<1>. HIDE DEF an
<1>3. Typed(cl)
    BY <1>2, CloseAnalogTyped DEF Typed
<1>. HIDE DEF cl
<1>4. Typed(CloseAnalog(cl.d, cl.hal))
    BY <1>3, CloseAnalogTyped DEF Typed
<1>. QED BY <1>2, <1>4 DEF OpenDeviceAnalog, Typed, an, cl

-----------------------------------------------------------------------------
(* Type correctness.                                                       *)

\* The initial state: the constructor's members and a device whose streams
\* ResetAudioDevices left in some format.
LEMMA InitIInv == Init => IInv
<1>. SUFFICES ASSUME Init PROVE IInv
    OBVIOUS
<1>1. DataOK(d)
    BY DEF Init, InitialData, DataOK, DataFieldsTyped, DataFields, NoStream, HogOwners
<1>2. PICK fmt0 \in [Streams -> Fmts], resettable \in SUBSET Streams,
           mix0 \in BOOLEAN, hog0 \in {-1} \cup Others :
           hal = [fmt |-> ResetAudioDevices(fmt0, resettable), hog |-> hog0,
                  mix |-> mix0, proc |-> "none", unit |-> "none"]
    BY DEF Init
<1>3. ResetAudioDevices(fmt0, resettable) \in [Streams -> Fmts]
    BY DEF ResetAudioDevices, ResetStream, Fmts
<1>4. HALOK(hal)
    BY <1>2, <1>3 DEF HALOK, HALFieldsTyped, HALFields, HogOwners
<1>5. orig \in [fmt: [Streams -> Fmts], mix: BOOLEAN]
    BY <1>4 DEF Init, HALOK, HALFieldsTyped
<1>. QED BY <1>1, <1>4, <1>5 DEF Init, IInv

\* OpenDevice and CloseDevice keep the inductive invariant.
LEMMA NextIInv == IInv /\ [Next]_vars => IInv'
<1>. SUFFICES ASSUME IInv, [Next]_vars PROVE IInv'
    OBVIOUS
<1>1. CASE \E F \in SUBSET Faults, digital \in BOOLEAN, ac3At \in SUBSET Streams :
              OpenDevice(digital, ac3At, F)
    <2>. PICK F \in SUBSET Faults, digital \in BOOLEAN,
              ac3At \in SUBSET Streams : OpenDevice(digital, ac3At, F)
        BY <1>1
    <2>. DEFINE sp  == IF digital THEN OpenSPDIF(d, hal, ac3At, F)
                       ELSE [d |-> d, hal |-> hal, ok |-> FALSE]
                cs  == IF digital /\ ~sp.ok THEN CloseSPDIF(sp.d, sp.hal, F)
                       ELSE sp
                res == IF sp.ok THEN sp ELSE OpenDeviceAnalog(cs.d, cs.hal, F)
    <2>1. Typed(sp)
        BY OpenSPDIFTyped DEF IInv, Typed
    <2>. HIDE DEF sp
    <2>2. Typed(cs)
        BY <2>1, CloseSPDIFTyped DEF Typed
    <2>. HIDE DEF cs
    <2>3. Typed(res)
        BY <2>1, <2>2, OpenDeviceAnalogTyped DEF Typed
    <2>. HIDE DEF res
    <2>4. d' = res.d /\ hal' = res.hal /\ phase' \in {"open", "closed"}
          /\ orig' = orig
        BY DEF OpenDevice, sp, cs, res
    <2>. QED BY <2>3, <2>4 DEF Typed, IInv
<1>2. CASE \E F \in SUBSET Faults : CloseDevice(F)
    <2>. PICK F \in SUBSET Faults : CloseDevice(F)
        BY <1>2
    <2>1. Typed(CloseSPDIF(d, hal, F))
        BY CloseSPDIFTyped DEF IInv
    <2>2. Typed(CloseAnalog(d, hal))
        BY CloseAnalogTyped DEF IInv
    <2>. QED BY <2>1, <2>2 DEF CloseDevice, Typed, IInv
<1>3. CASE \E o \in Others : OtherToggleHog(o)
    <2>. PICK o \in Others : OtherToggleHog(o)
        BY <1>3
    <2>1. HALOK(HogToggle(hal, o))
        BY DEF IInv, HALOK, HALFieldsTyped, HALFields, HogToggle, HogOwners
    <2>. QED BY <2>1 DEF OtherToggleHog, IInv
<1>4. CASE UNCHANGED vars
    BY <1>4 DEF vars, IInv, DataOK, HALOK
<1>. QED BY <1>1, <1>2, <1>3, <1>4 DEF Next

\* Every state of every behaviour is typed: in particular the index
\* OpenSPDIF stores in mStreamIndex and mStreamID is a stream or -1, and
\* mHog names no process, this one or another one.
THEOREM TypeCorrect == Spec => []TypeOK
<1>1. IInv => TypeOK
    BY DataTypeFields, HALTypeFields DEF IInv, TypeOK, DataOK
<1>. QED BY <1>1, InitIInv, NextIInv, PTL DEF Spec

=============================================================================
