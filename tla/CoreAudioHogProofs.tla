-------------------------- MODULE CoreAudioHogProofs --------------------------
(***************************************************************************)
(* Proof that mHog never claims the hog mode for this process when the     *)
(* device does not give it to it (HogCacheSound), whatever other processes *)
(* toggle the hog mode in between and whichever HAL calls fail.            *)
(***************************************************************************)
EXTENDS CoreAudioDeviceProofs

\* The hog owner recorded in a helper's result is sound.
HogSound(r) == r.d.hog = Pid => r.hal.hog = Pid

\* A helper's result leaves mHog and the device's hog owner as they were.
HogKept(r, dd, h) == r.d.hog = dd.hog /\ r.hal.hog = h.hog

\* The inductive invariant: the types, and HogCacheSound.
HInv == IInv /\ HogCacheSound

-----------------------------------------------------------------------------
(* The helpers that do not touch the hog mode.                             *)

\* SetMixingSupport changes the mixing only.
LEMMA SetMixingSupportHog ==
    ASSUME NEW dd, DataOK(dd), NEW h, HALOK(h), NEW mix \in BOOLEAN,
           NEW call, NEW F
    PROVE  HogKept(SetMixingSupport(dd, h, mix, call, F), dd, h)
BY DEF SetMixingSupport, HogKept, DataOK, DataFields, HALOK, HALFields

\* CloseAnalog disposes of the unit only.
LEMMA CloseAnalogHog ==
    ASSUME NEW dd, DataOK(dd), NEW h, HALOK(h)
    PROVE  HogKept(CloseAnalog(dd, h), dd, h)
BY DEF CloseAnalog, HogKept, DataOK, DataFields, HALOK, HALFields

\* The analog half of OpenDevice sets the unit up and tears it down only.
LEMMA OpenDeviceAnalogHog ==
    ASSUME NEW dd, DataOK(dd), NEW h, HALOK(h), NEW F
    PROVE  HogKept(OpenDeviceAnalog(dd, h, F), dd, h)
<1>1. DataOK([dd EXCEPT !.digitalInUse = FALSE])
    BY DEF DataOK, DataFieldsTyped, DataFields
<1>. DEFINE an == OpenAnalog(dd, h, F)
            cl == IF an.result < 0 THEN CloseAnalog(an.d, an.hal) ELSE an
<1>2. Typed(an) /\ HogKept(an, dd, h)
    <2>1. Typed(an)
        BY <1>1, AnalogUnitSetupTyped DEF OpenAnalog
    <2>2. HogKept(an, dd, h)
        BY DEF OpenAnalog, AnalogUnitSetup, HogKept, DataOK, DataFields,
               HALOK, HALFields
    <2>. QED BY <2>1, <2>2
<1>. HIDE DEF an
<1>3. Typed(cl) /\ HogKept(cl, dd, h)
    <2>1. CASE an.result < 0
        <3>1. HogKept(CloseAnalog(an.d, an.hal), an.d, an.hal)
            BY <1>2, CloseAnalogHog DEF Typed
        <3>2. Typed(CloseAnalog(an.d, an.hal))
            BY <1>2, CloseAnalogTyped DEF Typed
        <3>. QED BY <1>2, <2>1, <3>1, <3>2 DEF HogKept
    <2>2. CASE ~(an.result < 0)
        BY <1>2, <2>2
    <2>. QED BY <2>1, <2>2
<1>. HIDE DEF cl
<1>4. HogKept(CloseAnalog(cl.d, cl.hal), dd, h)
    BY <1>3, CloseAnalogHog DEF Typed, HogKept
<1>. QED BY <1>2, <1>4 DEF OpenDeviceAnalog, HogKept, an, cl

-----------------------------------------------------------------------------
(* SetHogStatus and the S/PDIF path.                                       *)

\* SetHogStatus stores in mHog the owner the toggle returns (taking), or
\* that owner unless it is this process (releasing): mHog = getpid() only
\* when the device returned this process's pid, or when it was already so.
LEMMA SetHogStatusHog ==
    ASSUME NEW dd, DataOK(dd), NEW h, HALOK(h), NEW hog \in BOOLEAN, NEW F,
           dd.hog = Pid => h.hog = Pid
    PROVE  HogSound(SetHogStatus(dd, h, hog, F))
<1>. DEFINE toggled == HogToggle(h, Pid)
<1>1. toggled.hog \in HogOwners
    BY DEF HALOK, HALFieldsTyped, HALFields, HogToggle, HogOwners
<1>. HIDE DEF toggled
<1>2. CASE hog /\ dd.hog = -1 /\ "SetHog" \notin F
    <2>1. SetHogStatus(dd, h, hog, F).d.hog = toggled.hog
        BY <1>2 DEF SetHogStatus, toggled, DataOK, DataFields
    <2>2. SetHogStatus(dd, h, hog, F).hal = toggled
        BY <1>2 DEF SetHogStatus, toggled
    <2>. QED BY <2>1, <2>2 DEF HogSound
<1>3. CASE ~(hog /\ dd.hog = -1 /\ "SetHog" \notin F)
           /\ ~hog /\ dd.hog > -1 /\ "ReleaseHog" \notin F
    <2>1. SetHogStatus(dd, h, hog, F).hal = toggled
        BY <1>3 DEF SetHogStatus, toggled
    <2>2. SetHogStatus(dd, h, hog, F).d.hog =
            IF toggled.hog = Pid THEN dd.hog ELSE toggled.hog
        BY <1>3 DEF SetHogStatus, toggled, DataOK, DataFields
    <2>. QED BY <2>1, <2>2 DEF HogSound
<1>4. CASE ~(hog /\ dd.hog = -1 /\ "SetHog" \notin F)
           /\ ~(~hog /\ dd.hog > -1 /\ "ReleaseHog" \notin F)
    BY <1>4 DEF SetHogStatus, HogSound
<1>. QED BY <1>2, <1>3, <1>4

\* OpenSPDIF changes the hog mode through SetHogStatus only.
LEMMA OpenSPDIFHog ==
    ASSUME NEW dd, DataOK(dd), NEW h, HALOK(h),
           NEW ac3At \in SUBSET Streams, NEW F,
           dd.hog = Pid => h.hog = Pid
    PROVE  HogSound(OpenSPDIF(dd, h, ac3At, F))
<1>1. CASE ac3At = {}
    BY <1>1 DEF OpenSPDIF, HogSound
<1>2. CASE ac3At # {}
    <2>. DEFINE i        == FirstStream(ac3At)
                readOrig == ~dd.revertFormat /\ "GetOrigFormat" \notin F
                autoHog  == "SetAutoHog" \in F
                found    == [dd EXCEPT !.streamIndex = i, !.streamID = i,
                               !.formatOrig = IF readOrig THEN h.fmt[i] ELSE @,
                               !.revertFormat = @ \/ readOrig,
                               !.digitalInUse = TRUE]
                hogged   == IF autoHog THEN [d |-> found, hal |-> h]
                            ELSE SetHogStatus(found, h, TRUE, F)
                mixed    == IF autoHog THEN hogged
                            ELSE SetMixingSupport(hogged.d, hogged.hal, FALSE,
                                                  "SetMixing", F)
                changed  == AudioStreamChangeFormat(mixed.hal.fmt, i, "ac3",
                                                    "ChangeFormat", F)
                created  == changed.ok /\ "CreateIOProc" \notin F
                started  == created /\ "DeviceStart" \notin F
    <2>1. i \in Streams
        BY <1>2, FirstStreamIsLeast, StreamsAssumption
    <2>. HIDE DEF i
    <2>2. DataOK(found) /\ found.hog = dd.hog
        BY <2>1 DEF DataOK, DataFieldsTyped, DataFields, HALOK, HALFieldsTyped,
                    Fmts
    <2>. HIDE DEF found
    <2>3. Typed(hogged) /\ HogSound(hogged)
        BY <2>2, SetHogStatusTyped, SetHogStatusHog DEF Typed, HogSound
    <2>. HIDE DEF hogged
    <2>4. Typed(mixed) /\ HogSound(mixed)
        <3>1. CASE autoHog
            BY <2>3, <3>1 DEF mixed
        <3>2. CASE ~autoHog
            <4>. DEFINE m == SetMixingSupport(hogged.d, hogged.hal, FALSE,
                                              "SetMixing", F)
            <4>1. Typed(m)
                BY <2>3, SetMixingSupportTyped DEF Typed
            <4>2. HogKept(m, hogged.d, hogged.hal)
                BY <2>3, SetMixingSupportHog DEF Typed
            <4>3. HogSound(m)
                BY <2>3, <4>2 DEF HogKept, HogSound
            <4>. QED BY <3>2, <4>1, <4>3 DEF mixed
        <3>. QED BY <3>1, <3>2
    <2>. HIDE DEF mixed, changed, created, started
    <2>5. OpenSPDIF(dd, h, ac3At, F).d =
            [mixed.d EXCEPT !.ioProc = @ \/ created, !.started = @ \/ started]
        BY <1>2 DEF OpenSPDIF, i, found, hogged, mixed, changed, created,
                    started
    <2>6. OpenSPDIF(dd, h, ac3At, F).hal =
            [mixed.hal EXCEPT !.fmt = changed.fmt,
                              !.proc = IF started THEN "running"
                                         ELSE IF created THEN "registered"
                                         ELSE @]
        BY <1>2 DEF OpenSPDIF, i, found, hogged, mixed, changed, created,
                    started
    <2>. QED BY <2>4, <2>5, <2>6
             DEF HogSound, Typed, DataOK, DataFields, HALOK, HALFields
<1>. QED BY <1>1, <1>2

\* CloseSPDIF changes the hog mode through SetHogStatus only.
LEMMA CloseSPDIFHog ==
    ASSUME NEW dd, DataOK(dd), NEW h, HALOK(h), NEW F,
           dd.hog = Pid => h.hog = Pid
    PROVE  HogSound(CloseSPDIF(dd, h, F))
<1>1. CASE ~dd.digitalInUse
    BY <1>1 DEF CloseSPDIF, HogSound
<1>2. CASE dd.digitalInUse
    <2>. DEFINE stopped   == dd.started /\ "DeviceStop" \notin F
                destroyed == dd.ioProc /\ "DestroyIOProc" \notin F
                reverted  == AudioStreamChangeFormat(h.fmt, dd.streamID,
                                  dd.formatOrig, "RevertFormat", F)
                unhogged  == SetHogStatus(dd, h, FALSE, F)
                restored  == IF dd.mixerRestore > -1
                               THEN SetMixingSupport(unhogged.d, unhogged.hal,
                                                     dd.mixerRestore # 0,
                                                     "RestoreMixing", F)
                               ELSE unhogged
    <2>1. Typed(unhogged) /\ HogSound(unhogged)
        BY SetHogStatusTyped, SetHogStatusHog
    <2>. HIDE DEF unhogged
    <2>2. Typed(restored) /\ HogSound(restored)
        <3>1. (dd.mixerRestore # 0) \in BOOLEAN
            OBVIOUS
        <3>2. CASE dd.mixerRestore > -1
            <4>. DEFINE m == SetMixingSupport(unhogged.d, unhogged.hal,
                                              dd.mixerRestore # 0,
                                              "RestoreMixing", F)
            <4>1. Typed(m)
                BY <2>1, <3>1, SetMixingSupportTyped DEF Typed
            <4>2. HogKept(m, unhogged.d, unhogged.hal)
                BY <2>1, <3>1, SetMixingSupportHog DEF Typed
            <4>3. HogSound(m)
                BY <2>1, <4>2 DEF HogKept, HogSound
            <4>. QED BY <3>2, <4>1, <4>3 DEF restored
        <3>3. CASE ~(dd.mixerRestore > -1)
            BY <2>1, <3>3 DEF restored
        <3>. QED BY <3>2, <3>3
    <2>. HIDE DEF restored, reverted, stopped, destroyed
    <2>3. CloseSPDIF(dd, h, F).d =
            [restored.d EXCEPT !.started = FALSE, !.ioProc = FALSE,
               !.revertFormat = FALSE, !.mixerRestore = -1,
               !.streamIndex = NoStream]
        BY <1>2 DEF CloseSPDIF, unhogged, restored, stopped, destroyed,
                    reverted
    <2>4. CloseSPDIF(dd, h, F).hal =
            [restored.hal EXCEPT
               !.proc = IF destroyed THEN "none"
                          ELSE IF stopped THEN "registered"
                          ELSE @,
               !.fmt = IF dd.revertFormat THEN reverted.fmt ELSE @]
        BY <1>2 DEF CloseSPDIF, unhogged, restored, reverted, stopped,
                    destroyed
    <2>. QED BY <2>2, <2>3, <2>4
             DEF HogSound, Typed, DataOK, DataFields, HALOK, HALFields
<1>. QED BY <1>1, <1>2

-----------------------------------------------------------------------------
(* The invariant.                                                          *)

\* Initially mHog is -1.
LEMMA InitHInv == Init => HInv
BY InitIInv, PidAssumption DEF Init, InitialData, HInv, HogCacheSound

\* Every step keeps the hog owner recorded in mHog sound.
LEMMA NextHInv == HInv /\ [Next]_vars => HInv'
<1>. SUFFICES ASSUME HInv, [Next]_vars PROVE HInv'
    OBVIOUS
<1>1. IInv'
    BY NextIInv DEF HInv
<1>2. CASE \E F \in SUBSET Faults, digital \in BOOLEAN, ac3At \in SUBSET Streams :
              OpenDevice(digital, ac3At, F)
    <2>. PICK F \in SUBSET Faults, digital \in BOOLEAN,
              ac3At \in SUBSET Streams : OpenDevice(digital, ac3At, F)
        BY <1>2
    <2>. DEFINE sp  == IF digital THEN OpenSPDIF(d, hal, ac3At, F)
                       ELSE [d |-> d, hal |-> hal, ok |-> FALSE]
                cs  == IF digital /\ ~sp.ok THEN CloseSPDIF(sp.d, sp.hal, F)
                       ELSE sp
                res == IF sp.ok THEN sp ELSE OpenDeviceAnalog(cs.d, cs.hal, F)
    <2>1. Typed(sp) /\ HogSound(sp)
        BY OpenSPDIFTyped, OpenSPDIFHog DEF HInv, IInv, HogCacheSound,
                                            Typed, HogSound
    <2>. HIDE DEF sp
    <2>2. Typed(cs) /\ HogSound(cs)
        BY <2>1, CloseSPDIFTyped, CloseSPDIFHog DEF Typed, HogSound
    <2>. HIDE DEF cs
    <2>3. HogSound(res)
        BY <2>1, <2>2, OpenDeviceAnalogHog DEF Typed, HogSound, HogKept
    <2>. HIDE DEF res
    <2>4. d' = res.d /\ hal' = res.hal
        BY DEF OpenDevice, sp, cs, res
    <2>. QED BY <1>1, <2>3, <2>4 DEF HogSound, HInv, HogCacheSound
<1>3. CASE \E F \in SUBSET Faults : CloseDevice(F)
    <2>. PICK F \in SUBSET Faults : CloseDevice(F)
        BY <1>3
    <2>1. HogSound(CloseSPDIF(d, hal, F))
        BY CloseSPDIFHog DEF HInv, IInv, HogCacheSound
    <2>2. HogKept(CloseAnalog(d, hal), d, hal)
        BY CloseAnalogHog DEF HInv, IInv
    <2>. QED BY <1>1, <2>1, <2>2
             DEF CloseDevice, HogSound, HogKept, HInv, HogCacheSound
<1>4. CASE \E o \in Others : OtherToggleHog(o)
    <2>. PICK o \in Others : OtherToggleHog(o)
        BY <1>4
    <2>1. d.hog # Pid
        BY OthersAssumption, PidAssumption
        DEF OtherToggleHog, HInv, HogCacheSound
    <2>. QED BY <1>1, <2>1 DEF OtherToggleHog, HInv, HogCacheSound
<1>5. CASE UNCHANGED vars
    BY <1>1, <1>5 DEF vars, HInv, HogCacheSound
<1>. QED BY <1>2, <1>3, <1>4, <1>5 DEF Next

\* Whatever other processes do with the hog mode and whichever HAL calls
\* fail, mHog = getpid() only while the device's hog owner is this process
\* (SetHogStatus never takes a stale mHog for ownership).
THEOREM HogCacheCorrect == Spec => []HogCacheSound
<1>1. HInv => HogCacheSound
    BY DEF HInv
<1>. QED BY <1>1, InitHInv, NextHInv, PTL DEF Spec

=============================================================================
