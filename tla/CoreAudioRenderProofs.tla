------------------------ MODULE CoreAudioRenderProofs ------------------------
(***************************************************************************)
(* Proofs about the device composed with the HAL's I/O thread and the     *)
(* player's flags (CoreAudioRender): the render callbacks and the pause   *)
(* and kill requests change none of the device's variables, and the       *)
(* device steps of the composition are steps of CoreAudioDevice, so the   *)
(* device's inductive invariants carry over to the composition.           *)
(***************************************************************************)
EXTENDS CoreAudioRender, CoreAudioHogProofs

\* The inductive invariant of the composition: the device's, and the types
\* of the flags and of the I/O thread's state.
RInv ==
    /\ HInv
    /\ pauseAudio \in BOOLEAN
    /\ killAudio \in BOOLEAN
    /\ actuallyPaused \in BOOLEAN
    /\ cb \in {"idle", "pause", "play"}

\* A device step of the composition is a step of CoreAudioDevice: the only
\* difference, the idle I/O thread CloseDevice waits for, is a guard.
LEMMA DeviceStepNext == DeviceStep => Next
BY DEF DeviceStep, Next

\* The I/O thread and the player's flags leave the device's variables alone.
LEMMA RenderStepsKeepDevice ==
    ASSUME \/ RenderCallbackSPDIF \/ RenderCallbackAnalog \/ RenderAudioReturn
           \/ \E b \in BOOLEAN : Pause(b)
           \/ Kill
    PROVE  UNCHANGED vars
BY DEF RenderCallbackSPDIF, RenderCallbackAnalog, RenderAudioReturn, Pause,
       Kill, vars

LEMMA InitRInv == RInit => RInv
BY InitHInv DEF RInit, RInv

LEMMA NextRInv == RInv /\ [RNext]_allVars => RInv'
<1>. SUFFICES ASSUME RInv, [RNext]_allVars PROVE RInv'
    OBVIOUS
<1>1. CASE DeviceStep
    <2>1. HInv'
        BY <1>1, DeviceStepNext, NextHInv DEF RInv
    <2>2. UNCHANGED renderVars
        BY <1>1 DEF DeviceStep
    <2>. QED
        BY <2>1, <2>2 DEF RInv, renderVars
<1>2. CASE \/ RenderCallbackSPDIF \/ RenderCallbackAnalog \/ RenderAudioReturn
           \/ \E b \in BOOLEAN : Pause(b)
           \/ Kill
    <2>1. HInv'
        BY <1>2, RenderStepsKeepDevice, NextHInv DEF RInv
    <2>2. /\ pauseAudio' \in BOOLEAN
          /\ killAudio' \in BOOLEAN
          /\ actuallyPaused' \in BOOLEAN
          /\ cb' \in {"idle", "pause", "play"}
        BY <1>2 DEF RInv, RenderCallbackSPDIF, RenderCallbackAnalog,
                    RenderAudioReturn, RenderAudioTest, Pause, Kill
    <2>. QED
        BY <2>1, <2>2 DEF RInv
<1>3. CASE UNCHANGED allVars
    <2>1. UNCHANGED vars
        BY <1>3 DEF allVars, vars
    <2>. QED
        BY <1>3, <2>1, NextHInv DEF RInv, allVars
<1>. QED
    BY <1>1, <1>2, <1>3 DEF RNext

\* With the render callbacks and the player's flags running beside the
\* device steps, every variable stays typed.
THEOREM RenderTypeCorrect == RSpec => []RTypeOK
<1>1. RInv => RTypeOK
    BY DataTypeFields, HALTypeFields DEF RInv, HInv, IInv, RTypeOK, TypeOK, DataOK
<1>. QED
    BY <1>1, InitRInv, NextRInv, PTL DEF RSpec

\* mHog never claims the hog mode the device does not give this process,
\* whatever the HAL's I/O thread and the player's pause requests do in
\* between the device steps.
THEOREM RenderHogCacheCorrect == RSpec => []HogCacheSound
<1>1. RInv => HogCacheSound
    BY DEF RInv, HInv
<1>. QED
    BY <1>1, InitRInv, NextRInv, PTL DEF RSpec

-----------------------------------------------------------------------------
(* Render callbacks run only while the device is open.                     *)

\* The hypothesis: in every CloseSPDIF, AudioDeviceStop or
\* AudioDeviceDestroyIOProcID works.  When both fail, the IOProc is left
\* running on a closed device, as the device_stop run shows.
StopWorks == ~({"DeviceStop", "DestroyIOProc"} \subseteq Faults)

\* An IOProc runs only on an open device whose S/PDIF path is in use and
\* records it as started and registered; an AudioUnit runs only on an
\* open device whose analog path is in use and records the unit.  These
\* are the flags CloseDevice and CloseSPDIF test before they stop it.
PathsOK(dd, h, ph) ==
    /\ h.proc = "running" =>
           ph = "open" /\ dd.digitalInUse /\ dd.started /\ dd.ioProc
    /\ h.unit = "running" =>
           ph = "open" /\ ~dd.digitalInUse /\ dd.outputUnit

\* A helper result leaves the IOProc, the unit and their flags as they were.
PathsKept(r, dd, h) ==
    /\ r.hal.proc = h.proc /\ r.hal.unit = h.unit
    /\ r.d.digitalInUse = dd.digitalInUse /\ r.d.started = dd.started
    /\ r.d.ioProc = dd.ioProc /\ r.d.outputUnit = dd.outputUnit

\* SetHogStatus changes the hog mode and mHog only.
LEMMA SetHogStatusPaths ==
    ASSUME NEW dd, DataOK(dd), NEW h, HALOK(h), NEW hog, NEW F
    PROVE  PathsKept(SetHogStatus(dd, h, hog, F), dd, h)
<1>1. HogToggle(h, Pid).proc = h.proc /\ HogToggle(h, Pid).unit = h.unit
    BY DEF HogToggle, HALOK, HALFields
<1>2. PathsKept([d |-> [dd EXCEPT !.hog = HogToggle(h, Pid).hog],
                 hal |-> HogToggle(h, Pid)], dd, h)
    BY <1>1 DEF PathsKept, DataOK, DataFields
<1>3. PathsKept([d |-> dd, hal |-> HogToggle(h, Pid)], dd, h)
    BY <1>1 DEF PathsKept
<1>4. PathsKept([d |-> dd, hal |-> h], dd, h)
    BY DEF PathsKept
<1>. QED BY <1>2, <1>3, <1>4 DEF SetHogStatus

\* SetMixingSupport changes the mixing and mMixerRestore only.
LEMMA SetMixingSupportPaths ==
    ASSUME NEW dd, DataOK(dd), NEW h, HALOK(h), NEW mix, NEW call, NEW F
    PROVE  PathsKept(SetMixingSupport(dd, h, mix, call, F), dd, h)
BY DEF SetMixingSupport, PathsKept, DataOK, DataFields, HALOK, HALFields

\* CloseAnalog leaves the IOProc alone and disposes of a recorded unit.
LEMMA CloseAnalogPaths ==
    ASSUME NEW dd, DataOK(dd), NEW h, HALOK(h)
    PROVE  /\ CloseAnalog(dd, h).hal.proc = h.proc
           /\ CloseAnalog(dd, h).hal.unit = IF dd.outputUnit THEN "none" ELSE h.unit
BY DEF CloseAnalog, HALOK, HALFields

\* CloseSPDIF leaves no IOProc running when one of its two calls works,
\* and leaves the unit alone.
LEMMA CloseSPDIFPaths ==
    ASSUME NEW dd, DataOK(dd), NEW h, HALOK(h), NEW F,
           ~({"DeviceStop", "DestroyIOProc"} \subseteq F),
           h.proc = "running" => dd.digitalInUse /\ dd.started /\ dd.ioProc
    PROVE  /\ CloseSPDIF(dd, h, F).hal.proc # "running"
           /\ CloseSPDIF(dd, h, F).hal.unit = h.unit
<1>1. CASE ~dd.digitalInUse
    BY <1>1 DEF CloseSPDIF
<1>2. CASE dd.digitalInUse
    <2>. DEFINE stopped   == dd.started /\ "DeviceStop" \notin F
                destroyed == dd.ioProc /\ "DestroyIOProc" \notin F
                reverted  == AudioStreamChangeFormat(h.fmt, dd.streamID,
                                  dd.formatOrig, "RevertFormat", F)
                unhogged  == SetHogStatus(dd, h, FALSE, F)
                restored  == IF dd.mixerRestore > -1
                               THEN SetMixingSupport(unhogged.d, unhogged.hal,
                                                     dd.mixerRestore # 0,
                                                     "RestoreMixing", F)
                               ELSE unhogged
    <2>1. Typed(unhogged) /\ PathsKept(unhogged, dd, h)
        BY SetHogStatusTyped, SetHogStatusPaths
    <2>. HIDE DEF unhogged
    <2>2. Typed(restored) /\ restored.hal.proc = h.proc /\ restored.hal.unit = h.unit
        <3>1. CASE dd.mixerRestore > -1
            <4>1. PathsKept(SetMixingSupport(unhogged.d, unhogged.hal,
                                             dd.mixerRestore # 0,
                                             "RestoreMixing", F),
                            unhogged.d, unhogged.hal)
                BY <2>1, SetMixingSupportPaths DEF Typed
            <4>2. Typed(SetMixingSupport(unhogged.d, unhogged.hal,
                                         dd.mixerRestore # 0,
                                         "RestoreMixing", F))
                BY <2>1, SetMixingSupportTyped DEF Typed
            <4>. QED BY <2>1, <3>1, <4>1, <4>2 DEF restored, PathsKept
        <3>2. CASE ~(dd.mixerRestore > -1)
            BY <2>1, <3>2 DEF restored, PathsKept
        <3>. QED BY <3>1, <3>2
    <2>. HIDE DEF restored, reverted
    <2>3. CloseSPDIF(dd, h, F).hal =
            [restored.hal EXCEPT
               !.proc = IF destroyed THEN "none"
                          ELSE IF stopped THEN "registered"
                          ELSE @,
               !.fmt = IF dd.revertFormat THEN reverted.fmt ELSE @]
        BY <1>2 DEF CloseSPDIF, unhogged, restored, reverted
    <2>4. h.proc = "running" => destroyed \/ stopped
        OBVIOUS
    <2>. HIDE DEF stopped, destroyed
    <2>. QED BY <2>2, <2>3, <2>4 DEF Typed, HALOK, HALFields
<1>. QED BY <1>1, <1>2

\* OpenSPDIF leaves the unit alone, and the IOProc it finds not running
\* runs afterwards only when it reports success, with mDigitalInUse,
\* mStarted and mIoProc set.
LEMMA OpenSPDIFPaths ==
    ASSUME NEW dd, DataOK(dd), NEW h, HALOK(h), NEW ac3At \in SUBSET Streams,
           NEW F, h.proc # "running"
    PROVE  /\ OpenSPDIF(dd, h, ac3At, F).hal.unit = h.unit
           /\ OpenSPDIF(dd, h, ac3At, F).hal.proc = "running" =>
                  /\ OpenSPDIF(dd, h, ac3At, F).ok
                  /\ OpenSPDIF(dd, h, ac3At, F).d.digitalInUse
                  /\ OpenSPDIF(dd, h, ac3At, F).d.started
                  /\ OpenSPDIF(dd, h, ac3At, F).d.ioProc
<1>1. CASE ac3At = {}
    BY <1>1 DEF OpenSPDIF
<1>2. CASE ac3At # {}
    <2>. DEFINE i        == FirstStream(ac3At)
                readOrig == ~dd.revertFormat /\ "GetOrigFormat" \notin F
                autoHog  == "SetAutoHog" \in F
                found    == [dd EXCEPT !.streamIndex = i, !.streamID = i,
                               !.formatOrig = IF readOrig THEN h.fmt[i] ELSE @,
                               !.revertFormat = @ \/ readOrig,
                               !.digitalInUse = TRUE]
                hogged   == IF autoHog THEN [d |-> found, hal |-> h]
                            ELSE SetHogStatus(found, h, TRUE, F)
                mixed    == IF autoHog THEN hogged
                            ELSE SetMixingSupport(hogged.d, hogged.hal, FALSE,
                                                  "SetMixing", F)
                changed  == AudioStreamChangeFormat(mixed.hal.fmt, i, "ac3",
                                                    "ChangeFormat", F)
                created  == changed.ok /\ "CreateIOProc" \notin F
                started  == created /\ "DeviceStart" \notin F
    <2>1. i \in Streams
        BY <1>2, FirstStreamIsLeast, StreamsAssumption
    <2>. HIDE DEF i
    <2>2. DataOK(found) /\ found.digitalInUse
        BY <2>1 DEF DataOK, DataFieldsTyped, DataFields, HALOK, HALFieldsTyped,
                    Fmts
    <2>. HIDE DEF found
    <2>3. Typed(hogged) /\ hogged.hal.proc = h.proc /\ hogged.hal.unit = h.unit
          /\ hogged.d.digitalInUse
        <3>1. CASE autoHog
            BY <2>2, <3>1 DEF hogged, Typed
        <3>2. CASE ~autoHog
            <4>1. Typed(SetHogStatus(found, h, TRUE, F))
                BY <2>2, SetHogStatusTyped
            <4>2. PathsKept(SetHogStatus(found, h, TRUE, F), found, h)
                BY <2>2, SetHogStatusPaths
            <4>. QED BY <2>2, <3>2, <4>1, <4>2 DEF hogged, PathsKept
        <3>. QED BY <3>1, <3>2
    <2>. HIDE DEF hogged
    <2>4. mixed.hal.proc = h.proc /\ mixed.hal.unit = h.unit
          /\ mixed.d.digitalInUse /\ Typed(mixed)
        <3>1. CASE autoHog
            BY <2>3, <3>1 DEF mixed
        <3>2. CASE ~autoHog
            <4>1. Typed(SetMixingSupport(hogged.d, hogged.hal, FALSE,
                                         "SetMixing", F))
                BY <2>3, SetMixingSupportTyped DEF Typed
            <4>2. PathsKept(SetMixingSupport(hogged.d, hogged.hal, FALSE,
                                             "SetMixing", F),
                            hogged.d, hogged.hal)
                BY <2>3, SetMixingSupportPaths DEF Typed
            <4>. QED BY <2>3, <3>2, <4>1, <4>2 DEF mixed, PathsKept
        <3>. QED BY <3>1, <3>2
    <2>. HIDE DEF mixed, changed, created, started
    <2>5. /\ OpenSPDIF(dd, h, ac3At, F).ok = started
          /\ OpenSPDIF(dd, h, ac3At, F).d =
                [mixed.d EXCEPT !.ioProc = @ \/ created, !.started = @ \/ started]
          /\ OpenSPDIF(dd, h, ac3At, F).hal =
                [mixed.hal EXCEPT
                   !.fmt = changed.fmt,
                   !.proc = IF started THEN "running"
                              ELSE IF created THEN "registered"
                              ELSE @]
        <3>1. OpenSPDIF(dd, h, ac3At, F).ok = started
            BY <1>2 DEF OpenSPDIF, i, found, hogged, mixed, changed, created,
                        started
        <3>2. OpenSPDIF(dd, h, ac3At, F).d =
                [mixed.d EXCEPT !.ioProc = @ \/ created, !.started = @ \/ started]
            BY <1>2 DEF OpenSPDIF, i, found, hogged, mixed, changed, created,
                        started
        <3>3. OpenSPDIF(dd, h, ac3At, F).hal =
                [mixed.hal EXCEPT
                   !.fmt = changed.fmt,
                   !.proc = IF started THEN "running"
                              ELSE IF created THEN "registered"
                              ELSE @]
            BY <1>2 DEF OpenSPDIF, i, found, hogged, mixed, changed, created,
                        started
        <3>. QED BY <3>1, <3>2, <3>3
    <2>6. started => created
        BY DEF started
    <2>. QED BY <2>4, <2>5, <2>6 DEF Typed, HALOK, HALFields, DataOK, DataFields
<1>. QED BY <1>1, <1>2

\* AnalogUnitSetup leaves the IOProc and mDigitalInUse alone; the unit
\* it finds not running runs afterwards exactly when it returns 1, and
\* mOutputUnit is then set.
LEMMA AnalogUnitSetupPaths ==
    ASSUME NEW dd, DataOK(dd), NEW h, HALOK(h), NEW F, h.unit # "running"
    PROVE  /\ AnalogUnitSetup(dd, h, F).hal.proc = h.proc
           /\ AnalogUnitSetup(dd, h, F).d.digitalInUse = dd.digitalInUse
           /\ AnalogUnitSetup(dd, h, F).hal.unit = "running" =>
                  AnalogUnitSetup(dd, h, F).d.outputUnit
           /\ AnalogUnitSetup(dd, h, F).result > 0 <=>
                  AnalogUnitSetup(dd, h, F).hal.unit = "running"
<1>. DEFINE created     == "FindComponent" \notin F /\ "InstanceNew" \notin F
            deviceSet   == created /\ "SetCurrentDevice" \notin F
            callbackSet == deviceSet /\ "SetStreamFormat" \notin F
                                     /\ "SetRenderCallback" \notin F
            initialized == callbackSet /\ "UnitInitialize" \notin F
            started     == initialized /\ "UnitStart" \notin F
<1>1. started => created /\ deviceSet
    OBVIOUS
<1>. HIDE DEF created, deviceSet, callbackSet, initialized, started
<1>2. AnalogUnitSetup(dd, h, F).result > 0 <=> started
    BY <1>1 DEF AnalogUnitSetup, created, deviceSet, callbackSet,
                initialized, started
<1>3. AnalogUnitSetup(dd, h, F).hal.unit = "running" <=> started
    BY DEF AnalogUnitSetup, HALOK, HALFields, created, deviceSet, callbackSet,
           initialized, started
<1>4. /\ AnalogUnitSetup(dd, h, F).hal.proc = h.proc
      /\ AnalogUnitSetup(dd, h, F).d.digitalInUse = dd.digitalInUse
      /\ AnalogUnitSetup(dd, h, F).d.outputUnit = (dd.outputUnit \/ created)
    BY DEF AnalogUnitSetup, HALOK, HALFields, DataOK, DataFields, created,
           deviceSet, callbackSet, initialized, started
<1>. QED BY <1>1, <1>2, <1>3, <1>4

\* The analog half of OpenDevice leaves the IOProc alone, and the unit it
\* finds not running runs afterwards only when it reports success, with
\* mDigitalInUse cleared and mOutputUnit set.
LEMMA OpenDeviceAnalogPaths ==
    ASSUME NEW dd, DataOK(dd), NEW h, HALOK(h), NEW F, h.unit # "running"
    PROVE  /\ OpenDeviceAnalog(dd, h, F).hal.proc = h.proc
           /\ OpenDeviceAnalog(dd, h, F).hal.unit = "running" =>
                  /\ OpenDeviceAnalog(dd, h, F).ok
                  /\ ~OpenDeviceAnalog(dd, h, F).d.digitalInUse
                  /\ OpenDeviceAnalog(dd, h, F).d.outputUnit
<1>1. DataOK([dd EXCEPT !.digitalInUse = FALSE])
      /\ [dd EXCEPT !.digitalInUse = FALSE].digitalInUse = FALSE
    BY DEF DataOK, DataFieldsTyped, DataFields
<1>. DEFINE an == OpenAnalog(dd, h, F)
            cl == IF an.result < 0 THEN CloseAnalog(an.d, an.hal) ELSE an
            cc == CloseAnalog(cl.d, cl.hal)
<1>2. /\ Typed(an)
      /\ an.hal.proc = h.proc
      /\ ~an.d.digitalInUse
      /\ an.hal.unit = "running" => an.d.outputUnit
      /\ an.result > 0 <=> an.hal.unit = "running"
    <2>1. PICK d0 : d0 = [dd EXCEPT !.digitalInUse = FALSE]
        OBVIOUS
    <2>2. DataOK(d0) /\ d0.digitalInUse = FALSE
        BY <1>1, <2>1
    <2>3. Typed(AnalogUnitSetup(d0, h, F))
        BY <2>2, AnalogUnitSetupTyped
    <2>4. /\ AnalogUnitSetup(d0, h, F).hal.proc = h.proc
          /\ AnalogUnitSetup(d0, h, F).d.digitalInUse = d0.digitalInUse
          /\ AnalogUnitSetup(d0, h, F).hal.unit = "running" =>
                 AnalogUnitSetup(d0, h, F).d.outputUnit
          /\ AnalogUnitSetup(d0, h, F).result > 0 <=>
                 AnalogUnitSetup(d0, h, F).hal.unit = "running"
        BY <2>2, AnalogUnitSetupPaths
    <2>5. an = AnalogUnitSetup(d0, h, F)
        BY <2>1 DEF OpenAnalog
    <2>. QED BY <2>2, <2>3, <2>4, <2>5
<1>. HIDE DEF an
<1>3. CASE an.result > 0
    BY <1>2, <1>3 DEF OpenDeviceAnalog, an
<1>4. CASE ~(an.result > 0)
    <2>1. Typed(cl) /\ cl.hal.proc = h.proc /\ cl.hal.unit # "running"
        <3>1. CASE an.result < 0
            BY <1>2, <1>4, <3>1, CloseAnalogTyped, CloseAnalogPaths DEF Typed, cl
        <3>2. CASE ~(an.result < 0)
            BY <1>2, <1>4, <3>2 DEF cl
        <3>. QED BY <3>1, <3>2
    <2>. HIDE DEF cl
    <2>2. cc.hal.proc = h.proc /\ cc.hal.unit # "running"
        BY <2>1, CloseAnalogPaths DEF Typed, cc
    <2>. HIDE DEF cc
    <2>3. OpenDeviceAnalog(dd, h, F) = [d |-> cc.d, hal |-> cc.hal, ok |-> FALSE]
        BY <1>4 DEF OpenDeviceAnalog, an, cl, cc
    <2>. QED BY <2>2, <2>3
<1>. QED BY <1>3, <1>4

\* Every device step keeps PathsOK: OpenDevice starts a path only when it
\* reports success, and CloseDevice stops the path mDigitalInUse names.
LEMMA NextPathsOK ==
    ASSUME StopWorks, IInv, PathsOK(d, hal, phase), [Next]_vars
    PROVE  PathsOK(d', hal', phase')
<1>1. CASE \E F \in SUBSET Faults, digital \in BOOLEAN, ac3At \in SUBSET Streams :
              OpenDevice(digital, ac3At, F)
    <2>. PICK F \in SUBSET Faults, digital \in BOOLEAN,
              ac3At \in SUBSET Streams : OpenDevice(digital, ac3At, F)
        BY <1>1
    <2>. DEFINE sp  == IF digital THEN OpenSPDIF(d, hal, ac3At, F)
                       ELSE [d |-> d, hal |-> hal, ok |-> FALSE]
                cs  == IF digital /\ ~sp.ok THEN CloseSPDIF(sp.d, sp.hal, F)
                       ELSE sp
                res == IF sp.ok THEN sp ELSE OpenDeviceAnalog(cs.d, cs.hal, F)
    <2>1. hal.proc # "running" /\ hal.unit # "running"
        BY DEF OpenDevice, PathsOK
    <2>2. /\ Typed(sp)
          /\ sp.hal.unit # "running"
          /\ sp.hal.proc = "running" =>
                sp.ok /\ sp.d.digitalInUse /\ sp.d.started /\ sp.d.ioProc
        <3>1. CASE digital
            BY <2>1, <3>1, OpenSPDIFTyped, OpenSPDIFPaths DEF IInv
        <3>2. CASE ~digital
            BY <2>1, <3>2 DEF IInv, Typed
        <3>. QED BY <3>1, <3>2
    <2>. HIDE DEF sp
    <2>3. d' = res.d /\ hal' = res.hal /\ phase' = IF res.ok THEN "open" ELSE "closed"
        BY DEF OpenDevice, sp, cs, res
    <2>4. CASE sp.ok
        BY <2>2, <2>3, <2>4 DEF res, PathsOK
    <2>5. CASE ~sp.ok
        <3>1. Typed(cs) /\ cs.hal.proc # "running" /\ cs.hal.unit # "running"
            <4>1. CASE digital
                <5>1. ~({"DeviceStop", "DestroyIOProc"} \subseteq F)
                    BY DEF StopWorks
                <5>2. /\ CloseSPDIF(sp.d, sp.hal, F).hal.proc # "running"
                      /\ CloseSPDIF(sp.d, sp.hal, F).hal.unit = sp.hal.unit
                    BY <2>2, <2>5, <5>1, CloseSPDIFPaths DEF Typed
                <5>3. Typed(CloseSPDIF(sp.d, sp.hal, F))
                    BY <2>2, CloseSPDIFTyped DEF Typed
                <5>. QED BY <2>2, <2>5, <4>1, <5>2, <5>3 DEF cs
            <4>2. CASE ~digital
                BY <2>2, <2>5, <4>2 DEF cs
            <4>. QED BY <4>1, <4>2
        <3>. HIDE DEF cs
        <3>2. /\ OpenDeviceAnalog(cs.d, cs.hal, F).hal.proc = cs.hal.proc
              /\ OpenDeviceAnalog(cs.d, cs.hal, F).hal.unit = "running" =>
                    /\ OpenDeviceAnalog(cs.d, cs.hal, F).ok
                    /\ ~OpenDeviceAnalog(cs.d, cs.hal, F).d.digitalInUse
                    /\ OpenDeviceAnalog(cs.d, cs.hal, F).d.outputUnit
            BY <3>1, OpenDeviceAnalogPaths DEF Typed
        <3>. QED BY <2>3, <2>5, <3>1, <3>2 DEF res, PathsOK
    <2>. QED BY <2>4, <2>5
<1>2. CASE \E F \in SUBSET Faults : CloseDevice(F)
    <2>. PICK F \in SUBSET Faults : CloseDevice(F)
        BY <1>2
    <2>1. phase = "open" /\ phase' = "closed"
        BY DEF CloseDevice
    <2>2. CASE d.digitalInUse
        <3>1. ~({"DeviceStop", "DestroyIOProc"} \subseteq F)
            BY DEF StopWorks
        <3>2. /\ CloseSPDIF(d, hal, F).hal.proc # "running"
              /\ CloseSPDIF(d, hal, F).hal.unit = hal.unit
            BY <2>2, <3>1, CloseSPDIFPaths DEF IInv, PathsOK
        <3>3. hal' = CloseSPDIF(d, hal, F).hal
            BY <2>2 DEF CloseDevice
        <3>. QED BY <2>1, <2>2, <3>2, <3>3 DEF PathsOK
    <2>3. CASE ~d.digitalInUse
        <3>1. /\ CloseAnalog(d, hal).hal.proc = hal.proc
              /\ CloseAnalog(d, hal).hal.unit = IF d.outputUnit THEN "none" ELSE hal.unit
            BY CloseAnalogPaths DEF IInv
        <3>2. hal' = CloseAnalog(d, hal).hal
            BY <2>3 DEF CloseDevice
        <3>. QED BY <2>1, <2>3, <3>1, <3>2 DEF PathsOK
    <2>. QED BY <2>2, <2>3
<1>3. CASE \E o \in Others : OtherToggleHog(o)
    <2>. PICK o \in Others : OtherToggleHog(o)
        BY <1>3
    <2>1. hal'.proc = hal.proc /\ hal'.unit = hal.unit
        BY DEF OtherToggleHog, HogToggle, IInv, HALOK, HALFields
    <2>. QED BY <2>1 DEF OtherToggleHog, PathsOK
<1>4. CASE UNCHANGED vars
    BY <1>4 DEF vars, PathsOK
<1>. QED BY <1>1, <1>2, <1>3, <1>4 DEF Next

\* The inductive invariant behind CallbackOnlyWhileOpen: the composition's
\* types, PathsOK, and the property.  The property alone is not
\* inductive: a callback starts whenever an IOProc or unit runs, so the
\* proof must know that one runs only on an open device (PathsOK), and
\* CloseDevice must find the flags of the running path set.
CInv == RInv /\ PathsOK(d, hal, phase) /\ CallbackOnlyWhileOpen

LEMMA InitCInv == RInit => CInv
BY InitRInv DEF RInit, Init, CInv, PathsOK, CallbackOnlyWhileOpen

LEMMA NextCInv ==
    ASSUME StopWorks
    PROVE  CInv /\ [RNext]_allVars => CInv'
<1>. SUFFICES ASSUME CInv, [RNext]_allVars PROVE CInv'
    OBVIOUS
<1>1. RInv'
    BY NextRInv DEF CInv
<1>2. CASE DeviceStep
    <2>1. PathsOK(d, hal, phase)'
        BY <1>2, DeviceStepNext, NextPathsOK DEF CInv, RInv, HInv
    <2>2. cb' = cb
        BY <1>2 DEF DeviceStep, renderVars
    <2>3. cb # "idle" => phase' = "open"
        <3>1. CASE \E F \in SUBSET Faults, digital \in BOOLEAN,
                     ac3At \in SUBSET Streams : OpenDevice(digital, ac3At, F)
            BY <3>1 DEF OpenDevice, CInv, CallbackOnlyWhileOpen
        <3>2. CASE \E F \in SUBSET Faults : cb = "idle" /\ CloseDevice(F)
            BY <3>2
        <3>3. CASE \E o \in Others : OtherToggleHog(o)
            BY <3>3 DEF OtherToggleHog, CInv, CallbackOnlyWhileOpen
        <3>. QED BY <1>2, <3>1, <3>2, <3>3 DEF DeviceStep
    <2>. QED BY <1>1, <2>1, <2>2, <2>3 DEF CInv, CallbackOnlyWhileOpen
<1>3. CASE RenderCallbackSPDIF \/ RenderCallbackAnalog
    <2>1. UNCHANGED vars
        BY <1>3, RenderStepsKeepDevice
    <2>2. phase = "open"
        BY <1>3 DEF RenderCallbackSPDIF, RenderCallbackAnalog, CInv, PathsOK
    <2>. QED BY <1>1, <2>1, <2>2 DEF CInv, PathsOK, CallbackOnlyWhileOpen, vars
<1>4. CASE RenderAudioReturn
    <2>1. UNCHANGED vars
        BY <1>4, RenderStepsKeepDevice
    <2>2. cb' = "idle"
        BY <1>4 DEF RenderAudioReturn
    <2>. QED BY <1>1, <2>1, <2>2 DEF CInv, PathsOK, CallbackOnlyWhileOpen, vars
<1>5. CASE (\E b \in BOOLEAN : Pause(b)) \/ Kill
    <2>1. UNCHANGED vars
        BY <1>5, RenderStepsKeepDevice
    <2>2. cb' = cb
        BY <1>5 DEF Pause, Kill
    <2>. QED BY <1>1, <2>1, <2>2 DEF CInv, PathsOK, CallbackOnlyWhileOpen, vars
<1>6. CASE UNCHANGED allVars
    BY <1>1, <1>6 DEF allVars, CInv, PathsOK, CallbackOnlyWhileOpen
<1>. QED BY <1>2, <1>3, <1>4, <1>5, <1>6 DEF RNext

\* When AudioDeviceStop or AudioDeviceDestroyIOProcID works in CloseSPDIF,
\* whatever else fails and whatever other processes and the player do,
\* the HAL's I/O thread is inside RenderAudio only while the device is
\* open: CloseDevice never returns with a render callback still able to
\* run.  This carries the "nothing running once closed" part of
\* ClosedDeviceReleased, which device_open checks with every close call
\* working, to every set of failures leaving one of the two calls working.
THEOREM CallbackOnlyWhileOpenCorrect ==
    ASSUME StopWorks
    PROVE  RSpec => []CallbackOnlyWhileOpen
<1>1. CInv => CallbackOnlyWhileOpen
    BY DEF CInv
<1>2. CInv /\ [RNext]_allVars => CInv'
    BY NextCInv
<1>. QED BY <1>1, <1>2, InitCInv, PTL DEF RSpec
=============================================================================
