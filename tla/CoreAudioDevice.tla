--------------------------- MODULE CoreAudioDevice ---------------------------
(***************************************************************************)
(* Life cycle of the Core Audio output device held by CoreAudioData       *)
(* (libs/libmyth/audio/audiooutputca.cpp).                                 *)
(*                                                                         *)
(* AudioOutputCA::OpenDevice tries the digital (S/PDIF pass-through) path  *)
(* first, cleans it up with CloseSPDIF when it fails, then tries the       *)
(* analog AudioUnit path; CloseDevice tears down whichever path            *)
(* mDigitalInUse names.  Opening the digital path changes state the       *)
(* process does not own: the physical format of a stream, the device's    *)
(* hog owner and its mixing flag.  Every Core Audio HAL call that can fail *)
(* is named in HALCalls; the constant Faults is the set that may fail in a *)
(* run, and each operation fails on a subset F of it.  Data is abstracted  *)
(* to what the properties tell apart: a stream format is linear PCM or     *)
(* AC-3 ('IAC3' or kAudioFormat60958AC3).                                  *)
(***************************************************************************)
EXTENDS Integers

CONSTANTS
    Streams,    \* indices of the device's output streams (StreamsList)
    Faults,     \* the HAL calls that may fail in this model
    Pid,        \* getpid() of this process
    Others      \* pids of other processes that use the same device

\* A stream's physical format: mixable linear PCM or an AC-3 pass-through one.
Fmts == {"pcm", "ac3"}

\* The value of mStreamIndex after CloseSPDIF, and of mStreamID before the
\* first OpenSPDIF (the zero-initialised AudioStreamID names no stream).
NoStream == -1

\* Calls made by OpenSPDIF, CloseSPDIF and OpenAnalog whose failure the code
\* checks.  The stop/uninitialise/dispose calls of CloseAnalog are not
\* checked by the code and always take effect here.
SpdifOpenCalls  == {"SetAutoHog", "SetHog", "GetOrigFormat", "GetMixing", "SetMixing",
                    "ChangeFormat", "CreateIOProc", "DeviceStart"}
SpdifCloseCalls == {"DeviceStop", "DestroyIOProc", "RevertFormat",
                    "ReleaseHog", "RestoreMixing"}
AnalogOpenCalls == {"FindComponent", "InstanceNew", "SetCurrentDevice",
                    "SetStreamFormat", "SetRenderCallback", "UnitInitialize",
                    "UnitStart"}
HALCalls == SpdifOpenCalls \cup SpdifCloseCalls \cup AnalogOpenCalls

ASSUME StreamsAssumption == Streams \subseteq Nat /\ Streams # {}
ASSUME FaultsAssumption == Faults \subseteq HALCalls
ASSUME PidAssumption == Pid \in Nat \ {0}
ASSUME OthersAssumption == Others \subseteq Nat \ {0} /\ Pid \notin Others

\* The owners of the device's hog mode: none (-1), this process or another.
HogOwners == {-1, Pid} \cup Others

VARIABLES
    d,      \* the CoreAudioData members that the life cycle reads and writes
    hal,    \* the device as the Core Audio HAL holds it
    phase,  \* "open" from OpenDevice returning true until CloseDevice
    orig    \* the device's state before this process touched it (history)

vars == <<d, hal, phase, orig>>

\* The first stream (lowest index) of a non-empty set: OpenSPDIF takes the
\* first stream of StreamsList that offers an AC-3 format.
FirstStream(S) == CHOOSE i \in S : \A j \in S : i <= j

DataType ==
    [digitalInUse: BOOLEAN, hog: HogOwners, mixerRestore: {-1, 0, 1},
     revertFormat: BOOLEAN, formatOrig: Fmts \cup {"none"},
     streamID: Streams \cup {NoStream}, streamIndex: Streams \cup {NoStream},
     ioProc: BOOLEAN, initialized: BOOLEAN, started: BOOLEAN,
     outputUnit: BOOLEAN]

HALType ==
    [fmt: [Streams -> Fmts], hog: HogOwners, mix: BOOLEAN,
     proc: {"none", "registered", "running"},
     unit: {"none", "instance", "initialized", "running"}]

-----------------------------------------------------------------------------
(* Construction.                                                           *)

\* A plausible fault: mHog initialised to 0 instead of -1.
InitialDataHogZero ==
    [digitalInUse |-> FALSE, hog |-> 0, mixerRestore |-> -1,
     revertFormat |-> FALSE, formatOrig |-> "none", streamID |-> NoStream,
     streamIndex |-> NoStream, ioProc |-> FALSE, initialized |-> FALSE,
     started |-> FALSE, outputUnit |-> FALSE]

\* The member initialisers of CoreAudioData.
InitialData ==
    [digitalInUse |-> FALSE, hog |-> -1, mixerRestore |-> -1,
     revertFormat |-> FALSE, formatOrig |-> "none", streamID |-> NoStream,
     streamIndex |-> NoStream, ioProc |-> FALSE, initialized |-> FALSE,
     started |-> FALSE, outputUnit |-> FALSE]

\* ResetStream: a stream left in AC-3 is set back to a linear PCM format when
\* its format list offers one and the set succeeds (resettable).
ResetStream(f, resettable) == IF f = "ac3" /\ resettable THEN "pcm" ELSE f

\* ResetAudioDevices applies ResetStream to every stream of the device.
ResetAudioDevices(fmt0, resettable) ==
    [s \in Streams |-> ResetStream(fmt0[s], s \in resettable)]

\* The constructor CoreAudioData(parent, deviceName) resets the devices and
\* finds the device; whatever state a crashed run left is possible before,
\* and another process may hold the hog mode.
Init ==
    /\ d = InitialData
    /\ \E fmt0 \in [Streams -> Fmts], resettable \in SUBSET Streams,
          mix0 \in BOOLEAN, hog0 \in {-1} \cup Others :
          hal = [fmt |-> ResetAudioDevices(fmt0, resettable), hog |-> hog0,
                 mix |-> mix0, proc |-> "none", unit |-> "none"]
    /\ phase = "closed"
    /\ orig = [fmt |-> hal.fmt, mix |-> hal.mix]

-----------------------------------------------------------------------------
(* Helpers of CoreAudioData.  F is the set of calls failing in this step.  *)

\* GetMixingSupport: false when the property cannot be read.
GetMixingSupport(h, F) == "GetMixing" \notin F /\ h.mix

\* The value SetMixingSupport stores in mMixerRestore on the first change.
MixerRestoreValue(h, F) == IF GetMixingSupport(h, F) THEN 1 ELSE 0

\* SetMixingSupport(mix): the first successful change records the setting
\* it replaces in mMixerRestore; a failing set changes nothing.
SetMixingSupport(dd, h, mix, call, F) ==
    IF call \in F THEN [d |-> dd, hal |-> h]
    ELSE [d |-> [dd EXCEPT !.mixerRestore = IF @ = -1
                                              THEN MixerRestoreValue(h, F)
                                              ELSE @],
          hal |-> [h EXCEPT !.mix = mix]]

\* Setting kAudioDevicePropertyHogMode is a toggle for the caller (the
\* comment of SetHogStatus): a free device becomes the caller's, the
\* caller's own becomes free, and another process's stays that process's.
\* On return the buffer holds the owner, which the code compares with
\* getpid().
HogToggle(h, p) ==
    [h EXCEPT !.hog = CASE @ = -1 -> p [] @ = p -> -1 [] OTHER -> @]

\* A plausible fault: the release branch does not store the returned pid
\* back into mHog.
SetHogStatusKeepsPid(dd, h, hog, F) ==
    LET toggled == HogToggle(h, Pid)
    IN CASE hog /\ dd.hog = -1 /\ "SetHog" \notin F
              -> [d |-> [dd EXCEPT !.hog = toggled.hog], hal |-> toggled]
         [] ~hog /\ dd.hog > -1 /\ "ReleaseHog" \notin F
              -> [d |-> dd, hal |-> toggled]
         [] OTHER -> [d |-> dd, hal |-> h]

\* SetHogStatus: taking the hog mode is skipped when mHog is already set,
\* releasing it when mHog is not.  A failing set returns early; otherwise
\* the device toggles, and the owner it returns lands in mHog when taking
\* (mHog is the buffer, whoever the owner is) and, unless it is still this
\* process, when releasing.
SetHogStatus(dd, h, hog, F) ==
    LET toggled == HogToggle(h, Pid)
    IN CASE hog /\ dd.hog = -1 /\ "SetHog" \notin F
              -> [d |-> [dd EXCEPT !.hog = toggled.hog], hal |-> toggled]
         [] ~hog /\ dd.hog > -1 /\ "ReleaseHog" \notin F
              -> [d |-> IF toggled.hog = Pid THEN dd
                        ELSE [dd EXCEPT !.hog = toggled.hog],
                  hal |-> toggled]
         [] OTHER -> [d |-> dd, hal |-> h]

\* A plausible fault: an error of the set is not reported.
AudioStreamChangeFormatNoError(fmt, s, f, call, F) ==
    [ok |-> TRUE,
     fmt |-> IF call \notin F THEN [fmt EXCEPT ![s] = f] ELSE fmt]

\* AudioStreamChangeFormat: set the physical format of stream s; false when
\* the set fails.
AudioStreamChangeFormat(fmt, s, f, call, F) ==
    [ok |-> call \notin F,
     fmt |-> IF call \notin F THEN [fmt EXCEPT ![s] = f] ELSE fmt]

\* OpenSPDIF: find the first stream offering AC-3 at the sample rate (the
\* set ac3At), record its original format unless already recorded, hog the
\* device and switch mixing off unless auto-hog stays on, switch the stream
\* to AC-3, register and start the IOProc.  A failing step returns false.
OpenSPDIF(dd, h, ac3At, F) ==
    LET i        == FirstStream(ac3At)
        readOrig == ~dd.revertFormat /\ "GetOrigFormat" \notin F
        autoHog  == "SetAutoHog" \in F
        found    == [dd EXCEPT !.streamIndex = i, !.streamID = i,
                               !.formatOrig = IF readOrig THEN h.fmt[i] ELSE @,
                               !.revertFormat = @ \/ readOrig,
                               !.digitalInUse = TRUE]
        hogged   == IF autoHog THEN [d |-> found, hal |-> h]
                    ELSE SetHogStatus(found, h, TRUE, F)
        mixed    == IF autoHog THEN hogged
                    ELSE SetMixingSupport(hogged.d, hogged.hal, FALSE,
                                          "SetMixing", F)
        changed  == AudioStreamChangeFormat(mixed.hal.fmt, i, "ac3",
                                            "ChangeFormat", F)
        created  == changed.ok /\ "CreateIOProc" \notin F
        started  == created /\ "DeviceStart" \notin F
    IN
    IF ac3At = {} THEN [d |-> dd, hal |-> h, ok |-> FALSE]
    ELSE [ok |-> started,
          d |-> [mixed.d EXCEPT !.ioProc = @ \/ created,
                                !.started = @ \/ started],
          hal |-> [mixed.hal EXCEPT
                     !.fmt = changed.fmt,
                     !.proc = IF started THEN "running"
                                ELSE IF created THEN "registered"
                                ELSE @]]

\* CloseSPDIF: nothing unless mDigitalInUse; stop and remove the IOProc
\* (the flags are cleared whether or not the calls succeed), revert the
\* stream format, release the hog, restore mixing, reset the members.
CloseSPDIF(dd, h, F) ==
    LET stopped   == dd.started /\ "DeviceStop" \notin F
        destroyed == dd.ioProc /\ "DestroyIOProc" \notin F
        reverted  == AudioStreamChangeFormat(h.fmt, dd.streamID,
                                             dd.formatOrig, "RevertFormat", F)
        unhogged  == SetHogStatus(dd, h, FALSE, F)
        restored  == IF dd.mixerRestore > -1
                       THEN SetMixingSupport(unhogged.d, unhogged.hal,
                                             dd.mixerRestore # 0,
                                             "RestoreMixing", F)
                       ELSE unhogged
    IN
    IF ~dd.digitalInUse THEN [d |-> dd, hal |-> h]
    ELSE [d |-> [restored.d EXCEPT !.started = FALSE, !.ioProc = FALSE,
                   !.revertFormat = FALSE, !.mixerRestore = -1,
                   !.streamIndex = NoStream],
          hal |-> [restored.hal EXCEPT
                   !.proc = IF destroyed THEN "none"
                              ELSE IF stopped THEN "registered"
                              ELSE @,
                   !.fmt = IF dd.revertFormat THEN reverted.fmt ELSE @]]

\* The unit set-up of OpenAnalog: create the output AudioUnit, point it at
\* the device (-1 when that fails), set the stream format and the render
\* callback, initialise and start it.  Other failures return false (0),
\* success true (1).  The channel layout set in between changes no state
\* the properties distinguish and is left out.
AnalogUnitSetup(dd, h, F) ==
    LET created     == "FindComponent" \notin F /\ "InstanceNew" \notin F
        deviceSet   == created /\ "SetCurrentDevice" \notin F
        callbackSet == deviceSet /\ "SetStreamFormat" \notin F
                                 /\ "SetRenderCallback" \notin F
        initialized == callbackSet /\ "UnitInitialize" \notin F
        started     == initialized /\ "UnitStart" \notin F
    IN [result |-> CASE started               -> 1
                     [] created /\ ~deviceSet -> -1
                     [] OTHER                 -> 0,
        d |-> [dd EXCEPT !.outputUnit = @ \/ created,
                         !.ioProc = @ \/ callbackSet,
                         !.initialized = @ \/ initialized,
                         !.started = @ \/ started],
        hal |-> [h EXCEPT !.unit = IF started THEN "running"
                                     ELSE IF initialized THEN "initialized"
                                     ELSE IF created THEN "instance"
                                     ELSE @]]

\* A plausible fault: OpenAnalog leaves mDigitalInUse as it was.
OpenAnalogKeepsDigital(dd, h, F) == AnalogUnitSetup(dd, h, F)

\* OpenAnalog clears mDigitalInUse before it sets the unit up.
OpenAnalog(dd, h, F) ==
    AnalogUnitSetup([dd EXCEPT !.digitalInUse = FALSE], h, F)

\* CloseAnalog: stop, uninitialise and dispose of the unit if there is one,
\* then clear the flags.
CloseAnalog(dd, h) ==
    [d |-> [dd EXCEPT !.outputUnit = FALSE, !.ioProc = FALSE,
                      !.initialized = FALSE, !.started = FALSE],
     hal |-> [h EXCEPT !.unit = IF dd.outputUnit THEN "none" ELSE @]]

-----------------------------------------------------------------------------
(* Operations of AudioOutputCA.                                            *)

\* A plausible fault: a zero (false) result of OpenAnalog counts as opened.
OpenDeviceAnalogAcceptsZero(dd, h, F) ==
    LET an == OpenAnalog(dd, h, F)
        cl == IF an.result < 0 THEN CloseAnalog(an.d, an.hal) ELSE an
        cc == CloseAnalog(cl.d, cl.hal)
    IN IF an.result >= 0 THEN [d |-> an.d, hal |-> an.hal, ok |-> TRUE]
       ELSE [d |-> cc.d, hal |-> cc.hal, ok |-> FALSE]

\* The analog half of OpenDevice: OpenAnalog, CloseAnalog when it returned
\* a negative result, and CloseAnalog again when the device did not open.
OpenDeviceAnalog(dd, h, F) ==
    LET an == OpenAnalog(dd, h, F)
        cl == IF an.result < 0 THEN CloseAnalog(an.d, an.hal) ELSE an
        cc == CloseAnalog(cl.d, cl.hal)
    IN IF an.result > 0 THEN [d |-> an.d, hal |-> an.hal, ok |-> TRUE]
       ELSE [d |-> cc.d, hal |-> cc.hal, ok |-> FALSE]

\* AudioOutputCA::OpenDevice, with digital = m_passthru || m_enc.
OpenDevice(digital, ac3At, F) ==
    /\ phase = "closed"
    /\ LET sp  == IF digital THEN OpenSPDIF(d, hal, ac3At, F)
                  ELSE [d |-> d, hal |-> hal, ok |-> FALSE]
           cs  == IF digital /\ ~sp.ok THEN CloseSPDIF(sp.d, sp.hal, F) ELSE sp
           res == IF sp.ok THEN sp ELSE OpenDeviceAnalog(cs.d, cs.hal, F)
       IN /\ d' = res.d
          /\ hal' = res.hal
          /\ phase' = IF res.ok THEN "open" ELSE "closed"
    /\ UNCHANGED orig

\* AudioOutputCA::CloseDevice closes the path mDigitalInUse names.
CloseDevice(F) ==
    /\ phase = "open"
    /\ LET res == IF d.digitalInUse THEN CloseSPDIF(d, hal, F)
                  ELSE CloseAnalog(d, hal)
       IN /\ d' = res.d
          /\ hal' = res.hal
    /\ phase' = "closed"
    /\ UNCHANGED orig

\* Another process (another player, an audio editor) toggles the hog mode
\* of the same device: it takes a free device or releases its own.
OtherToggleHog(o) ==
    /\ hal.hog \in {-1, o}
    /\ hal' = HogToggle(hal, o)
    /\ UNCHANGED <<d, phase, orig>>

Next ==
    \/ \E F \in SUBSET Faults :
        \/ \E digital \in BOOLEAN, ac3At \in SUBSET Streams :
              OpenDevice(digital, ac3At, F)
        \/ CloseDevice(F)
    \/ \E o \in Others : OtherToggleHog(o)

Spec == Init /\ [][Next]_vars

-----------------------------------------------------------------------------
(* Properties.                                                             *)

\* Every variable keeps its type.
TypeOK ==
    /\ d \in DataType
    /\ hal \in HALType
    /\ phase \in {"open", "closed"}
    /\ orig \in [fmt: [Streams -> Fmts], mix: BOOLEAN]

\* CloseDevice picks the path to close from mDigitalInUse alone: a live
\* IOProc must be flagged digital and a live AudioUnit analog, or one of
\* them outlives CloseDevice (OpenAnalog must clear the flag set by an
\* earlier digital session).
CloseReachesOpenPath ==
    /\ hal.proc # "none" => d.digitalInUse
    /\ hal.unit # "none" => ~d.digitalInUse

\* The stream formats are back to what the process found once the device
\* is closed (CloseSPDIF reverts what OpenSPDIF changed).
FormatRestoredWhenClosed == phase = "closed" => hal.fmt = orig.fmt

\* Mixing is back to what the process found once the device is closed.
MixingRestoredWhenClosed == phase = "closed" => hal.mix = orig.mix

\* After CloseDevice, and after an OpenDevice that failed, the process holds
\* nothing of the device: no IOProc, no AudioUnit, no hog, and formats and
\* mixing are as it found them, whichever open step failed.
ClosedDeviceReleased ==
    /\ phase = "closed" => /\ hal.proc = "none"
                          /\ hal.unit = "none"
                          /\ hal.hog # Pid
    /\ FormatRestoredWhenClosed
    /\ MixingRestoredWhenClosed

\* A failed OpenDevice rolls back everything it did: a step that starts and
\* ends with the device closed leaves the HAL (stream formats, mixing, hog
\* mode, IOProc, AudioUnit) exactly as it was, however far OpenSPDIF or
\* OpenAnalog got before a call failed and CloseSPDIF or CloseAnalog undid
\* it.
FailedOpenRollsBack == [][phase = "closed" /\ phase' = "closed" => hal' = hal]_vars

\* mHog never claims the hog mode for this process when the device does
\* not give it to it: SetHogStatus skips both the take and the release on
\* what mHog says, so a stale mHog = getpid() would let the release toggle
\* the hog of another process, or leave this process believing it holds it.
HogCacheSound == d.hog = Pid => hal.hog = Pid

\* OpenDevice returns true only with exactly one output path playing: the
\* IOProc running on an AC-3 stream, or the AudioUnit running.
OpenDevicePlaying ==
    phase = "open" =>
        \/ hal.proc = "running" /\ hal.unit = "none"
        \/ hal.unit = "running" /\ hal.proc = "none"

\* Whenever the HAL runs the S/PDIF IOProc (RenderCallbackSPDIF), the buffer
\* index mStreamIndex names a stream and that stream is in AC-3 format.
SPDIFProcWritesAC3Stream ==
    hal.proc = "running" =>
        /\ d.streamIndex \in Streams
        /\ hal.fmt[d.streamIndex] = "ac3"

\* The original format recorded for reverting is the one the process found:
\* a later CloseSPDIF restores the true original.
RecordedOriginalIsOriginal ==
    d.revertFormat => d.formatOrig = orig.fmt[d.streamID]

-----------------------------------------------------------------------------
(* Refinement: the device session as AudioSession sees it.  The session   *)
(* is read off the device itself: which output path the HAL runs while    *)
(* OpenDevice has reported success, and nothing running once closed; any  *)
(* other combination is "broken", which no AudioSession state allows.    *)

SessionOf ==
    CASE phase = "open" /\ hal.proc = "running" /\ hal.unit = "none" -> "spdif"
      [] phase = "open" /\ hal.unit = "running" /\ hal.proc = "none" -> "analog"
      [] phase = "closed" /\ hal.proc = "none" /\ hal.unit = "none" -> "closed"
      [] OTHER -> "broken"

Session == INSTANCE AudioSession
    WITH Settings <- [fmt: [Streams -> Fmts], mix: BOOLEAN],
         session <- SessionOf,
         settings <- [fmt |-> hal.fmt, mix |-> hal.mix],
         found <- orig,
         hogged <- (hal.hog = Pid)

\* OpenDevice, CloseDevice and the other processes' hog toggles together
\* implement an AudioSession: every open that reports success leaves one
\* output path running, changing settings only on the S/PDIF path; every
\* failed open, and every close, leaves nothing running, no hog held and
\* the settings as found; no step of another process changes the session.
SessionRefined == Session!Spec

=============================================================================
