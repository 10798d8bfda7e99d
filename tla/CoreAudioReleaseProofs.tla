----------------------- MODULE CoreAudioReleaseProofs -----------------------
(***************************************************************************)
(* Proofs that the device life cycle releases the device and keeps its    *)
(* output paths apart: ClosedDeviceReleased, CloseReachesOpenPath,        *)
(* OpenDevicePlaying and SPDIFProcWritesAC3Stream hold for every set of   *)
(* streams, every pid and every set of failing HAL calls that leaves out  *)
(* the calls whose failure the code does not handle (ReliableCalls), when *)
(* no other process takes the hog mode.  The runs device_origformat,      *)
(* device_revert, device_stop and device_hog show that each of these      *)
(* conditions is needed.                                                   *)
(***************************************************************************)
EXTENDS CoreAudioDeviceProofs

\* The calls whose failure leaves the device changed after CloseDevice:
\* reading the original format and the mixing flag that are later written
\* back, and the four undo calls of CloseSPDIF whose result it ignores.
ReliableCalls == {"GetOrigFormat", "GetMixing", "DestroyIOProc",
                  "RevertFormat", "ReleaseHog", "RestoreMixing"}

\* The conditions under which the device is released: none of those calls
\* fails and the process is the only user of the hog mode.
Reliable == Faults \cap ReliableCalls = {} /\ Others = {}

\* Nothing of the device's shared state is changed: no hog, and the stream
\* formats and the mixing flag are as found (o is the history variable orig).
Untouched(dd, h, o) ==
    /\ h.hog = -1
    /\ dd.hog = -1
    /\ h.fmt = o.fmt
    /\ h.mix = o.mix
    /\ ~dd.revertFormat
    /\ dd.mixerRestore = -1
    /\ dd.started => dd.ioProc

\* The device as a closed session leaves it: untouched, with no IOProc and
\* no AudioUnit.
Released(dd, h, o) ==
    /\ Untouched(dd, h, o)
    /\ h.proc = "none"
    /\ h.unit = "none"

\* What CloseSPDIF can undo: mHog is the device's hog owner; a stream whose
\* format differs from the one found is mStreamID, whose original format
\* mFormatOrig records; the mixing flag is as found unless mMixerRestore
\* records it; an IOProc exists only when mIoProc says so; no AudioUnit.
Undoable(dd, h, o) ==
    /\ h.hog \in {-1, Pid}
    /\ dd.hog = h.hog
    /\ dd.revertFormat => dd.formatOrig = o.fmt[dd.streamID]
    /\ \A s \in Streams : h.fmt[s] # o.fmt[s] =>
                             dd.revertFormat /\ s = dd.streamID
    /\ dd.mixerRestore = -1 => h.mix = o.mix
    /\ dd.mixerRestore # -1 => dd.mixerRestore = IF o.mix THEN 1 ELSE 0
    /\ h.proc # "none" => dd.ioProc
    /\ dd.started => dd.ioProc
    /\ h.unit = "none"

\* An open S/PDIF session: undoable, the IOProc running and the buffer
\* index naming the AC-3 stream whose format is recorded.
SpdifOpen(dd, h, o) ==
    /\ Undoable(dd, h, o)
    /\ h.proc = "running"
    /\ dd.ioProc
    /\ dd.revertFormat
    /\ dd.streamIndex = dd.streamID
    /\ h.fmt[dd.streamID] = "ac3"

\* An open analog session: untouched, the AudioUnit running and recorded in
\* mOutputUnit, no IOProc.
AnalogOpen(dd, h, o) ==
    /\ Untouched(dd, h, o)
    /\ h.unit = "running"
    /\ h.proc = "none"
    /\ dd.outputUnit

\* The inductive invariant: the types, and the device as each phase and
\* path leave it.
DInv ==
    /\ IInv
    /\ phase = "closed" => Released(d, hal, orig)
    /\ phase = "open" /\ d.digitalInUse => SpdifOpen(d, hal, orig)
    /\ phase = "open" /\ ~d.digitalInUse => AnalogOpen(d, hal, orig)

\* The orig history variable is typed.
OrigOK(o) == o \in [fmt: [Streams -> Fmts], mix: BOOLEAN]

-----------------------------------------------------------------------------
(* CloseSPDIF undoes what OpenSPDIF did.                                   *)

\* The fields of the device that SetHogStatus and SetMixingSupport leave
\* alone: the stream formats, the IOProc and the AudioUnit.
HALKept(h1, h2) == h1.fmt = h2.fmt /\ h1.proc = h2.proc /\ h1.unit = h2.unit

\* Releasing the hog mode through SetHogStatus when mHog is the device's
\* owner, this process or none, leaves no owner in either.
LEMMA SetHogStatusRelease ==
    ASSUME NEW dd, DataOK(dd), NEW h, HALOK(h), NEW F,
           "ReleaseHog" \notin F, h.hog \in {-1, Pid}, dd.hog = h.hog
    PROVE  /\ SetHogStatus(dd, h, FALSE, F).d.hog = -1
           /\ SetHogStatus(dd, h, FALSE, F).hal.hog = -1
           /\ SetHogStatus(dd, h, FALSE, F).hal.mix = h.mix
           /\ HALKept(SetHogStatus(dd, h, FALSE, F).hal, h)
<1>1. CASE h.hog = -1
    BY <1>1 DEF SetHogStatus, HALKept
<1>2. CASE h.hog = Pid
    <2>1. Pid > -1 /\ Pid # -1
        BY PidAssumption
    <2>2. /\ HogToggle(h, Pid).hog = -1 /\ HogToggle(h, Pid).mix = h.mix
          /\ HALKept(HogToggle(h, Pid), h)
        BY <1>2, <2>1 DEF HogToggle, HALOK, HALFields, HALKept
    <2>. QED BY <1>2, <2>1, <2>2 DEF SetHogStatus, DataOK, DataFields
<1>. QED BY <1>1, <1>2

\* From a state CloseSPDIF can undo, it releases the device: with the
\* IOProc destroyed, the recorded format written back, the hog released
\* and the recorded mixing flag restored, nothing is left changed.
LEMMA CloseSPDIFReleases ==
    ASSUME NEW dd, DataOK(dd), NEW h, HALOK(h), NEW o, OrigOK(o), NEW F,
           F \cap ReliableCalls = {}, Undoable(dd, h, o), dd.digitalInUse
    PROVE  Released(CloseSPDIF(dd, h, F).d, CloseSPDIF(dd, h, F).hal, o)
<1>. DEFINE stopped   == dd.started /\ "DeviceStop" \notin F
            destroyed == dd.ioProc /\ "DestroyIOProc" \notin F
            reverted  == AudioStreamChangeFormat(h.fmt, dd.streamID,
                              dd.formatOrig, "RevertFormat", F)
            unhogged  == SetHogStatus(dd, h, FALSE, F)
            restored  == IF dd.mixerRestore > -1
                           THEN SetMixingSupport(unhogged.d, unhogged.hal,
                                                 dd.mixerRestore # 0,
                                                 "RestoreMixing", F)
                           ELSE unhogged
            rd == [restored.d EXCEPT !.started = FALSE, !.ioProc = FALSE,
                     !.revertFormat = FALSE, !.mixerRestore = -1,
                     !.streamIndex = NoStream]
            rh == [restored.hal EXCEPT
                     !.proc = IF destroyed THEN "none"
                                ELSE IF stopped THEN "registered"
                                ELSE @,
                     !.fmt = IF dd.revertFormat THEN reverted.fmt ELSE @]
<1>1. /\ "ReleaseHog" \notin F /\ "RestoreMixing" \notin F
      /\ "RevertFormat" \notin F /\ "DestroyIOProc" \notin F
    BY DEF ReliableCalls
<1>2. /\ unhogged.d.hog = -1 /\ unhogged.hal.hog = -1
      /\ unhogged.hal.mix = h.mix /\ HALKept(unhogged.hal, h)
    <2>1. h.hog \in {-1, Pid} /\ dd.hog = h.hog
        BY DEF Undoable
    <2>2. /\ SetHogStatus(dd, h, FALSE, F).d.hog = -1
          /\ SetHogStatus(dd, h, FALSE, F).hal.hog = -1
          /\ SetHogStatus(dd, h, FALSE, F).hal.mix = h.mix
          /\ HALKept(SetHogStatus(dd, h, FALSE, F).hal, h)
        BY <1>1, <2>1, SetHogStatusRelease, Zenon
    <2>. QED BY <2>2 DEF unhogged
<1>3. Typed(unhogged)
    BY SetHogStatusTyped
<1>. HIDE DEF unhogged
<1>4. /\ Typed(restored)
      /\ restored.d.hog = -1 /\ restored.hal.hog = -1
      /\ restored.hal.mix = o.mix /\ HALKept(restored.hal, h)
    <2>1. CASE dd.mixerRestore > -1
        <3>1. (dd.mixerRestore # 0) = o.mix
            BY <2>1 DEF Undoable, OrigOK
        <3>2. Typed(restored)
            BY <1>3, <2>1, SetMixingSupportTyped DEF Typed
        <3>3. /\ restored.hal.mix = (dd.mixerRestore # 0)
              /\ restored.hal.hog = unhogged.hal.hog
              /\ HALKept(restored.hal, unhogged.hal)
              /\ restored.d.hog = unhogged.d.hog
            BY <1>1, <1>3, <2>1 DEF restored, SetMixingSupport, HALKept, Typed,
                                    DataOK, DataFields, HALOK, HALFields
        <3>. QED BY <1>2, <3>1, <3>2, <3>3 DEF HALKept
    <2>2. CASE ~(dd.mixerRestore > -1)
        <3>1. h.mix = o.mix
            BY <2>2 DEF Undoable, DataOK, DataFieldsTyped
        <3>. QED BY <1>2, <1>3, <2>2, <3>1
    <2>. QED BY <2>1, <2>2
<1>5. /\ rh.proc = IF destroyed THEN "none"
                     ELSE IF stopped THEN "registered"
                     ELSE restored.hal.proc
      /\ rh.fmt = IF dd.revertFormat THEN reverted.fmt ELSE restored.hal.fmt
      /\ rh.hog = restored.hal.hog /\ rh.mix = restored.hal.mix
      /\ rh.unit = restored.hal.unit
    BY <1>4 DEF Typed, HALOK, HALFields
<1>. HIDE DEF restored, rh
<1>6. rh.fmt = o.fmt
    <2>1. CASE dd.revertFormat
        <3>1. dd.streamID \in Streams /\ dd.formatOrig = o.fmt[dd.streamID]
            BY <2>1 DEF DataOK, Undoable
        <3>2. reverted.fmt = o.fmt
            BY <1>1, <2>1, <3>1 DEF AudioStreamChangeFormat, Undoable, OrigOK,
                                    HALOK, HALFieldsTyped
        <3>. QED BY <1>5, <2>1, <3>2
    <2>2. CASE ~dd.revertFormat
        <3>1. h.fmt = o.fmt
            BY <2>2 DEF Undoable, OrigOK, HALOK, HALFieldsTyped
        <3>. QED BY <1>4, <1>5, <2>2, <3>1 DEF HALKept
    <2>. QED BY <2>1, <2>2
<1>7. rh.proc = "none"
    <2>1. CASE dd.ioProc
        <3>1. destroyed
            BY <1>1, <2>1
        <3>. QED BY <1>5, <3>1, Zenon
    <2>2. CASE ~dd.ioProc
        <3>1. h.proc = "none" /\ ~dd.started
            BY <2>2 DEF Undoable
        <3>. QED BY <1>4, <1>5, <2>2, <3>1 DEF HALKept
    <2>. QED BY <2>1, <2>2
<1>8. /\ rh.hog = -1 /\ rh.mix = o.mix /\ rh.unit = "none"
    BY <1>4, <1>5 DEF Undoable, HALKept
<1>9. /\ rd.hog = -1 /\ ~rd.revertFormat /\ rd.mixerRestore = -1
      /\ (rd.started => rd.ioProc)
    BY <1>4 DEF Typed, DataOK, DataFields
<1>10. CloseSPDIF(dd, h, F).d = rd /\ CloseSPDIF(dd, h, F).hal = rh
    BY DEF CloseSPDIF, unhogged, restored, rh
<1>. QED BY <1>6, <1>7, <1>8, <1>9, <1>10 DEF Released, Untouched

\* A released device is one CloseSPDIF can undo.
LEMMA ReleasedUndoable ==
    ASSUME NEW dd, NEW h, NEW o, Released(dd, h, o)
    PROVE  Undoable(dd, h, o)
BY DEF Released, Untouched, Undoable

\* CloseSPDIF leaves a released device released, whether or not
\* mDigitalInUse is still set from an earlier S/PDIF session.
LEMMA CloseSPDIFKeepsReleased ==
    ASSUME NEW dd, DataOK(dd), NEW h, HALOK(h), NEW o, OrigOK(o), NEW F,
           F \cap ReliableCalls = {}, Released(dd, h, o)
    PROVE  Released(CloseSPDIF(dd, h, F).d, CloseSPDIF(dd, h, F).hal, o)
<1>1. CASE dd.digitalInUse
    BY <1>1, ReleasedUndoable, CloseSPDIFReleases
<1>2. CASE ~dd.digitalInUse
    BY <1>2 DEF CloseSPDIF
<1>. QED BY <1>1, <1>2

-----------------------------------------------------------------------------
(* OpenSPDIF changes only what CloseSPDIF can undo.                        *)

\* The members and fields that taking the hog mode and switching mixing off
\* leave alone.
SessionKept(r, dd, h) ==
    /\ r.d.revertFormat = dd.revertFormat
    /\ r.d.formatOrig = dd.formatOrig
    /\ r.d.streamID = dd.streamID
    /\ r.d.streamIndex = dd.streamIndex
    /\ r.d.ioProc = dd.ioProc
    /\ r.d.started = dd.started
    /\ r.d.digitalInUse = dd.digitalInUse
    /\ HALKept(r.hal, h)

\* Taking the hog mode: mHog becomes the owner the device returns, which
\* is this process when the device was free.
LEMMA SetHogStatusTakeUndoable ==
    ASSUME NEW dd, DataOK(dd), NEW h, HALOK(h), NEW o, NEW F,
           Undoable(dd, h, o)
    PROVE  /\ Undoable(SetHogStatus(dd, h, TRUE, F).d,
                       SetHogStatus(dd, h, TRUE, F).hal, o)
           /\ SessionKept(SetHogStatus(dd, h, TRUE, F), dd, h)
<1>. DEFINE r == SetHogStatus(dd, h, TRUE, F)
<1>1. CASE dd.hog = -1 /\ "SetHog" \notin F
    <2>. DEFINE nd == [dd EXCEPT !.hog = Pid]
                nh == [h EXCEPT !.hog = Pid]
    <2>1. HogToggle(h, Pid) = nh
        BY <1>1 DEF Undoable, HogToggle, HALOK, HALFields
    <2>2. r = [d |-> nd, hal |-> nh]
        BY <1>1, <2>1 DEF SetHogStatus
    <2>3. /\ nd.hog = Pid /\ nh.hog = Pid
          /\ nh.fmt = h.fmt /\ nh.mix = h.mix /\ nh.proc = h.proc
          /\ nh.unit = h.unit
          /\ nd.revertFormat = dd.revertFormat /\ nd.formatOrig = dd.formatOrig
          /\ nd.streamID = dd.streamID /\ nd.streamIndex = dd.streamIndex
          /\ nd.ioProc = dd.ioProc /\ nd.started = dd.started
          /\ nd.digitalInUse = dd.digitalInUse
          /\ nd.mixerRestore = dd.mixerRestore
        BY DEF DataOK, DataFields, HALOK, HALFields
    <2>. HIDE DEF nd, nh, r
    <2>4. r.d = nd /\ r.hal = nh
        BY <2>2
    <2>5. Undoable(r.d, r.hal, o)
        BY <2>3, <2>4 DEF Undoable
    <2>6. SessionKept(r, dd, h)
        BY <2>3, <2>4 DEF SessionKept, HALKept
    <2>. QED BY <2>5, <2>6 DEF r
<1>2. CASE ~(dd.hog = -1 /\ "SetHog" \notin F)
    <2>1. r = [d |-> dd, hal |-> h]
        BY <1>2 DEF SetHogStatus
    <2>. HIDE DEF r
    <2>2. r.d = dd /\ r.hal = h
        BY <2>1
    <2>3. Undoable(r.d, r.hal, o) /\ SessionKept(r, dd, h)
        BY <2>2 DEF SessionKept, HALKept
    <2>. QED BY <2>3 DEF r
<1>. QED BY <1>1, <1>2

\* Switching mixing off: the first change records the setting found in
\* mMixerRestore, read by GetMixingSupport.
LEMMA SetMixingOffUndoable ==
    ASSUME NEW dd, DataOK(dd), NEW h, HALOK(h), NEW o, OrigOK(o), NEW F,
           "GetMixing" \notin F, Undoable(dd, h, o)
    PROVE  /\ Undoable(SetMixingSupport(dd, h, FALSE, "SetMixing", F).d,
                       SetMixingSupport(dd, h, FALSE, "SetMixing", F).hal, o)
           /\ SessionKept(SetMixingSupport(dd, h, FALSE, "SetMixing", F), dd, h)
<1>1. CASE "SetMixing" \in F
    BY <1>1 DEF SetMixingSupport, SessionKept, HALKept
<1>2. CASE "SetMixing" \notin F
    <2>1. dd.mixerRestore = -1 => MixerRestoreValue(h, F) = IF o.mix THEN 1 ELSE 0
        BY DEF Undoable, MixerRestoreValue, GetMixingSupport, OrigOK
    <2>. QED BY <1>2, <2>1 DEF SetMixingSupport, Undoable, SessionKept, HALKept,
                              MixerRestoreValue, DataOK, DataFields, HALOK,
                              HALFields
<1>. QED BY <1>1, <1>2

\* OpenSPDIF on a released device records the original format of the
\* stream it switches, takes the hog and switches mixing off in a way
\* CloseSPDIF undoes; when it returns true the IOProc runs on that stream,
\* now in AC-3.
LEMMA OpenSPDIFUndoable ==
    ASSUME NEW dd, DataOK(dd), NEW h, HALOK(h), NEW o, OrigOK(o),
           NEW ac3At \in SUBSET Streams, ac3At # {}, NEW F,
           F \cap ReliableCalls = {}, Released(dd, h, o)
    PROVE  /\ Undoable(OpenSPDIF(dd, h, ac3At, F).d,
                       OpenSPDIF(dd, h, ac3At, F).hal, o)
           /\ OpenSPDIF(dd, h, ac3At, F).d.digitalInUse
           /\ OpenSPDIF(dd, h, ac3At, F).ok =>
                 SpdifOpen(OpenSPDIF(dd, h, ac3At, F).d,
                           OpenSPDIF(dd, h, ac3At, F).hal, o)
<1>. DEFINE i        == FirstStream(ac3At)
            readOrig == ~dd.revertFormat /\ "GetOrigFormat" \notin F
            autoHog  == "SetAutoHog" \in F
            found    == [dd EXCEPT !.streamIndex = i, !.streamID = i,
                           !.formatOrig = IF readOrig THEN h.fmt[i] ELSE @,
                           !.revertFormat = @ \/ readOrig,
                           !.digitalInUse = TRUE]
            hogged   == IF autoHog THEN [d |-> found, hal |-> h]
                        ELSE SetHogStatus(found, h, TRUE, F)
            mixed    == IF autoHog THEN hogged
                        ELSE SetMixingSupport(hogged.d, hogged.hal, FALSE,
                                              "SetMixing", F)
            changed  == AudioStreamChangeFormat(mixed.hal.fmt, i, "ac3",
                                                "ChangeFormat", F)
            created  == changed.ok /\ "CreateIOProc" \notin F
            started  == created /\ "DeviceStart" \notin F
            r        == OpenSPDIF(dd, h, ac3At, F)
<1>1. i \in Streams
    BY FirstStreamIsLeast, StreamsAssumption
<1>. HIDE DEF i
<1>2. readOrig /\ "GetMixing" \notin F
    BY DEF Released, Untouched, ReliableCalls
<1>3. /\ DataOK(found)
      /\ found.revertFormat /\ found.formatOrig = o.fmt[i]
      /\ found.streamID = i /\ found.streamIndex = i /\ found.digitalInUse
      /\ found.hog = dd.hog /\ found.mixerRestore = dd.mixerRestore
      /\ found.ioProc = dd.ioProc /\ found.started = dd.started
    <2>1. h.fmt = o.fmt
        BY DEF Released, Untouched
    <2>. QED BY <1>1, <1>2, <2>1
             DEF DataOK, DataFieldsTyped, DataFields, HALOK, HALFieldsTyped, Fmts
<1>. HIDE DEF found
<1>4. Undoable(found, h, o)
    BY <1>3 DEF Released, Untouched, Undoable
<1>5. Typed(hogged) /\ Undoable(hogged.d, hogged.hal, o)
      /\ SessionKept(hogged, found, h)
    <2>1. CASE autoHog
        BY <1>3, <1>4, <2>1 DEF Typed, SessionKept, HALKept
    <2>2. CASE ~autoHog
        <3>1. /\ Typed(SetHogStatus(found, h, TRUE, F))
              /\ Undoable(SetHogStatus(found, h, TRUE, F).d,
                          SetHogStatus(found, h, TRUE, F).hal, o)
              /\ SessionKept(SetHogStatus(found, h, TRUE, F), found, h)
            BY <1>3, <1>4, SetHogStatusTyped, SetHogStatusTakeUndoable
        <3>. QED BY <2>2, <3>1
    <2>. QED BY <2>1, <2>2
<1>. HIDE DEF hogged
<1>6. Typed(mixed) /\ Undoable(mixed.d, mixed.hal, o)
      /\ SessionKept(mixed, found, h)
    <2>1. CASE autoHog
        BY <1>5, <2>1
    <2>2. CASE ~autoHog
        <3>. DEFINE sm == SetMixingSupport(hogged.d, hogged.hal, FALSE,
                                           "SetMixing", F)
        <3>1. /\ Typed(sm)
              /\ Undoable(sm.d, sm.hal, o)
              /\ SessionKept(sm, hogged.d, hogged.hal)
            BY <1>2, <1>5, SetMixingSupportTyped, SetMixingOffUndoable DEF Typed
        <3>2. SessionKept(sm, found, h)
            BY <1>5, <3>1 DEF SessionKept, HALKept
        <3>. QED BY <2>2, <3>1, <3>2
    <2>. QED BY <2>1, <2>2
<1>. HIDE DEF mixed
<1>7. /\ mixed.d.revertFormat /\ mixed.d.formatOrig = o.fmt[i]
      /\ mixed.d.streamID = i /\ mixed.d.streamIndex = i
      /\ mixed.d.digitalInUse
      /\ mixed.d.ioProc = dd.ioProc /\ mixed.d.started = dd.started
      /\ mixed.hal.fmt = o.fmt /\ mixed.hal.proc = "none"
      /\ mixed.hal.unit = "none"
    BY <1>3, <1>6 DEF SessionKept, HALKept, Released, Untouched
<1>8. /\ changed.fmt \in [Streams -> Fmts]
      /\ \A s \in Streams : changed.fmt[s] # o.fmt[s] => s = i
      /\ changed.ok => changed.fmt[i] = "ac3"
    BY <1>1, <1>7 DEF AudioStreamChangeFormat, OrigOK, Fmts
<1>. HIDE DEF changed
<1>9. /\ r.ok = started
      /\ r.d.hog = mixed.d.hog /\ r.d.revertFormat = mixed.d.revertFormat
      /\ r.d.formatOrig = mixed.d.formatOrig /\ r.d.streamID = mixed.d.streamID
      /\ r.d.streamIndex = mixed.d.streamIndex
      /\ r.d.mixerRestore = mixed.d.mixerRestore
      /\ r.d.digitalInUse = mixed.d.digitalInUse
      /\ r.d.ioProc = (mixed.d.ioProc \/ created)
      /\ r.d.started = (mixed.d.started \/ started)
      /\ r.hal.hog = mixed.hal.hog /\ r.hal.mix = mixed.hal.mix
      /\ r.hal.unit = mixed.hal.unit /\ r.hal.fmt = changed.fmt
      /\ r.hal.proc = IF started THEN "running"
                      ELSE IF created THEN "registered"
                      ELSE mixed.hal.proc
    <2>1. r = [ok |-> started,
               d |-> [mixed.d EXCEPT !.ioProc = @ \/ created,
                                     !.started = @ \/ started],
               hal |-> [mixed.hal EXCEPT
                          !.fmt = changed.fmt,
                          !.proc = IF started THEN "running"
                                   ELSE IF created THEN "registered"
                                   ELSE @]]
        BY DEF r, OpenSPDIF, i, found, hogged, mixed, changed
    <2>. HIDE DEF r, created, started
    <2>. QED BY <1>6, <2>1 DEF Typed, DataOK, DataFields, HALOK, HALFields
<1>. HIDE DEF r, created, started
<1>10. Undoable(r.d, r.hal, o)
    <2>1. dd.started => dd.ioProc
        BY DEF Released, Untouched
    <2>2. started => created
        BY DEF started, created
    <2>. QED BY <1>6, <1>7, <1>8, <1>9, <2>1, <2>2 DEF Undoable
<1>11. r.ok => SpdifOpen(r.d, r.hal, o)
    <2>1. started => created /\ changed.ok
        BY DEF started, created
    <2>. QED BY <1>7, <1>8, <1>9, <1>10, <2>1 DEF SpdifOpen
<1>. QED BY <1>7, <1>9, <1>10, <1>11 DEF r

-----------------------------------------------------------------------------
(* The analog path changes nothing CloseAnalog does not undo.              *)

\* CloseAnalog disposes of the AudioUnit that mOutputUnit records and
\* touches nothing else of the device, so an untouched device without an
\* IOProc whose unit is recorded is released.
LEMMA CloseAnalogReleases ==
    ASSUME NEW dd, DataOK(dd), NEW h, HALOK(h), NEW o,
           Untouched(dd, h, o), h.proc = "none",
           h.unit # "none" => dd.outputUnit
    PROVE  /\ Released(CloseAnalog(dd, h).d, CloseAnalog(dd, h).hal, o)
           /\ CloseAnalog(dd, h).d.digitalInUse = dd.digitalInUse
<1>. DEFINE r == CloseAnalog(dd, h)
<1>1. /\ r.d.hog = dd.hog /\ r.d.revertFormat = dd.revertFormat
      /\ r.d.mixerRestore = dd.mixerRestore /\ ~r.d.started
      /\ r.d.digitalInUse = dd.digitalInUse
      /\ r.hal.hog = h.hog /\ r.hal.fmt = h.fmt /\ r.hal.mix = h.mix
      /\ r.hal.proc = h.proc
      /\ r.hal.unit = IF dd.outputUnit THEN "none" ELSE h.unit
    BY DEF r, CloseAnalog, DataOK, DataFields, HALOK, HALFields
<1>. HIDE DEF r
<1>. QED BY <1>1 DEF Released, Untouched, r

\* The analog half of OpenDevice on a released device either leaves the
\* AudioUnit running and recorded, or, when OpenAnalog did not return
\* true, disposes of whatever unit it created; it clears mDigitalInUse.
LEMMA OpenDeviceAnalogReleased ==
    ASSUME NEW dd, DataOK(dd), NEW h, HALOK(h), NEW o, Released(dd, h, o),
           NEW F
    PROVE  /\ ~OpenDeviceAnalog(dd, h, F).d.digitalInUse
           /\ OpenDeviceAnalog(dd, h, F).ok =>
                 AnalogOpen(OpenDeviceAnalog(dd, h, F).d,
                            OpenDeviceAnalog(dd, h, F).hal, o)
           /\ ~OpenDeviceAnalog(dd, h, F).ok =>
                 Released(OpenDeviceAnalog(dd, h, F).d,
                          OpenDeviceAnalog(dd, h, F).hal, o)
<1>. DEFINE dd0         == [dd EXCEPT !.digitalInUse = FALSE]
            created     == "FindComponent" \notin F /\ "InstanceNew" \notin F
            deviceSet   == created /\ "SetCurrentDevice" \notin F
            callbackSet == deviceSet /\ "SetStreamFormat" \notin F
                                     /\ "SetRenderCallback" \notin F
            initialized == callbackSet /\ "UnitInitialize" \notin F
            started     == initialized /\ "UnitStart" \notin F
            an == OpenAnalog(dd, h, F)
            cl == IF an.result < 0 THEN CloseAnalog(an.d, an.hal) ELSE an
            r  == OpenDeviceAnalog(dd, h, F)
<1>1. DataOK(dd0)
    BY DEF DataOK, DataFieldsTyped, DataFields
<1>2. Typed(an)
    BY <1>1, AnalogUnitSetupTyped DEF OpenAnalog
<1>3. /\ an.result > 0 <=> started
      /\ an.d.hog = dd.hog /\ an.d.revertFormat = dd.revertFormat
      /\ an.d.mixerRestore = dd.mixerRestore /\ ~an.d.digitalInUse
      /\ an.d.outputUnit = (dd.outputUnit \/ created)
      /\ an.d.ioProc = (dd.ioProc \/ callbackSet)
      /\ an.d.started = (dd.started \/ started)
      /\ an.hal.hog = h.hog /\ an.hal.fmt = h.fmt /\ an.hal.mix = h.mix
      /\ an.hal.proc = h.proc
      /\ an.hal.unit = IF started THEN "running"
                       ELSE IF initialized THEN "initialized"
                       ELSE IF created THEN "instance"
                       ELSE h.unit
    <2>1. an = [result |-> CASE started               -> 1
                             [] created /\ ~deviceSet -> -1
                             [] OTHER                 -> 0,
                d |-> [dd0 EXCEPT !.outputUnit = @ \/ created,
                                  !.ioProc = @ \/ callbackSet,
                                  !.initialized = @ \/ initialized,
                                  !.started = @ \/ started],
                hal |-> [h EXCEPT !.unit = IF started THEN "running"
                                           ELSE IF initialized THEN "initialized"
                                           ELSE IF created THEN "instance"
                                           ELSE @]]
        BY DEF an, OpenAnalog, AnalogUnitSetup, dd0
    <2>2. started => deviceSet
        OBVIOUS
    <2>. HIDE DEF an, created, deviceSet, callbackSet, initialized, started
    <2>3. an.result > 0 <=> started
        BY <2>1, <2>2
    <2>. QED BY <1>1, <2>1, <2>3 DEF dd0, DataOK, DataFields, HALOK, HALFields
<1>. HIDE DEF an, dd0
<1>4. /\ Untouched(an.d, an.hal, o) /\ an.hal.proc = "none"
      /\ an.hal.unit # "none" => an.d.outputUnit
    BY <1>3 DEF Released, Untouched
<1>5. CASE an.result > 0
    <2>1. r = [d |-> an.d, hal |-> an.hal, ok |-> TRUE]
        BY <1>5 DEF r, OpenDeviceAnalog, an
    <2>. HIDE DEF r
    <2>. QED BY <1>3, <1>4, <1>5, <2>1 DEF AnalogOpen, r
<1>6. CASE ~(an.result > 0)
    <2>1. /\ Typed(cl) /\ ~cl.d.digitalInUse
          /\ Untouched(cl.d, cl.hal, o) /\ cl.hal.proc = "none"
          /\ cl.hal.unit # "none" => cl.d.outputUnit
        <3>1. CASE an.result < 0
            <4>1. /\ Released(CloseAnalog(an.d, an.hal).d,
                              CloseAnalog(an.d, an.hal).hal, o)
                  /\ CloseAnalog(an.d, an.hal).d.digitalInUse = an.d.digitalInUse
                BY <1>2, <1>4, CloseAnalogReleases DEF Typed
            <4>2. Typed(CloseAnalog(an.d, an.hal))
                BY <1>2, CloseAnalogTyped DEF Typed
            <4>. QED BY <1>3, <3>1, <4>1, <4>2 DEF Released
        <3>2. CASE ~(an.result < 0)
            BY <1>2, <1>3, <1>4, <3>2
        <3>. QED BY <3>1, <3>2
    <2>. HIDE DEF cl
    <2>2. /\ Released(CloseAnalog(cl.d, cl.hal).d, CloseAnalog(cl.d, cl.hal).hal, o)
          /\ CloseAnalog(cl.d, cl.hal).d.digitalInUse = cl.d.digitalInUse
        BY <2>1, CloseAnalogReleases DEF Typed
    <2>3. r = [d |-> CloseAnalog(cl.d, cl.hal).d,
               hal |-> CloseAnalog(cl.d, cl.hal).hal, ok |-> FALSE]
        BY <1>6 DEF r, OpenDeviceAnalog, an, cl
    <2>. HIDE DEF r
    <2>. QED BY <2>1, <2>2, <2>3 DEF r
<1>. QED BY <1>5, <1>6 DEF r

-----------------------------------------------------------------------------
(* The inductive invariant.                                                *)

\* The constructor leaves the device released: the members are at their
\* initial values and, with no other process about, nobody holds the hog.
LEMMA InitDInv ==
    ASSUME Reliable
    PROVE  Init => DInv
<1>. SUFFICES ASSUME Init PROVE DInv
    OBVIOUS
<1>1. IInv
    BY InitIInv
<1>2. hal.hog = -1 /\ hal.proc = "none" /\ hal.unit = "none"
    BY DEF Init, Reliable
<1>3. Released(d, hal, orig)
    BY <1>2 DEF Init, InitialData, Released, Untouched
<1>. QED BY <1>1, <1>3 DEF Init, DInv

\* OpenDevice on a released device: the S/PDIF path when it succeeds, or
\* the analog path after CloseSPDIF has released what the S/PDIF path did.
LEMMA OpenDeviceDInv ==
    ASSUME Reliable, DInv, NEW F \in SUBSET Faults, NEW digital \in BOOLEAN,
           NEW ac3At \in SUBSET Streams, OpenDevice(digital, ac3At, F)
    PROVE  DInv'
<1>. DEFINE sp  == IF digital THEN OpenSPDIF(d, hal, ac3At, F)
                   ELSE [d |-> d, hal |-> hal, ok |-> FALSE]
            cs  == IF digital /\ ~sp.ok THEN CloseSPDIF(sp.d, sp.hal, F)
                   ELSE sp
            res == IF sp.ok THEN sp ELSE OpenDeviceAnalog(cs.d, cs.hal, F)
<1>1. /\ DataOK(d) /\ HALOK(hal) /\ OrigOK(orig)
      /\ Released(d, hal, orig) /\ F \cap ReliableCalls = {}
    BY DEF OpenDevice, DInv, IInv, OrigOK, Reliable
<1>2. IInv'
    BY NextIInv DEF DInv, Next
<1>3. /\ d' = res.d /\ hal' = res.hal /\ orig' = orig
      /\ phase' = IF res.ok THEN "open" ELSE "closed"
    BY DEF OpenDevice
<1>4. Typed(sp)
    BY <1>1, OpenSPDIFTyped DEF Typed
<1>5. /\ sp.ok => sp.d.digitalInUse /\ SpdifOpen(sp.d, sp.hal, orig)
      /\ digital /\ ~sp.ok => Released(cs.d, cs.hal, orig)
      /\ ~digital => cs = [d |-> d, hal |-> hal, ok |-> FALSE]
    <2>1. CASE digital /\ ac3At # {}
        <3>1. /\ Undoable(sp.d, sp.hal, orig) /\ sp.d.digitalInUse
              /\ sp.ok => SpdifOpen(sp.d, sp.hal, orig)
            BY <1>1, <2>1, OpenSPDIFUndoable
        <3>2. ~sp.ok => Released(cs.d, cs.hal, orig)
            BY <1>1, <1>4, <2>1, <3>1, CloseSPDIFReleases DEF Typed
        <3>. QED BY <2>1, <3>1, <3>2
    <2>2. CASE digital /\ ac3At = {}
        <3>1. sp = [d |-> d, hal |-> hal, ok |-> FALSE]
            BY <2>2 DEF OpenSPDIF
        <3>. QED BY <1>1, <2>2, <3>1, CloseSPDIFKeepsReleased
    <2>3. CASE ~digital
        BY <2>3
    <2>. QED BY <2>1, <2>2, <2>3
<1>. HIDE DEF sp
<1>6. ~sp.ok => Typed(cs) /\ Released(cs.d, cs.hal, orig)
    <2>1. CASE digital
        BY <1>4, <1>5, <2>1, CloseSPDIFTyped DEF Typed
    <2>2. CASE ~digital
        BY <1>1, <1>5, <2>2 DEF Typed
    <2>. QED BY <2>1, <2>2
<1>. HIDE DEF cs
<1>7. CASE sp.ok
    <2>1. res = sp
        BY <1>7 DEF res
    <2>. QED BY <1>2, <1>3, <1>5, <1>7, <2>1 DEF DInv
<1>8. CASE ~sp.ok
    <2>1. res = OpenDeviceAnalog(cs.d, cs.hal, F)
        BY <1>8 DEF res
    <2>2. /\ ~res.d.digitalInUse
          /\ res.ok => AnalogOpen(res.d, res.hal, orig)
          /\ ~res.ok => Released(res.d, res.hal, orig)
        BY <1>6, <1>8, <2>1, OpenDeviceAnalogReleased DEF Typed
    <2>. HIDE DEF res
    <2>. QED BY <1>2, <1>3, <2>2 DEF DInv
<1>. QED BY <1>7, <1>8

\* CloseDevice closes the path mDigitalInUse names, and that path undoes
\* everything its open did.
LEMMA CloseDeviceDInv ==
    ASSUME Reliable, DInv, NEW F \in SUBSET Faults, CloseDevice(F)
    PROVE  DInv'
<1>1. /\ DataOK(d) /\ HALOK(hal) /\ OrigOK(orig) /\ phase = "open"
      /\ F \cap ReliableCalls = {}
    BY DEF CloseDevice, DInv, IInv, OrigOK, Reliable
<1>2. IInv'
    BY NextIInv DEF DInv, Next
<1>3. phase' = "closed" /\ orig' = orig
    BY DEF CloseDevice
<1>4. CASE d.digitalInUse
    <2>1. Undoable(d, hal, orig)
        BY <1>1, <1>4 DEF DInv, SpdifOpen
    <2>2. Released(CloseSPDIF(d, hal, F).d, CloseSPDIF(d, hal, F).hal, orig)
        BY <1>1, <1>4, <2>1, CloseSPDIFReleases
    <2>3. d' = CloseSPDIF(d, hal, F).d /\ hal' = CloseSPDIF(d, hal, F).hal
        BY <1>4 DEF CloseDevice
    <2>. QED BY <1>2, <1>3, <2>2, <2>3 DEF DInv
<1>5. CASE ~d.digitalInUse
    <2>1. /\ Untouched(d, hal, orig) /\ hal.proc = "none"
          /\ hal.unit # "none" => d.outputUnit
        BY <1>1, <1>5 DEF DInv, AnalogOpen
    <2>2. Released(CloseAnalog(d, hal).d, CloseAnalog(d, hal).hal, orig)
        BY <1>1, <2>1, CloseAnalogReleases
    <2>3. d' = CloseAnalog(d, hal).d /\ hal' = CloseAnalog(d, hal).hal
        BY <1>5 DEF CloseDevice
    <2>. QED BY <1>2, <1>3, <2>2, <2>3 DEF DInv
<1>. QED BY <1>4, <1>5

\* Every step keeps the inductive invariant; no other process steps.
LEMMA NextDInv ==
    ASSUME Reliable
    PROVE  DInv /\ [Next]_vars => DInv'
<1>. SUFFICES ASSUME DInv, [Next]_vars PROVE DInv'
    OBVIOUS
<1>1. CASE \E F \in SUBSET Faults, digital \in BOOLEAN, ac3At \in SUBSET Streams :
              OpenDevice(digital, ac3At, F)
    BY <1>1, OpenDeviceDInv
<1>2. CASE \E F \in SUBSET Faults : CloseDevice(F)
    BY <1>2, CloseDeviceDInv
<1>3. CASE \E o \in Others : OtherToggleHog(o)
    BY <1>3 DEF Reliable
<1>4. CASE UNCHANGED vars
    <2>1. IInv'
        BY <1>4, NextIInv DEF DInv
    <2>. QED BY <1>4, <2>1 DEF vars, DInv
<1>. QED BY <1>1, <1>2, <1>3, <1>4 DEF Next

\* When no unchecked call fails and no other process uses the device, every
\* reachable state satisfies the inductive invariant.
THEOREM ReleaseInvariant ==
    ASSUME Reliable
    PROVE  Spec => []DInv
<1>1. Init => DInv
    BY InitDInv
<1>2. DInv /\ [Next]_vars => DInv'
    BY NextDInv
<1>. QED BY <1>1, <1>2, PTL DEF Spec

-----------------------------------------------------------------------------
(* The device_open run's properties, and the rollback, for every instance.*)

\* After CloseDevice, and after an OpenDevice that failed at any step, the
\* process holds no IOProc, AudioUnit or hog mode, and the stream formats
\* and mixing are as it found them (CloseSPDIF undoes OpenSPDIF).
THEOREM DeviceReleasedCorrect ==
    ASSUME Reliable
    PROVE  Spec => []ClosedDeviceReleased
<1>1. DInv => ClosedDeviceReleased
    <2>1. Pid # -1
        BY PidAssumption
    <2>. QED BY <2>1 DEF DInv, Released, Untouched, ClosedDeviceReleased,
                         FormatRestoredWhenClosed, MixingRestoredWhenClosed
<1>. QED BY <1>1, ReleaseInvariant, PTL

\* CloseDevice, which picks the path to close from mDigitalInUse alone,
\* always reaches the path that is live: a live IOProc is flagged digital
\* and a live AudioUnit analog.
THEOREM OpenPathCorrect ==
    ASSUME Reliable
    PROVE  Spec => []CloseReachesOpenPath
<1>1. DInv => CloseReachesOpenPath
    BY DEF DInv, Released, SpdifOpen, Undoable, AnalogOpen,
           CloseReachesOpenPath, IInv, DataOK, DataFieldsTyped
<1>. QED BY <1>1, ReleaseInvariant, PTL

\* OpenDevice reports success only with exactly one output path playing.
THEOREM OpenDevicePlayingCorrect ==
    ASSUME Reliable
    PROVE  Spec => []OpenDevicePlaying
<1>1. DInv => OpenDevicePlaying
    BY DEF DInv, SpdifOpen, Undoable, AnalogOpen, OpenDevicePlaying,
           IInv, DataOK, DataFieldsTyped
<1>. QED BY <1>1, ReleaseInvariant, PTL

\* Whenever the HAL runs the S/PDIF IOProc, mStreamIndex names the stream
\* OpenSPDIF switched to AC-3, and it is still in AC-3.
THEOREM SPDIFStreamCorrect ==
    ASSUME Reliable
    PROVE  Spec => []SPDIFProcWritesAC3Stream
<1>1. DInv => SPDIFProcWritesAC3Stream
    BY DEF DInv, Released, SpdifOpen, AnalogOpen, SPDIFProcWritesAC3Stream,
           IInv, DataOK, DataFieldsTyped
<1>. QED BY <1>1, ReleaseInvariant, PTL

\* The original format that CloseSPDIF writes back is the one the process
\* found (device_revert shows it is not when the revert itself fails).
THEOREM RecordedOriginalCorrect ==
    ASSUME Reliable
    PROVE  Spec => []RecordedOriginalIsOriginal
<1>1. DInv => RecordedOriginalIsOriginal
    BY DEF DInv, Released, Untouched, SpdifOpen, Undoable, AnalogOpen,
           RecordedOriginalIsOriginal, IInv
<1>. QED BY <1>1, ReleaseInvariant, PTL

\* An OpenDevice that fails, after any number of its HAL calls succeeded,
\* leaves the HAL exactly as it found it: CloseSPDIF and CloseAnalog undo
\* every partial step.  The action property FailedOpenRollsBack follows from
\* the release invariant holding both before and after the step.
THEOREM FailedOpenRollsBackCorrect ==
    ASSUME Reliable
    PROVE  Spec => FailedOpenRollsBack
<1>1. DInv /\ DInv' /\ [Next]_vars =>
          [phase = "closed" /\ phase' = "closed" => hal' = hal]_vars
    <2> SUFFICES ASSUME DInv, DInv', [Next]_vars,
                        phase = "closed", phase' = "closed"
                 PROVE  hal' = hal
        OBVIOUS
    <2>1. orig' = orig
        <3>1. ASSUME NEW F, NEW dg, NEW a, OpenDevice(dg, a, F) PROVE orig' = orig
            BY <3>1, Zenon DEF OpenDevice
        <3>2. ASSUME NEW F, CloseDevice(F) PROVE orig' = orig
            BY <3>2, Zenon DEF CloseDevice
        <3>3. ASSUME NEW o, OtherToggleHog(o) PROVE orig' = orig
            BY <3>3, Zenon DEF OtherToggleHog
        <3>4. QED
            BY <3>1, <3>2, <3>3, Zenon DEF Next, vars
    <2>2. Released(d, hal, orig) /\ Released(d', hal', orig')
        BY DEF DInv
    <2>3. HALOK(hal) /\ HALOK(hal')
        BY DEF DInv, IInv
    <2>4. QED
        BY <2>1, <2>2, <2>3 DEF Released, Untouched, HALOK, HALFields, HALFieldsTyped
<1>. QED BY <1>1, ReleaseInvariant, PTL DEF Spec, FailedOpenRollsBack

=============================================================================
