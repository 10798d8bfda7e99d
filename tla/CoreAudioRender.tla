--------------------------- MODULE CoreAudioRender ---------------------------
(***************************************************************************)
(* The HAL's I/O thread composed with the device: while the S/PDIF IOProc *)
(* or the output AudioUnit runs, the HAL calls RenderCallbackSPDIF or     *)
(* RenderCallbackAnalog, both of which call AudioOutputCA::RenderAudio    *)
(* (audiooutputca.cpp).  RenderAudio reads m_pauseAudio and m_killAudio,  *)
(* which the player thread writes without a lock, and acknowledges a     *)
(* pause by setting m_actuallyPaused.  The read and the write are two    *)
(* steps of the I/O thread, between which the player may run.  The audio *)
(* data (GetAudioData, the silence fill, the SMPTE reordering, the       *)
(* buffered byte count) is abstracted away.                               *)
(*                                                                         *)
(* The player's side (AudioOutputBase::Pause and KillAudio) is not in      *)
(* this repository: it is the environment, which may set or clear the     *)
(* pause request at any time (clearing m_actuallyPaused with it) and set   *)
(* the kill flag.                                                          *)
(***************************************************************************)
EXTENDS CoreAudioDevice

VARIABLES
    pauseAudio,      \* m_pauseAudio
    killAudio,       \* m_killAudio
    actuallyPaused,  \* m_actuallyPaused
    cb               \* the I/O thread: "idle", or inside RenderAudio
                     \* having read "pause" or "play"

renderVars == <<pauseAudio, killAudio, actuallyPaused, cb>>
allVars == <<d, hal, phase, orig, pauseAudio, killAudio, actuallyPaused, cb>>

RInit ==
    /\ Init
    /\ pauseAudio = FALSE
    /\ killAudio = FALSE
    /\ actuallyPaused = FALSE
    /\ cb = "idle"

\* The first step of RenderAudio: the test of m_pauseAudio || m_killAudio.
RenderAudioTest ==
    cb' = IF pauseAudio \/ killAudio THEN "pause" ELSE "play"

\* The HAL calls the S/PDIF IOProc while the device runs it.
RenderCallbackSPDIF ==
    /\ cb = "idle"
    /\ hal.proc = "running"
    /\ RenderAudioTest
    /\ UNCHANGED <<d, hal, phase, orig, pauseAudio, killAudio, actuallyPaused>>

\* The output AudioUnit calls its render callback while it runs.
RenderCallbackAnalog ==
    /\ cb = "idle"
    /\ hal.unit = "running"
    /\ RenderAudioTest
    /\ UNCHANGED <<d, hal, phase, orig, pauseAudio, killAudio, actuallyPaused>>

\* The rest of RenderAudio: set m_actuallyPaused and return false (the
\* callback plays silence), or render the available audio.
RenderAudioReturn ==
    /\ cb # "idle"
    /\ actuallyPaused' = (cb = "pause" \/ actuallyPaused)
    /\ cb' = "idle"
    /\ UNCHANGED <<d, hal, phase, orig, pauseAudio, killAudio>>

\* The player thread requests or lifts a pause (environment).
Pause(b) ==
    /\ pauseAudio' = b
    /\ actuallyPaused' = FALSE
    /\ UNCHANGED <<d, hal, phase, orig, killAudio, cb>>

\* The player thread sets m_killAudio (environment; the destructor's
\* KillAudio).
Kill ==
    /\ ~killAudio
    /\ killAudio' = TRUE
    /\ UNCHANGED <<d, hal, phase, orig, pauseAudio, actuallyPaused, cb>>

\* The device steps of CoreAudioDevice.  AudioDeviceStop and
\* AudioOutputUnitStop return only once a callback in progress has
\* returned, so CloseDevice runs with the I/O thread idle.
DeviceStep ==
    /\ \/ \E F \in SUBSET Faults :
             \/ \E digital \in BOOLEAN, ac3At \in SUBSET Streams :
                   OpenDevice(digital, ac3At, F)
             \/ cb = "idle" /\ CloseDevice(F)
       \/ \E o \in Others : OtherToggleHog(o)
    /\ UNCHANGED renderVars

RNext ==
    \/ DeviceStep
    \/ RenderCallbackSPDIF
    \/ RenderCallbackAnalog
    \/ RenderAudioReturn
    \/ \E b \in BOOLEAN : Pause(b)
    \/ Kill

\* The HAL keeps calling a running IOProc or AudioUnit, and a callback that
\* has started returns: weak fairness of the I/O thread's steps.  The
\* player is given no fairness; it may stop at any time.
RFairness ==
    /\ WF_allVars(RenderCallbackSPDIF)
    /\ WF_allVars(RenderCallbackAnalog)
    /\ WF_allVars(RenderAudioReturn)

RSpec == RInit /\ [][RNext]_allVars /\ RFairness

-----------------------------------------------------------------------------
(* Properties.                                                             *)

RTypeOK ==
    /\ TypeOK
    /\ pauseAudio \in BOOLEAN
    /\ killAudio \in BOOLEAN
    /\ actuallyPaused \in BOOLEAN
    /\ cb \in {"idle", "pause", "play"}

\* RenderAudio runs only while the device is open.  CloseDevice stops the
\* path mDigitalInUse names (AudioDeviceStop or AudioDeviceDestroyIOProcID
\* for the IOProc; AudioOutputUnitStop and the disposal for the AudioUnit),
\* and a stop waits for a callback in progress, so no render callback runs
\* on a closed device, whose members the destructor then deletes.
CallbackOnlyWhileOpen == cb # "idle" => phase = "open"

\* A pause or kill requested while the device is open is acknowledged:
\* RenderAudio eventually sets m_actuallyPaused, unless the request is
\* lifted or the device is closed first.  It needs OpenDevice to leave an
\* output path running whenever it reports success, and the HAL to call it.
PauseAcknowledged ==
    (phase = "open" /\ (pauseAudio \/ killAudio))
        ~> (actuallyPaused \/ phase = "closed" \/ ~(pauseAudio \/ killAudio))

=============================================================================
